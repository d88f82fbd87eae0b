---------------------------- MODULE Matches_proofs ----------------------------
(***************************************************************************)
(* The matches, for any players, maps, settings and bounds: the score and  *)
(* the board of the racers (Scoring), and the shots, frogs and objects of  *)
(* the deathmatch with the copies the clients keep of them (Arena); and    *)
(* how a player moves over a map of tiles (Physics).                       *)
(***************************************************************************)
EXTENDS Arena, Scoring, Physics, Sequence_lemmas

-----------------------------------------------------------------------------
(* Sets of numbers and sequences.  *)

LEMMA RemoveAtIs ==
    ASSUME NEW S, NEW s \in Seq(S), NEW i \in 1 .. Len(s)
    PROVE  /\ RemoveAt(s, i) \in Seq(S)
           /\ Len(RemoveAt(s, i)) = Len(s) - 1
           /\ \A j \in 1 .. Len(s) - 1 :
                RemoveAt(s, i)[j] = IF j < i THEN s[j] ELSE s[j + 1]
<1> DEFINE a == SubSeq(s, 1, i - 1)
           b == SubSeq(s, i + 1, Len(s))
<1>1. Len(s) \in Nat /\ i \in Int
  BY LenProperties
<1>2. /\ a \in Seq(S) /\ Len(a) = i - 1
      /\ \A j \in 1 .. i - 1 : a[j] = s[j]
  <2>1. \A j \in 1 .. i - 1 : s[j] \in S
    BY <1>1, ElementOfSeq
  <2> QED
    BY <1>1, <2>1, SubSeqProperties
<1>3. /\ b \in Seq(S) /\ Len(b) = Len(s) - i
      /\ \A j \in 1 .. Len(s) - i : b[j] = s[i + j]
  <2>1. \A j \in i + 1 .. Len(s) : s[j] \in S
    BY <1>1, ElementOfSeq
  <2> QED
    BY <1>1, <2>1, SubSeqProperties
<1>4. RemoveAt(s, i) = a \o b
  BY DEF RemoveAt
<1> HIDE DEF a, b
<1>5. /\ a \o b \in Seq(S) /\ Len(a \o b) = Len(s) - 1
      /\ \A j \in 1 .. Len(s) - 1 : (a \o b)[j] = IF j <= Len(a) THEN a[j] ELSE b[j - Len(a)]
  <2>1. /\ a \o b \in Seq(S) /\ Len(a \o b) = Len(a) + Len(b)
        /\ \A j \in 1 .. Len(a) + Len(b) :
             (a \o b)[j] = IF j <= Len(a) THEN a[j] ELSE b[j - Len(a)]
    BY <1>2, <1>3, ConcatProperties
  <2>2. Len(a) + Len(b) = Len(s) - 1
    BY <1>1, <1>2, <1>3
  <2> QED
    BY <2>1, <2>2
<1> QED
  BY <1>1, <1>2, <1>3, <1>4, <1>5

LEMMA AppendIs ==
    ASSUME NEW S, NEW s \in Seq(S), NEW e \in S
    PROVE  /\ Append(s, e) \in Seq(S) /\ Len(Append(s, e)) = Len(s) + 1
           /\ \A k \in 1 .. Len(s) : Append(s, e)[k] = s[k]
           /\ Append(s, e)[Len(s) + 1] = e
OBVIOUS

(* The board without player i, who is on it at most once.                  *)
LEMMA WithoutHimIs ==
    ASSUME times \in Seq(Times), NEW i
    PROVE  \/ TimesWithoutHim(i) = times /\ \A k \in 1 .. Len(times) : times[k].id # i
           \/ \E n \in 1 .. Len(times) :
                 /\ times[n].id = i
                 /\ TimesWithoutHim(i) \in Seq(Times)
                 /\ Len(TimesWithoutHim(i)) = Len(times) - 1
                 /\ \A k \in 1 .. Len(times) - 1 :
                      TimesWithoutHim(i)[k] = IF k < n THEN times[k] ELSE times[k + 1]
<1> DEFINE I == {k \in 1 .. Len(times) : times[k].id = i}
<1>1. CASE I = {}
  <2>1. \A k \in 1 .. Len(times) : times[k].id # i
    BY <1>1
  <2>2. TimesWithoutHim(i) = times
    BY <2>1 DEF TimesWithoutHim, RemoveFirstMatch
  <2> QED
    BY <2>1, <2>2
<1>2. CASE I # {}
  <2> DEFINE m == Min(I)
  <2>0. Len(times) \in Nat
    BY LenProperties
  <2>1. PICK n \in I : \A j \in I : n <= j
    <3>1. I \in SUBSET Nat
      BY <2>0
    <3> QED
      BY <3>1, <1>2, LeastExists, Zenon
  <2>2. m \in I
    BY <2>1 DEF Min
  <2>3. TimesWithoutHim(i) = RemoveAt(times, m)
    <3>1. \E k \in 1 .. Len(times) : times[k].id = i
      BY <1>2
    <3> QED
      BY <3>1, <1>2 DEF TimesWithoutHim, RemoveFirstMatch, SelectInSeq
  <2> HIDE DEF m
  <2>4. m \in 1 .. Len(times) /\ times[m].id = i
    BY <2>2
  <2>5. /\ RemoveAt(times, m) \in Seq(Times) /\ Len(RemoveAt(times, m)) = Len(times) - 1
        /\ \A k \in 1 .. Len(times) - 1 :
              RemoveAt(times, m)[k] = IF k < m THEN times[k] ELSE times[k + 1]
    BY <2>4, RemoveAtIs
  <2> QED
    BY <2>3, <2>4, <2>5
<1> QED
  BY <1>1, <1>2

-----------------------------------------------------------------------------
(* The score: types.  *)

LEMMA ScoreConstants ==
    /\ PlayerIds \subseteq Nat \ {0} /\ HillCounterMax \in Nat \ {0} /\ LapTimes \subseteq Nat
    /\ IsFiniteSet(PlayerIds)
BY ScoringAssumption

LEMMA EmptyIs ==
    /\ << >> \in Seq(Times) /\ << >> \in Seq(Message) /\ << >> \in Seq(LapTimes)
    /\ Len(<< >>) = 0 /\ DOMAIN << >> = {}
OBVIOUS

LEMMA NoPointsIs == NoPoints \in [Teams -> Nat]
BY DEF NoPoints

LEMMA NewcomerIs == Newcomer \in Member
BY DEF Newcomer, Member, Teams

LEMMA NoteIs ==
    ASSUME NEW c \in {"team", "hill", "lap", "record"}, NEW i \in {0} \cup PlayerIds, NEW v \in Nat
    PROVE  /\ Note(c, i, v) \in Message /\ Note(c, i, v).cmd = c
           /\ Note(c, i, v).id = i /\ Note(c, i, v).value = v
BY NoPointsIs DEF Note, Message

LEMMA LapNoteIs ==
    ASSUME NEW i \in {0} \cup PlayerIds, NEW v \in Nat
    PROVE  /\ Note("lap", i, v) \in Message /\ Note("lap", i, v).cmd = "lap"
           /\ Note("lap", i, v).id = i /\ Note("lap", i, v).value = v
<1>1. "lap" \in {"team", "hill", "lap", "record"}
  OBVIOUS
<1> QED BY <1>1, NoteIs

LEMMA TeamScoreIs ==
    ASSUME NEW s \in [Teams -> Nat]
    PROVE  TeamScore(s) \in Message /\ TeamScore(s).cmd = "team" /\ TeamScore(s).total = s
<1>1. TeamScore(s) = [cmd |-> "team", id |-> 0, value |-> 0, total |-> s]
  BY DEF TeamScore, Note
<1> QED
  BY <1>1 DEF Message

LEMMA NoLapsIs ==
    ASSUME NEW i \in PlayerIds
    PROVE  NoLaps(i) \in Times /\ NoLaps(i).id = i /\ NoLaps(i).laps = << >>
BY EmptyIs DEF NoLaps, Times

(* What a step adds to the outbox when somebody is taken off the hill.     *)
LEMMA OffHillNotesAre ==
    ASSUME NEW i \in PlayerIds
    PROVE  /\ OffHillNotes(i) \in Seq(Message) /\ Len(OffHillNotes(i)) \in {0, 1}
           /\ \A k \in 1 .. Len(OffHillNotes(i)) : OffHillNotes(i)[k].cmd = "hill"
<1> DEFINE m == Note("hill", i, 0)
<1>1. m \in Message /\ m.cmd = "hill"
  <2>1. i \in {0} \cup PlayerIds /\ 0 \in Nat /\ "hill" \in {"team", "hill", "lap", "record"}
    OBVIOUS
  <2> QED
    BY <2>1, NoteIs
<1> HIDE DEF m
<1>2. << m >> \in Seq(Message) /\ Len(<< m >>) = 1 /\ << m >>[1] = m
  BY <1>1
<1>3. CASE type = "GOH" /\ hill = i
  BY <1>1, <1>2, <1>3 DEF OffHillNotes, m
<1>4. CASE ~(type = "GOH" /\ hill = i)
  BY <1>4, EmptyIs DEF OffHillNotes
<1> QED
  BY <1>3, <1>4

LEMMA ListedIs ==
    ASSUME NEW ts \in Seq(Times), NEW i \in PlayerIds
    PROVE  Listed(ts, i) \in Seq(Times)
BY NoLapsIs DEF Listed

LEMMA WithoutHimTyped ==
    ASSUME times \in Seq(Times), NEW i
    PROVE  TimesWithoutHim(i) \in Seq(Times)
BY WithoutHimIs

LEMMA MembersAre ==
    ASSUME NEW p \in Member
    PROVE  /\ Dead(p) \in Member /\ Dead(p).mode = "dead"
           /\ [Dead(p) EXCEPT !.score = @ - 1] \in Member
           /\ [Dead(p) EXCEPT !.score = @ - 1].mode = "dead"
           /\ [p EXCEPT !.mode = "dead"] \in Member
           /\ LetIn(p) \in Member
           /\ \A b \in BOOLEAN : [Newcomer EXCEPT !.asks = b] \in Member
           /\ \A t \in Teams : [p EXCEPT !.asks = TRUE, !.team = t] \in Member
           /\ \A n \in Int : [p EXCEPT !.frags = @ + 1, !.score = @ + n] \in Member
<1>1. Dead(p) \in Member /\ Dead(p).mode = "dead"
  <2> DEFINE k == p.kills + 1
  <2>1. k \in Nat
    BY DEF Member
  <2>2. Dead(p) = [p EXCEPT !.mode = "dead", !.kills = k]
    BY DEF Dead
  <2> HIDE DEF k
  <2>3. [p EXCEPT !.mode = "dead", !.kills = k] \in Member
    BY <2>1 DEF Member
  <2>4. [p EXCEPT !.mode = "dead", !.kills = k].mode = "dead"
    BY DEF Member
  <2> QED
    BY <2>2, <2>3, <2>4
<1>2. /\ [Dead(p) EXCEPT !.score = @ - 1] \in Member
      /\ [Dead(p) EXCEPT !.score = @ - 1].mode = "dead"
  <2> DEFINE d == Dead(p)
  <2> HIDE DEF d
  <2>1. [d EXCEPT !.score = @ - 1] \in Member /\ [d EXCEPT !.score = @ - 1].mode = "dead"
    <3>1. d \in Member /\ d.mode = "dead"
      BY <1>1 DEF d
    <3> QED
      BY <3>1 DEF Member
  <2> QED
    BY <2>1 DEF d
<1>3. [p EXCEPT !.mode = "dead"] \in Member
  BY DEF Member
<1>4. LetIn(p) \in Member
  BY DEF Member, LetIn
<1>5. \A b \in BOOLEAN : [Newcomer EXCEPT !.asks = b] \in Member
  BY NewcomerIs DEF Member
<1>6. \A t \in Teams : [p EXCEPT !.asks = TRUE, !.team = t] \in Member
  BY DEF Member
<1>7. ASSUME NEW n \in Int PROVE [p EXCEPT !.frags = @ + 1, !.score = @ + n] \in Member
  <2> DEFINE f == p.frags + 1
             c == p.score + n
  <2>1. f \in Nat /\ c \in Int
    BY DEF Member
  <2> HIDE DEF f, c
  <2>2. [p EXCEPT !.frags = f, !.score = c] \in Member
    BY <2>1 DEF Member
  <2> QED
    BY <2>2 DEF f, c
<1> QED
  BY <1>1, <1>2, <1>3, <1>4, <1>5, <1>6, <1>7

LEMMA FragPointIs ==
    ASSUME NEW o, NEW i
    PROVE  FragPoint(o, i) \in Int
BY DEF FragPoint

(* The list that is sorted is one of the same elements, each once.         *)
LEMMA SortedAre ==
    ASSUME NEW ts \in Seq(Times), NEW s \in Sorted(ts)
    PROVE  /\ s \in Seq(Times)
           /\ \A k \in 1 .. Len(s) : \E j \in 1 .. Len(ts) : s[k] = ts[j]
           /\ \A j \in 1 .. Len(ts) : \E k \in 1 .. Len(s) : s[k] = ts[j]
           /\ \A j, k \in 1 .. Len(s) : j # k => s[j] # s[k]
           /\ \A j, k \in 1 .. Len(s) : Faster(s[j], s[k]) => j < k
<1> DEFINE R == Range(ts)
           n == Cardinality(R)
<1>1. IsFiniteSet(R) /\ R \subseteq Times
  <2>1. DOMAIN ts = 1 .. Len(ts) /\ Len(ts) \in Nat
    OBVIOUS
  <2>2. IsFiniteSet(1 .. Len(ts))
    BY <2>1, FS_Interval
  <2>3. ts \in Surjection(1 .. Len(ts), R)
    BY <2>1 DEF Surjection, Range
  <2> QED
    BY <2>1, <2>2, <2>3, FS_Surjection DEF Range
<1>2. n \in Nat
  BY <1>1, FS_CardinalityType
<1>3. s \in [1 .. n -> R] /\ \A j, k \in 1 .. n : j # k => s[j] # s[k]
  BY DEF Sorted, SetToSeqs
<1>4. s \in Seq(Times) /\ Len(s) = n /\ DOMAIN s = 1 .. n
  BY <1>1, <1>2, <1>3
<1>5. \A e \in R : \E k \in 1 .. n : s[k] = e
  <2> HIDE DEF R, n
  <2>1. s \in Injection(1 .. n, R)
    BY <1>3 DEF Injection, IsInjective
  <2>2. Cardinality(1 .. n) = n
    BY <1>2, FS_Interval
  <2>3. n = Cardinality(R)
    BY DEF n
  <2>4. s \in Surjection(1 .. n, R)
    BY <1>1, <2>1, <2>2, <2>3, FS_Injection
  <2> QED
    BY <2>4 DEF Surjection
<1>6. \A j, k \in DOMAIN s : Faster(s[j], s[k]) => j < k
  BY DEF Sorted
<1>7. /\ \A k \in 1 .. Len(s) : \E j \in 1 .. Len(ts) : s[k] = ts[j]
      /\ \A j \in 1 .. Len(ts) : \E k \in 1 .. Len(s) : s[k] = ts[j]
  <2>1. \A e : (e \in R) <=> \E j \in 1 .. Len(ts) : ts[j] = e
    BY DEF Range
  <2> HIDE DEF R, n
  <2>2. \A k \in 1 .. Len(s) : s[k] \in R
    BY <1>3, <1>4
  <2>3. \A k \in 1 .. Len(s) : \E j \in 1 .. Len(ts) : s[k] = ts[j]
    BY <2>1, <2>2
  <2>4. \A j \in 1 .. Len(ts) : \E k \in 1 .. Len(s) : s[k] = ts[j]
    BY <1>4, <1>5, <2>1
  <2> QED
    BY <2>3, <2>4
<1> QED
  BY <1>3, <1>4, <1>6, <1>7

(* The board with one more lap of player i, before it is sorted.           *)
WithLap(i, t) == [k \in DOMAIN times |->
                    IF times[k].id = i THEN [times[k] EXCEPT !.laps = Append(@, t)]
                    ELSE times[k]]

LEMMA WithLapIs ==
    ASSUME times \in Seq(Times), NEW i, NEW t \in LapTimes
    PROVE  /\ WithLap(i, t) \in Seq(Times) /\ Len(WithLap(i, t)) = Len(times)
           /\ \A k \in 1 .. Len(times) : WithLap(i, t)[k].id = times[k].id
           /\ \A k \in 1 .. Len(times) :
                WithLap(i, t)[k].laps = IF times[k].id = i THEN Append(times[k].laps, t)
                                        ELSE times[k].laps
<1>1. DOMAIN times = 1 .. Len(times) /\ Len(times) \in Nat
  OBVIOUS
<1>2. ASSUME NEW k \in 1 .. Len(times)
      PROVE  /\ WithLap(i, t)[k] \in Times /\ WithLap(i, t)[k].id = times[k].id
             /\ WithLap(i, t)[k].laps = IF times[k].id = i THEN Append(times[k].laps, t)
                                        ELSE times[k].laps
  <2>1. times[k] \in Times
    OBVIOUS
  <2>2. times[k].laps \in Seq(LapTimes) /\ times[k] = [id |-> times[k].id, laps |-> times[k].laps]
    BY <2>1 DEF Times
  <2> DEFINE l == Append(times[k].laps, t)
  <2>3. l \in Seq(LapTimes)
    BY <2>2
  <2>4. WithLap(i, t)[k] = IF times[k].id = i THEN [times[k] EXCEPT !.laps = l] ELSE times[k]
    BY <1>1 DEF WithLap
  <2> HIDE DEF l
  <2>5. /\ [times[k] EXCEPT !.laps = l] \in Times
        /\ [times[k] EXCEPT !.laps = l].id = times[k].id
        /\ [times[k] EXCEPT !.laps = l].laps = l
    BY <2>1, <2>3 DEF Times
  <2> QED
    BY <2>1, <2>4, <2>5 DEF l
<1>3. WithLap(i, t) = [k \in 1 .. Len(times) |-> WithLap(i, t)[k]]
  BY <1>1 DEF WithLap
<1> HIDE DEF WithLap
<1>4. WithLap(i, t) \in [1 .. Len(times) -> Times]
  BY <1>2, <1>3
<1>5. WithLap(i, t) \in Seq(Times) /\ Len(WithLap(i, t)) = Len(times)
  BY <1>1, <1>4
<1> QED
  BY <1>2, <1>5

(* An outbox to which one or several messages are added.                   *)
LEMMA OutboxIs ==
    ASSUME NEW s \in Seq(Message)
    PROVE  /\ \A t \in Seq(Message) : s \o t \in Seq(Message)
           /\ \A m \in Message : s \o << m >> \in Seq(Message) /\ Append(s, m) \in Seq(Message)
           /\ \A m, n \in Message : s \o << m, n >> \in Seq(Message)
<1>1. \A m \in Message : << m >> \in Seq(Message)
  OBVIOUS
<1>2. \A m, n \in Message : << m, n >> \in Seq(Message)
  OBVIOUS
<1> QED
  BY <1>1, <1>2, ConcatIs

LEMMA OnePoint ==
    ASSUME NEW f \in [Teams -> Nat], NEW t \in Teams
    PROVE  /\ [f EXCEPT ![t] = @ + 1] \in [Teams -> Nat]
           /\ \A u \in Teams : [f EXCEPT ![t] = @ + 1][u] = IF u = t THEN f[u] + 1 ELSE f[u]
<1>1. f[t] + 1 \in Nat
  OBVIOUS
<1> DEFINE n == f[t] + 1
<1> HIDE DEF n
<1>2. [f EXCEPT ![t] = n] \in [Teams -> Nat]
  BY <1>1 DEF n
<1> QED
  BY <1>2 DEF n

LEMMA SynchroniseTyped ==
    ASSUME ScoringTypeOK, NEW i \in PlayerIds, Synchronise(i)
    PROVE  ScoringTypeOK'
<1>1. times' \in Seq(Times) /\ outbox' \in Seq(Message)
  BY ListedIs, EmptyIs DEF Synchronise, ScoringTypeOK
<1>2. Present' \subseteq PlayerIds /\ \A j \in Present' : roster'[j] \in Member
  BY NewcomerIs DEF Synchronise, ScoringTypeOK, Present
<1>3. DOMAIN told' \subseteq Present'
  BY DEF Synchronise, ScoringTypeOK, Present
<1> QED
  BY <1>1, <1>2, <1>3 DEF Synchronise, ScoringTypeOK

LEMMA LeavesTyped ==
    ASSUME ScoringTypeOK, NEW i \in Present, Leaves(i)
    PROVE  ScoringTypeOK'
<1>1. times' \in Seq(Times)
  BY WithoutHimTyped DEF Leaves, ScoringTypeOK
<1>2. outbox' \in Seq(Message)
  BY OffHillNotesAre, OutboxIs DEF Leaves, ScoringTypeOK
<1>3. hill' \in {0} \cup PlayerIds
  BY DEF Leaves, ScoringTypeOK, OffHill
<1>4. Present' \subseteq PlayerIds /\ \A j \in Present' : roster'[j] \in Member
  BY DEF Leaves, ScoringTypeOK, Present
<1>5. DOMAIN told' \subseteq Present'
  BY DEF Leaves, ScoringTypeOK, Present
<1> QED
  BY <1>1, <1>2, <1>3, <1>4, <1>5 DEF Leaves, ScoringTypeOK

LEMMA WatchTyped ==
    ASSUME ScoringTypeOK, NEW i \in Present, GoesToWatch(i)
    PROVE  ScoringTypeOK'
<1>1. times' \in Seq(Times)
  BY WithoutHimTyped, ListedIs DEF GoesToWatch, ScoringTypeOK
<1>2. outbox' \in Seq(Message)
  BY OffHillNotesAre, OutboxIs DEF GoesToWatch, ScoringTypeOK
<1>3. hill' \in {0} \cup PlayerIds
  BY DEF GoesToWatch, ScoringTypeOK, OffHill
<1>4. Present' = Present /\ \A j \in Present : roster'[j] \in Member
  <2>1. roster[i].asks \in BOOLEAN
    BY DEF ScoringTypeOK, Member
  <2>2. [Newcomer EXCEPT !.asks = roster[i].asks] \in Member
    BY <2>1, NewcomerIs, MembersAre
  <2> QED
    BY <2>2 DEF GoesToWatch, ScoringTypeOK, Present
<1>5. DOMAIN told' \subseteq Present'
  BY <1>4 DEF GoesToWatch, ScoringTypeOK
<1> QED
  BY <1>1, <1>2, <1>3, <1>4, <1>5 DEF GoesToWatch, ScoringTypeOK

LEMMA AsksTyped ==
    ASSUME ScoringTypeOK, NEW i \in Present, NEW t \in Teams, AsksToJoin(i, t)
    PROVE  ScoringTypeOK'
<1>1. Present' = Present /\ \A j \in Present : roster'[j] \in Member
  <2> DEFINE u == IF t = "red" THEN "red" ELSE roster[i].team
  <2>1. u \in Teams
    BY DEF ScoringTypeOK, Member, Teams
  <2>2. roster' = [roster EXCEPT ![i] = [roster[i] EXCEPT !.asks = TRUE, !.team = u]]
    BY DEF AsksToJoin
  <2> HIDE DEF u
  <2>3. [roster[i] EXCEPT !.asks = TRUE, !.team = u] \in Member
    BY <2>1, MembersAre DEF ScoringTypeOK
  <2> QED
    BY <2>2, <2>3 DEF ScoringTypeOK, Present
<1> QED
  BY <1>1 DEF AsksToJoin, ScoringTypeOK

LEMMA DiesTyped ==
    ASSUME ScoringTypeOK, NEW i \in Present, NEW o \in {0} \cup PlayerIds, DiesBy(i, o)
    PROVE  ScoringTypeOK'
<1>1. Present' = Present /\ \A j \in Present : roster'[j] \in Member
  <2>1. roster[i] \in Member /\ (o \in Present => roster[o] \in Member)
    BY DEF ScoringTypeOK
  <2>2. [Dead(roster[i]) EXCEPT !.score = @ - 1] \in Member /\ Dead(roster[i]) \in Member
    BY <2>1, MembersAre
  <2>3. o \in Present =>
          [roster[o] EXCEPT !.frags = @ + 1, !.score = @ + FragPoint(o, i)] \in Member
    BY <2>1, FragPointIs, MembersAre
  <2> QED
    BY <2>2, <2>3 DEF DiesBy, ScoringTypeOK, Present
<1>2. hill' \in {0} \cup PlayerIds
  BY DEF DiesBy, ScoringTypeOK, OffHill
<1> DEFINE scores == type = "TDM" /\ o \in Present \ {i} /\ ~Friendly(o, i)
           now == IF scores THEN [total EXCEPT ![roster[o].team] = @ + 1] ELSE total
<1>3. now \in [Teams -> Nat] /\ total' = now
  <2>1. o \in Present => roster[o].team \in Teams
    BY DEF ScoringTypeOK, Member
  <2>2. total \in [Teams -> Nat]
    BY DEF ScoringTypeOK
  <2>3. now \in [Teams -> Nat]
    BY <2>1, <2>2, OnePoint
  <2> QED
    BY <2>3 DEF DiesBy
<1>4. outbox' \in Seq(Message)
  <2>1. outbox' = outbox \o OffHillNotes(i) \o (IF scores THEN << TeamScore(now) >> ELSE << >>)
    BY DEF DiesBy
  <2>2. outbox \in Seq(Message) /\ OffHillNotes(i) \in Seq(Message)
    BY OffHillNotesAre DEF ScoringTypeOK
  <2>3. TeamScore(now) \in Message
    BY <1>3, TeamScoreIs
  <2> HIDE DEF scores, now
  <2>4. (IF scores THEN << TeamScore(now) >> ELSE << >>) \in Seq(Message)
    BY <2>3, EmptyIs
  <2> QED
    BY <2>1, <2>2, <2>4, OutboxIs
<1> QED
  BY <1>1, <1>2, <1>3, <1>4 DEF DiesBy, ScoringTypeOK

LEMMA HillTyped ==
    ASSUME ScoringTypeOK, NEW zone \in SUBSET {i \in Present : roster[i].mode = "alive"},
           HillPass(zone)
    PROVE  ScoringTypeOK'
<1>1. \A c \in {"hill"}, i \in {0} \cup PlayerIds, v \in Nat : Note("hill", i, v) \in Message
  BY NoteIs
<1>2. CASE zone = {} /\ HillIsFree
  <2>1. outbox' \in Seq(Message)
    BY <1>1, <1>2, OutboxIs DEF HillIsFree, ScoringTypeOK
  <2>2. hill' = 0 /\ UNCHANGED <<type, roster, total, counter, times, told>>
    BY <1>2 DEF HillPass, HillIsFree
  <2> QED
    BY <2>1, <2>2 DEF ScoringTypeOK, Present
<1>3. ASSUME NEW i \in Goat(zone), HillIsTaken(i), zone # {} PROVE ScoringTypeOK'
  <2>1. i \in PlayerIds
    BY <1>3 DEF Goat, ScoringTypeOK
  <2> QED
    BY <1>1, <1>3, <2>1, OutboxIs, ScoreConstants DEF HillPass, HillIsTaken, ScoringTypeOK, Present
<1>4. ASSUME NEW i \in Goat(zone), HillIsHeld(i), zone # {} PROVE ScoringTypeOK'
  <2>1. i \in PlayerIds /\ counter - 1 \in Nat /\ counter - 1 \in 0 .. HillCounterMax
    BY <1>4, ScoreConstants DEF Goat, ScoringTypeOK, HillIsHeld
  <2> QED
    BY <1>1, <1>4, <2>1, OutboxIs DEF HillPass, HillIsHeld, ScoringTypeOK, Present
<1>5. ASSUME NEW i \in Goat(zone), HillScores(i), zone # {} PROVE ScoringTypeOK'
  <2>1. i \in PlayerIds /\ i \in Present
    BY <1>5 DEF Goat, ScoringTypeOK
  <2>2. total' \in [Teams -> Nat]
    <3>1. total \in [Teams -> Nat] /\ total' = [total EXCEPT ![roster[i].team] = @ + 1]
      BY <1>5 DEF HillScores, ScoringTypeOK
    <3>2. roster[i].team \in Teams
      BY <2>1 DEF ScoringTypeOK, Member
    <3> QED
      BY <3>1, <3>2, OnePoint
  <2>3. Note("hill", i, 0) \in Message /\ TeamScore(total') \in Message
    BY <1>1, <2>1, <2>2, TeamScoreIs
  <2>4. outbox' \in Seq(Message)
    BY <1>5, <2>3, OutboxIs DEF HillScores, ScoringTypeOK
  <2>5. Present' = Present /\ \A j \in Present : roster'[j] \in Member
    BY <1>5, MembersAre DEF HillScores, ScoringTypeOK, Present
  <2> QED
    <3>1. hill' = 0 /\ counter' = 0 /\ UNCHANGED <<type, times, told>>
      BY <1>5 DEF HillPass, HillScores
    <3>2. 0 \in 0 .. HillCounterMax
      BY ScoreConstants
    <3> QED
      BY <2>2, <2>4, <2>5, <3>1, <3>2 DEF ScoringTypeOK
<1> QED
  BY <1>2, <1>3, <1>4, <1>5 DEF HillPass

LEMMA LapTyped ==
    ASSUME ScoringTypeOK, NEW i \in Present, NEW t \in LapTimes, FinishesLap(i, t)
    PROVE  ScoringTypeOK'
<1>1. times' \in Sorted(WithLap(i, t))
  BY DEF FinishesLap, WithLap
<1>2. times' \in Seq(Times)
  BY <1>1, WithLapIs, SortedAre DEF ScoringTypeOK
<1>3. i \in PlayerIds /\ t \in Nat
  BY ScoreConstants DEF ScoringTypeOK
<1>4. Note("record", i, t) \in Message /\ Note("lap", i, t) \in Message
  BY <1>3, NoteIs
<1>5. outbox' \in Seq(Message)
  <2>1. outbox' \in {Append(outbox, Note("record", i, t)), Append(outbox, Note("lap", i, t))}
    BY DEF FinishesLap
  <2> QED
    BY <1>4, <2>1, OutboxIs DEF ScoringTypeOK
<1> QED
  BY <1>2, <1>5 DEF FinishesLap, ScoringTypeOK, Present

LEMMA SendTyped ==
    ASSUME ScoringTypeOK, SendAll
    PROVE  ScoringTypeOK'
BY MembersAre, EmptyIs DEF SendAll, ScoringTypeOK, Present

LEMMA NextMatchTyped ==
    ASSUME ScoringTypeOK, NextMatch
    PROVE  ScoringTypeOK'
<1>1. Present' = Present /\ \A j \in Present : roster'[j] \in Member
  <2>1. PICK playOn \in BOOLEAN : roster' = [i \in Present |-> [Newcomer EXCEPT
              !.team = IF playOn THEN roster[i].team ELSE "blue",
              !.mode = IF playOn /\ roster[i].mode # "spectating" THEN "alive" ELSE @,
              !.asks = roster[i].asks]]
    BY DEF NextMatch
  <2>2. ASSUME NEW j \in Present PROVE roster'[j] \in Member
    <3> DEFINE u == IF playOn THEN roster[j].team ELSE "blue"
               a == roster[j].asks
               m == IF playOn /\ roster[j].mode # "spectating" THEN "alive" ELSE Newcomer.mode
    <3>1. u \in Teams /\ a \in BOOLEAN /\ m \in {"spectating", "dead", "alive"}
      BY NewcomerIs DEF ScoringTypeOK, Member, Teams
    <3>2. roster'[j] = [Newcomer EXCEPT !.team = u, !.mode = m, !.asks = a]
      BY <2>1
    <3> HIDE DEF u, a, m
    <3>3. [Newcomer EXCEPT !.team = u, !.mode = m, !.asks = a] \in Member
      BY <3>1, NewcomerIs DEF Member
    <3> QED
      BY <3>2, <3>3
  <2> QED
    BY <2>1, <2>2 DEF Present
<1>2. times' \in Seq(Times)
  <2>1. CASE type' = "SR"
    <3>1. PICK s \in SetToSeqs(Present) : times' = [k \in DOMAIN s |-> NoLaps(s[k])]
      BY <2>1 DEF NextMatch
    <3>2. IsFiniteSet(Present)
      BY ScoreConstants, FS_Subset DEF ScoringTypeOK
    <3> DEFINE n == Cardinality(Present)
    <3>3. n \in Nat
      BY <3>2, FS_CardinalityType
    <3>4. s \in [1 .. n -> Present]
      BY DEF SetToSeqs
    <3> HIDE DEF n
    <3>5. \A k \in 1 .. n : NoLaps(s[k]) \in Times
      BY <3>4, NoLapsIs DEF ScoringTypeOK
    <3>6. times' = [k \in 1 .. n |-> NoLaps(s[k])]
      BY <3>1, <3>4
    <3> QED
      BY <3>3, <3>5, <3>6
  <2>2. CASE type' # "SR"
    BY <2>2, EmptyIs DEF NextMatch
  <2> QED
    BY <2>1, <2>2
<1>3. /\ total' = NoPoints /\ hill' = 0 /\ counter' = 0 /\ outbox' = outbox
      /\ type' \in Tournaments
  BY DEF NextMatch
<1>4. DOMAIN told' = Present
  BY DEF NextMatch
<1>5. 0 \in 0 .. HillCounterMax
  BY ScoreConstants
<1> QED
  BY <1>1, <1>2, <1>3, <1>4, <1>5, NoPointsIs DEF ScoringTypeOK

LEMMA ScoreTypedStep ==
    ASSUME ScoringTypeOK, [ScoringNext]_scoring
    PROVE  ScoringTypeOK'
<1>1. CASE UNCHANGED scoring
  BY <1>1 DEF scoring, ScoringTypeOK, Present
<1>2. CASE ScoringNext
  BY <1>2, SynchroniseTyped, LeavesTyped, WatchTyped, AsksTyped, DiesTyped, HillTyped, LapTyped,
     SendTyped, NextMatchTyped, Zenon DEF ScoringNext
<1> QED
  BY <1>1, <1>2

(* The server's score keeps its types, whoever comes, goes, dies, holds    *)
(* the hill or finishes a lap.                                             *)
THEOREM ScoreTypeCorrect == ScoringSpec => []ScoringTypeOK
<1>1. ScoringInit => ScoringTypeOK
  BY EmptyIs, NoPointsIs, ScoreConstants DEF ScoringInit, ScoringTypeOK, Present
<1>2. ScoringTypeOK /\ [ScoringNext]_scoring => ScoringTypeOK'
  BY ScoreTypedStep
<1> QED
  BY <1>1, <1>2, PTL DEF ScoringSpec

-----------------------------------------------------------------------------
(* The goat of the hill and the board of the race.  *)

Once(ts) == \A j, k \in 1 .. Len(ts) : ts[j].id = ts[k].id => j = k
Lists(ts, i) == \E k \in 1 .. Len(ts) : ts[k].id = i
InOrder(ts) == \A j, k \in 1 .. Len(ts) : Faster(ts[j], ts[k]) => j < k

(* The board lists everybody once, and the best laps come first: that is   *)
(* what makes the first entry's best lap the record.                       *)
Board ==
    /\ type # "SR" => times = << >>
    /\ type = "SR" => \A i : (i \in Present) <=> Lists(times, i)
    /\ Once(times) /\ InOrder(times)

ScoreSound == ScoringTypeOK /\ HillHolderPlays /\ Board

LEMMA RemovedBoard ==
    ASSUME times \in Seq(Times), NEW i, Once(times), InOrder(times)
    PROVE  /\ Once(TimesWithoutHim(i)) /\ InOrder(TimesWithoutHim(i))
           /\ \A j : Lists(TimesWithoutHim(i), j) <=> (Lists(times, j) /\ j # i)
<1> DEFINE r == TimesWithoutHim(i)
           len == Len(times)
<1>1. CASE r = times /\ \A k \in 1 .. Len(times) : times[k].id # i
  BY <1>1 DEF Lists
<1>2. ASSUME NEW n \in 1 .. len, times[n].id = i, r \in Seq(Times), Len(r) = len - 1,
             \A k \in 1 .. len - 1 : r[k] = IF k < n THEN times[k] ELSE times[k + 1]
      PROVE  Once(r) /\ InOrder(r) /\ \A j : Lists(r, j) <=> (Lists(times, j) /\ j # i)
  <2>1. len \in Nat
    BY LenProperties
  <2> HIDE DEF r, len
  <2>2. Once(r)
    BY SMTT(30), <1>2, <2>1 DEF Once, len
  <2>3. InOrder(r)
    <3> SUFFICES ASSUME NEW j \in 1 .. len - 1, NEW k \in 1 .. len - 1, Faster(r[j], r[k])
                 PROVE  j < k
      BY <1>2 DEF InOrder
    <3> DEFINE a == IF j < n THEN j ELSE j + 1
               b == IF k < n THEN k ELSE k + 1
    <3>1. a \in 1 .. len /\ b \in 1 .. len /\ r[j] = times[a] /\ r[k] = times[b]
      BY <1>2, <2>1
    <3>2. a < b
      <4> HIDE DEF a, b
      <4> QED
        BY <3>1 DEF InOrder, len
    <3> QED
      BY <2>1, <3>2
  <2>4. ASSUME NEW j PROVE Lists(r, j) <=> (Lists(times, j) /\ j # i)
    <3>1. ASSUME NEW k \in 1 .. len - 1, r[k].id = j
          PROVE  Lists(times, j) /\ j # i
      <4> DEFINE a == IF k < n THEN k ELSE k + 1
      <4>1. a \in 1 .. len /\ a # n /\ times[a].id = j
        BY <1>2, <2>1, <3>1
      <4> HIDE DEF a
      <4> QED
        BY <1>2, <4>1 DEF Once, Lists, len
    <3>2. ASSUME NEW k \in 1 .. len, times[k].id = j, j # i
          PROVE  Lists(r, j)
      <4> DEFINE a == IF k < n THEN k ELSE k - 1
      <4>1. k # n
        BY <1>2, <3>2
      <4>2. a \in 1 .. len - 1 /\ r[a] = times[k]
        BY <1>2, <2>1, <4>1
      <4> HIDE DEF a
      <4> QED
        BY <1>2, <3>2, <4>2 DEF Lists
    <3> QED
      BY <1>2, <3>1, <3>2 DEF Lists, len
  <2> QED
    BY <2>2, <2>3, <2>4
<1> QED
  BY <1>1, <1>2, WithoutHimIs

LEMMA AppendedBoard ==
    ASSUME NEW ts \in Seq(Times), NEW i \in PlayerIds, Once(ts), InOrder(ts), ~Lists(ts, i)
    PROVE  LET r == Append(ts, NoLaps(i))
           IN  /\ Once(r) /\ InOrder(r)
               /\ \A j : Lists(r, j) <=> (Lists(ts, j) \/ j = i)
<1> DEFINE r == Append(ts, NoLaps(i))
           len == Len(ts)
           e == NoLaps(i)
<1>1. /\ len \in Nat /\ Len(r) = len + 1
      /\ \A k \in 1 .. len : r[k] = ts[k]
      /\ r[len + 1] = e
  <2>1. e \in Times
    BY NoLapsIs
  <2>2. len \in Nat
    BY LenProperties
  <2> HIDE DEF e
  <2> QED
    BY <2>1, <2>2, AppendIs DEF e
<1>2. e.id = i /\ \A x : ~Faster(e, x)
  BY NoLapsIs DEF Faster
<1> HIDE DEF r, len, e
<1>3. \A k \in 1 .. len + 1 : k \in 1 .. len \/ k = len + 1
  BY <1>1
<1>4. Once(r)
  BY <1>1, <1>2, <1>3 DEF Once, Lists, len
<1>5. InOrder(r)
  BY <1>1, <1>2, <1>3 DEF InOrder, len
<1>6. \A j : Lists(r, j) <=> (Lists(ts, j) \/ j = i)
  <2>1. \A j : Lists(r, j) <=> \E k \in 1 .. len + 1 : r[k].id = j
    BY <1>1 DEF Lists
  <2>2. \A j : Lists(ts, j) <=> \E k \in 1 .. len : ts[k].id = j
    BY DEF Lists, len
  <2>3. len + 1 \in 1 .. len + 1 /\ \A k \in 1 .. len : k \in 1 .. len + 1
    BY <1>1
  <2> QED
    BY <1>1, <1>2, <1>3, <2>1, <2>2, <2>3
<1> QED
  BY <1>4, <1>5, <1>6 DEF r

(* Sorting the board with one more lap lists the same players.  *)
LEMMA SortedBoard ==
    ASSUME times \in Seq(Times), Once(times), NEW i, NEW t \in LapTimes,
           NEW s \in Sorted(WithLap(i, t))
    PROVE  Once(s) /\ InOrder(s) /\ \A j : Lists(s, j) <=> Lists(times, j)
<1> DEFINE w == WithLap(i, t)
<1>1. /\ w \in Seq(Times) /\ Len(w) = Len(times)
      /\ \A k \in 1 .. Len(times) : w[k].id = times[k].id
  BY WithLapIs
<1>2. /\ \A k \in 1 .. Len(s) : \E j \in 1 .. Len(w) : s[k] = w[j]
      /\ \A j \in 1 .. Len(w) : \E k \in 1 .. Len(s) : s[k] = w[j]
      /\ \A j, k \in 1 .. Len(s) : j # k => s[j] # s[k]
      /\ \A j, k \in 1 .. Len(s) : Faster(s[j], s[k]) => j < k
  BY <1>1, SortedAre
<1> HIDE DEF w
<1>3. Once(s)
  <2> SUFFICES ASSUME NEW j \in 1 .. Len(s), NEW k \in 1 .. Len(s), s[j].id = s[k].id
               PROVE  j = k
    BY DEF Once
  <2>1. PICK a \in 1 .. Len(w) : s[j] = w[a]
    BY <1>2
  <2>2. PICK b \in 1 .. Len(w) : s[k] = w[b]
    BY <1>2
  <2>3. a = b
    BY <1>1, <2>1, <2>2 DEF Once
  <2> QED
    <3>1. s[j] = s[k]
      BY <2>1, <2>2, <2>3, Zenon
    <3> QED
      BY <1>2, <3>1, Zenon
<1>4. InOrder(s)
  BY <1>2 DEF InOrder
<1>5. ASSUME NEW j PROVE Lists(s, j) <=> Lists(times, j)
  <2>1. ASSUME Lists(s, j) PROVE Lists(times, j)
    <3>1. PICK k \in 1 .. Len(s) : s[k].id = j
      BY <2>1 DEF Lists
    <3>2. PICK a \in 1 .. Len(w) : s[k] = w[a]
      BY <1>2
    <3> QED
      BY <1>1, <3>1, <3>2 DEF Lists
  <2>2. ASSUME Lists(times, j) PROVE Lists(s, j)
    <3>1. PICK k \in 1 .. Len(times) : times[k].id = j
      BY <2>2 DEF Lists
    <3>2. PICK a \in 1 .. Len(s) : s[a] = w[k]
      BY <1>1, <1>2
    <3> QED
      BY <1>1, <3>1, <3>2 DEF Lists
  <2> QED
    BY <2>1, <2>2
<1> QED
  BY <1>3, <1>4, <1>5

(* Whoever stops being alive or leaves is taken off the hill.  *)
LEMMA HillStep ==
    ASSUME ScoringTypeOK, HillHolderPlays, [ScoringNext]_scoring
    PROVE  HillHolderPlays'
<1>1. CASE UNCHANGED scoring
  BY <1>1 DEF scoring, HillHolderPlays, Present
<1>2. ASSUME NEW i \in PlayerIds, Synchronise(i) PROVE HillHolderPlays'
  BY <1>2 DEF Synchronise, HillHolderPlays, Present
<1>3. ASSUME NEW i \in Present, Leaves(i) PROVE HillHolderPlays'
  BY <1>3 DEF Leaves, HillHolderPlays, Present, OffHill
<1>4. ASSUME NEW i \in Present, GoesToWatch(i) PROVE HillHolderPlays'
  BY <1>4 DEF GoesToWatch, HillHolderPlays, Present, OffHill
<1>5. ASSUME NEW i \in Present, NEW t \in Teams, AsksToJoin(i, t) PROVE HillHolderPlays'
  <2>1. hill' = hill /\ Present' = Present
    BY <1>5 DEF AsksToJoin, Present
  <2>2. \A j \in Present : roster'[j].mode = roster[j].mode
    <3> DEFINE u == IF t = "red" THEN "red" ELSE roster[i].team
    <3>1. roster' = [roster EXCEPT ![i] = [roster[i] EXCEPT !.asks = TRUE, !.team = u]]
      BY <1>5 DEF AsksToJoin
    <3> HIDE DEF u
    <3>2. [roster[i] EXCEPT !.asks = TRUE, !.team = u].mode = roster[i].mode
      BY DEF ScoringTypeOK, Member
    <3> QED
      BY <3>1, <3>2 DEF Present
  <2> QED
    BY <2>1, <2>2 DEF HillHolderPlays
<1>6. ASSUME NEW i \in Present, NEW o \in {0} \cup PlayerIds, DiesBy(i, o)
      PROVE  HillHolderPlays'
  <2>1. hill' = OffHill(i) /\ Present' = Present
    BY <1>6 DEF DiesBy, Present
  <2>2. \A j \in Present \ {i} : roster'[j].mode = roster[j].mode
    BY <1>6 DEF DiesBy, ScoringTypeOK, Member
  <2> QED
    BY <2>1, <2>2 DEF HillHolderPlays, OffHill
<1>7. ASSUME NEW i \in Present, NEW t \in LapTimes, FinishesLap(i, t) PROVE HillHolderPlays'
  BY <1>7 DEF FinishesLap, HillHolderPlays, Present
<1>8. ASSUME NEW zone \in SUBSET {i \in Present : roster[i].mode = "alive"}, HillPass(zone)
      PROVE  HillHolderPlays'
  <2>1. CASE HillIsFree
    BY <2>1 DEF HillIsFree, HillHolderPlays
  <2>2. ASSUME NEW i \in Goat(zone), HillIsTaken(i), zone # {} PROVE HillHolderPlays'
    BY <2>2 DEF HillIsTaken, HillHolderPlays, Present, Goat
  <2>3. ASSUME NEW i \in Goat(zone), HillIsHeld(i) PROVE HillHolderPlays'
    BY <2>3 DEF HillIsHeld, HillHolderPlays, Present
  <2>4. ASSUME NEW i \in Goat(zone), HillScores(i) PROVE HillHolderPlays'
    BY <2>4 DEF HillScores, HillHolderPlays
  <2> QED
    BY <1>8, <2>1, <2>2, <2>3, <2>4 DEF HillPass
<1>9. CASE SendAll
  <2>1. hill' = hill /\ Present' = Present
    BY <1>9 DEF SendAll, Present
  <2>2. \A j \in Present : roster[j].mode = "alive" => roster'[j].mode = "alive"
    BY <1>9 DEF SendAll, ScoringTypeOK, Member, LetIn
  <2> QED
    BY <2>1, <2>2 DEF HillHolderPlays
<1>10. CASE NextMatch
  BY <1>10 DEF NextMatch, HillHolderPlays
<1> QED
  BY <1>1, <1>2, <1>3, <1>4, <1>5, <1>6, <1>7, <1>8, <1>9, <1>10, Zenon DEF ScoringNext

LEMMA BoardStep ==
    ASSUME ScoringTypeOK, Board, [ScoringNext]_scoring
    PROVE  Board'
<1> USE DEF ScoringTypeOK
<1>1. CASE UNCHANGED <<type, times>> /\ Present' = Present
  BY <1>1 DEF Board
<1>2. ASSUME NEW i \in PlayerIds, Synchronise(i) PROVE Board'
  <2>1. type' = type /\ times' = Listed(times, i) /\ i \notin Present
    BY <1>2 DEF Synchronise
  <2>2. \A j : (j \in Present') <=> (j \in Present \/ j = i)
    BY <1>2 DEF Synchronise, Present
  <2>3. CASE type = "SR"
    <3>1. ~Lists(times, i) /\ times' = Append(times, NoLaps(i))
      BY <2>1, <2>3 DEF Board, Listed
    <3>2. Once(times') /\ InOrder(times') /\ \A j : Lists(times', j) <=> (Lists(times, j) \/ j = i)
      BY <3>1, AppendedBoard DEF Board
    <3> QED
      BY <2>1, <2>2, <2>3, <3>2 DEF Board
  <2>4. CASE type # "SR"
    BY <2>1, <2>4 DEF Board, Listed
  <2> QED
    BY <2>3, <2>4
<1>3. ASSUME NEW i \in Present, Leaves(i) PROVE Board'
  <2>1. type' = type /\ times' = TimesWithoutHim(i)
    BY <1>3 DEF Leaves
  <2>2. \A j : (j \in Present') <=> (j \in Present /\ j # i)
    BY <1>3 DEF Leaves, Present
  <2>3. /\ Once(times') /\ InOrder(times')
        /\ \A j : Lists(times', j) <=> (Lists(times, j) /\ j # i)
    BY <2>1, RemovedBoard DEF Board
  <2>4. times = << >> => times' = << >>
    BY <2>1, EmptyIs, WithoutHimIs
  <2> QED
    BY <2>1, <2>2, <2>3, <2>4 DEF Board
<1>4. ASSUME NEW i \in Present, GoesToWatch(i) PROVE Board'
  <2> DEFINE r == TimesWithoutHim(i)
  <2>1. type' = type /\ times' = Listed(r, i) /\ Present' = Present
    BY <1>4 DEF GoesToWatch, Present
  <2>2. /\ Once(r) /\ InOrder(r) /\ r \in Seq(Times)
        /\ \A j : Lists(r, j) <=> (Lists(times, j) /\ j # i)
    BY RemovedBoard, WithoutHimTyped DEF Board
  <2>3. CASE type = "SR"
    <3>1. /\ Once(times') /\ InOrder(times')
          /\ \A j : Lists(times', j) <=> (Lists(r, j) \/ j = i)
      <4>1. times' = Append(r, NoLaps(i)) /\ ~Lists(r, i) /\ i \in PlayerIds
        BY <2>1, <2>2, <2>3 DEF Listed
      <4> HIDE DEF r
      <4> QED
        BY <2>2, <4>1, AppendedBoard
    <3> QED
      BY <2>1, <2>2, <2>3, <3>1 DEF Board
  <2>4. CASE type # "SR"
    <3>1. times' = times
      BY <2>1, <2>4, EmptyIs, WithoutHimIs DEF Board, Listed
    <3> QED
      BY <2>1, <3>1, <2>4 DEF Board
  <2> QED
    BY <2>3, <2>4
<1>5. ASSUME NEW i \in Present, NEW t \in Teams, AsksToJoin(i, t) PROVE Board'
  BY <1>1, <1>5 DEF AsksToJoin, Present
<1>6. ASSUME NEW i \in Present, NEW o \in {0} \cup PlayerIds, DiesBy(i, o) PROVE Board'
  BY <1>1, <1>6 DEF DiesBy, Present
<1>7. ASSUME NEW i \in Present, NEW t \in LapTimes, FinishesLap(i, t) PROVE Board'
  <2>1. times' \in Sorted(WithLap(i, t)) /\ type' = type /\ type = "SR" /\ Present' = Present
    BY <1>7 DEF FinishesLap, WithLap, Present
  <2>2. Once(times') /\ InOrder(times') /\ \A j : Lists(times', j) <=> Lists(times, j)
    BY <2>1, SortedBoard DEF Board
  <2> QED
    BY <2>1, <2>2 DEF Board
<1>8. ASSUME NEW zone \in SUBSET {i \in Present : roster[i].mode = "alive"}, HillPass(zone)
      PROVE  Board'
  <2>1. Present' = Present
    BY <1>8 DEF HillPass, HillIsFree, HillIsTaken, HillIsHeld, HillScores, Present
  <2> QED
    BY <1>1, <1>8, <2>1 DEF HillPass
<1>9. CASE SendAll
  BY <1>1, <1>9 DEF SendAll, Present
<1>10. CASE NextMatch
  <2>1. Present' = Present
    BY <1>10 DEF NextMatch, Present
  <2>2. CASE type' = "SR"
    <3>1. PICK s \in SetToSeqs(Present) : times' = [k \in DOMAIN s |-> NoLaps(s[k])]
      BY <1>10, <2>2 DEF NextMatch
    <3> DEFINE n == Cardinality(Present)
    <3>2. n \in Nat /\ IsFiniteSet(Present)
      BY ScoreConstants, FS_Subset, FS_CardinalityType
    <3>3. s \in [1 .. n -> Present] /\ \A j, k \in 1 .. n : j # k => s[j] # s[k]
      BY DEF SetToSeqs
    <3> HIDE DEF n
    <3>4. \A j \in Present : \E k \in 1 .. n : s[k] = j
      <4>1. s \in Injection(1 .. n, Present)
        BY <3>3 DEF Injection, IsInjective
      <4>2. Cardinality(1 .. n) = n
        BY <3>2, FS_Interval
      <4>3. s \in Surjection(1 .. n, Present)
        BY <3>2, <4>1, <4>2, FS_Injection DEF n
      <4> QED
        BY <4>3 DEF Surjection
    <3>5. \A k \in 1 .. n : s[k] \in PlayerIds /\ s[k] \in Present
      BY <3>3
    <3>6. \A k \in 1 .. n : NoLaps(s[k]).id = s[k] /\ NoLaps(s[k]).laps = << >>
      BY <3>5, NoLapsIs
    <3>7. times' = [k \in 1 .. n |-> NoLaps(s[k])]
      BY <3>1, <3>3
    <3>8. /\ Len(times') = n
          /\ \A k \in 1 .. n : times'[k].id = s[k] /\ times'[k].laps = << >>
      BY <3>2, <3>6, <3>7
    <3>9. Once(times')
      BY SMTT(30), <3>3, <3>8 DEF Once
    <3>10. InOrder(times')
      BY SMTT(30), <3>8 DEF InOrder, Faster
    <3>11. \A j : (j \in Present) <=> Lists(times', j)
      <4>1. \A j : Lists(times', j) <=> \E k \in 1 .. n : s[k] = j
        BY <3>8 DEF Lists
      <4> QED
        BY <3>4, <3>5, <4>1, Zenon
    <3> QED
      BY <2>1, <2>2, <3>9, <3>10, <3>11 DEF Board
  <2>3. CASE type' # "SR"
    <3>1. times' = << >>
      BY <1>10, <2>3 DEF NextMatch
    <3>2. Once(<< >>) /\ InOrder(<< >>)
      BY EmptyIs DEF Once, InOrder
    <3> QED
      BY <2>3, <3>1, <3>2 DEF Board
  <2> QED
    BY <2>2, <2>3
<1>11. CASE UNCHANGED scoring
  BY <1>1, <1>11 DEF scoring, Present
<1> QED
  BY <1>2, <1>3, <1>4, <1>5, <1>6, <1>7, <1>8, <1>9, <1>10, <1>11, Zenon DEF ScoringNext

(* The board lists everybody who is on the server, once and in the order of*)
(* the best laps, and the goat is a living player: TournamentSR and        *)
(* TournamentGOH add and remove whoever comes, goes or watches.            *)
THEOREM ScoreSoundCorrect == ScoringSpec => []ScoreSound
<1>1. ScoringInit => ScoreSound
  BY EmptyIs, NoPointsIs, ScoreConstants
  DEF ScoringInit, ScoreSound, ScoringTypeOK, Present, HillHolderPlays, Board, Once, InOrder, Lists
<1>2. ScoreSound /\ [ScoringNext]_scoring => ScoreSound'
  BY ScoreTypedStep, HillStep, BoardStep DEF ScoreSound
<1> QED
  BY <1>1, <1>2, PTL DEF ScoringSpec

(* Nobody shows or scores as the goat who is not a living player of the    *)
(* match, for any number of players.                                       *)
THEOREM HillCorrect == ScoringSpec => []HillHolderPlays
<1>1. ScoreSound => HillHolderPlays
  BY DEF ScoreSound
<1> QED
  BY <1>1, ScoreSoundCorrect, PTL

(* The board of the race lists every synchronised player once.             *)
THEOREM BoardListsCorrect == ScoringSpec => []ListedOnce
<1>1. ScoreSound => ListedOnce
  <2> SUFFICES ASSUME ScoreSound, type = "SR" PROVE ListedOnce
    BY DEF ListedOnce
  <2>1. times \in Seq(Times) /\ Present \subseteq PlayerIds
    BY DEF ScoreSound, ScoringTypeOK
  <2>2. Once(times) /\ \A i : (i \in Present) <=> Lists(times, i)
    BY DEF ScoreSound, Board
  <2> DEFINE n == Len(times)
             f == [k \in 1 .. n |-> times[k].id]
  <2>3. DOMAIN times = 1 .. n /\ n \in Nat
    BY <2>1
  <2>4. \A k \in 1 .. n : times[k].id \in Present
    BY <2>2 DEF Lists
  <2>5. \A i \in Present : \E k \in 1 .. n : times[k].id = i
    BY <2>2 DEF Lists
  <2>6. {times[k].id : k \in DOMAIN times} = Present
    BY <2>3, <2>4, <2>5
  <2>7. \A j, k \in 1 .. n : times[j].id = times[k].id => j = k
    BY <2>2 DEF Once
  <2> HIDE DEF n
  <2>8. f \in [1 .. n -> Present]
    BY <2>4
  <2>9. f \in Surjection(1 .. n, Present) /\ f \in Injection(1 .. n, Present)
    BY <2>5, <2>7, <2>8 DEF Surjection, Injection, IsInjective
  <2>10. IsFiniteSet(1 .. n) /\ Cardinality(1 .. n) = n
    BY <2>3, FS_Interval
  <2> HIDE DEF f
  <2>11. Cardinality(Present) = n
    BY <2>9, <2>10, FS_Surjection
  <2> QED
    BY <2>6, <2>11 DEF ListedOnce, n
<1> QED
  BY <1>1, ScoreSoundCorrect, PTL

-----------------------------------------------------------------------------
(* What is earned.  *)

LEMMA BestIs ==
    ASSUME NEW laps \in Seq(LapTimes), laps # << >>
    PROVE  Best(laps) \in Range(laps) /\ \A u \in Range(laps) : Best(laps) <= u
<1>1. Len(laps) \in Nat /\ Len(laps) > 0 /\ DOMAIN laps = 1 .. Len(laps)
  BY EmptySeq, LenProperties
<1>2. Range(laps) \in SUBSET Nat /\ Range(laps) # {}
  <2>1. \A k \in 1 .. Len(laps) : laps[k] \in Nat
    BY ScoreConstants, ElementOfSeq
  <2> QED
    BY <1>1, <2>1 DEF Range
<1>3. \E b \in Range(laps) : \A u \in Range(laps) : b <= u
  BY <1>2, LeastExists
<1> QED
  BY <1>3 DEF Best

LEMMA FirstIsBest ==
    ASSUME times \in Seq(Times), InOrder(times), Len(times) > 0, NEW t \in Nat
    PROVE  (times[1].laps = << >> \/ t < Best(times[1].laps)) <=>
               \A k \in DOMAIN times : \A u \in Range(times[k].laps) : t < u
<1>1. DOMAIN times = 1 .. Len(times) /\ Len(times) \in Nat /\ 1 \in 1 .. Len(times)
  OBVIOUS
<1>2. \A k \in 1 .. Len(times) : times[k].laps \in Seq(LapTimes)
  <2>1. \A k \in 1 .. Len(times) : times[k] \in Times
    BY <1>1, ElementOfSeq
  <2> QED
    BY <2>1 DEF Times
<1>3. \A k \in 1 .. Len(times) : times[k].laps # << >> =>
        /\ Best(times[k].laps) \in Range(times[k].laps) /\ Best(times[k].laps) \in Nat
        /\ \A u \in Range(times[k].laps) : u \in Nat /\ Best(times[k].laps) <= u
  <2> SUFFICES ASSUME NEW k \in 1 .. Len(times), times[k].laps # << >>
               PROVE  /\ Best(times[k].laps) \in Range(times[k].laps)
                      /\ \A u \in Range(times[k].laps) : u \in Nat /\ Best(times[k].laps) <= u
    OBVIOUS
  <2> DEFINE l == times[k].laps
  <2>1. l \in Seq(LapTimes)
    BY <1>2
  <2> HIDE DEF l
  <2>2. \A u \in Range(l) : u \in Nat
    <3>1. DOMAIN l = 1 .. Len(l) /\ \A k2 \in 1 .. Len(l) : l[k2] \in LapTimes
      BY <2>1, ElementOfSeq
    <3> QED
      BY <3>1, ScoreConstants DEF Range
  <2>3. l # << >> => Best(l) \in Range(l) /\ \A u \in Range(l) : Best(l) <= u
    BY <2>1, BestIs
  <2> QED
    BY <2>2, <2>3 DEF l
<1>4. \A k \in 1 .. Len(times) : times[k].laps = << >> => Range(times[k].laps) = {}
  BY EmptyIs DEF Range
<1>5. \A k \in 1 .. Len(times) : ~Faster(times[k], times[1])
  BY <1>1 DEF InOrder
<1>6. CASE times[1].laps = << >>
  <2>1. \A k \in 1 .. Len(times) : times[k].laps = << >>
    BY <1>5, <1>6 DEF Faster
  <2> QED
    BY <1>1, <1>4, <1>6, <2>1
<1>7. CASE times[1].laps # << >>
  <2>1. \A k \in 1 .. Len(times) : times[k].laps # << >> =>
          Best(times[1].laps) <= Best(times[k].laps)
    BY <1>1, <1>3, <1>5, <1>7 DEF Faster
  <2>2. ASSUME t < Best(times[1].laps), NEW k \in 1 .. Len(times), NEW u \in Range(times[k].laps)
        PROVE  t < u
    <3>1. times[k].laps # << >>
      BY <1>4
    <3> DEFINE b == Best(times[1].laps)
               c == Best(times[k].laps)
    <3>2. b \in Nat /\ c \in Nat /\ u \in Nat
      BY <1>1, <1>3, <1>7, <2>2, <3>1
    <3>3. b <= c /\ c <= u /\ t < b
      BY <1>3, <2>1, <2>2, <3>1
    <3> HIDE DEF b, c
    <3> QED
      BY <3>2, <3>3
  <2>3. ASSUME \A k \in 1 .. Len(times) : \A u \in Range(times[k].laps) : t < u
        PROVE  t < Best(times[1].laps)
    BY <1>1, <1>3, <1>7, <2>3
  <2> QED
    BY <1>1, <1>7, <2>2, <2>3
<1> QED
  BY <1>6, <1>7

(* A step that adds nothing about laps announces no record.  *)
LEMMA NoRecord ==
    ASSUME outbox \in Seq(Message), NEW s \in Seq(Message),
           \A k \in 1 .. Len(s) : s[k].cmd \in {"hill", "team"}, outbox' = outbox \o s
    PROVE  RecordIsBest
<1>1. /\ Len(outbox') = Len(outbox) + Len(s)
      /\ \A k \in 1 .. Len(s) : outbox'[Len(outbox) + k] = s[k]
  BY ConcatIs
<1>2. Len(s) \in Nat /\ Len(outbox) \in Nat
  BY LenProperties
<1>3. Len(outbox') > Len(outbox) => outbox'[Len(outbox')].cmd \in {"hill", "team"}
  <2> SUFFICES ASSUME Len(outbox') > Len(outbox)
               PROVE  outbox'[Len(outbox')].cmd \in {"hill", "team"}
    OBVIOUS
  <2>1. Len(s) \in 1 .. Len(s)
    BY <1>1, <1>2
  <2>2. outbox'[Len(outbox')] = s[Len(s)]
    BY <1>1, <2>1
  <2> QED
    BY <2>1, <2>2
<1> QED
  BY <1>3 DEF RecordIsBest

LEMMA NewsAre ==
    ASSUME NEW a \in Seq(Message), NEW b \in Seq(Message),
           \A k \in 1 .. Len(a) : a[k].cmd \in {"hill", "team"},
           \A k \in 1 .. Len(b) : b[k].cmd \in {"hill", "team"}
    PROVE  /\ a \o b \in Seq(Message)
           /\ \A k \in 1 .. Len(a \o b) : (a \o b)[k].cmd \in {"hill", "team"}
<1>1. /\ a \o b \in Seq(Message) /\ Len(a \o b) = Len(a) + Len(b)
      /\ \A k \in 1 .. Len(a) + Len(b) :
           (a \o b)[k] = IF k <= Len(a) THEN a[k] ELSE b[k - Len(a)]
  BY ConcatProperties, ConcatIs
<1>2. Len(a) \in Nat /\ Len(b) \in Nat
  BY LenProperties
<1> QED
  BY <1>1, <1>2

LEMMA NoNews ==
    ASSUME Len(outbox) \in Nat, outbox' = outbox \/ outbox' = << >>
    PROVE  RecordIsBest
<1>1. ~(Len(outbox') > Len(outbox))
  BY EmptyIs
<1> QED
  BY <1>1 DEF RecordIsBest

LEMMA NoPoint ==
    ASSUME total \in [Teams -> Nat], total' = total \/ total' = NoPoints
    PROVE  PointsForOpponents
<1>1. \A t \in Teams : ~(total'[t] > total[t])
  BY DEF NoPoints
<1> QED
  BY <1>1 DEF PointsForOpponents

(* What each action does to the points and to the last message.  *)
LEMMA DiesEarns ==
    ASSUME ScoringTypeOK, NEW i \in Present, NEW o \in {0} \cup PlayerIds, DiesBy(i, o)
    PROVE  PointsForOpponents /\ RecordIsBest
<1> DEFINE scores == type = "TDM" /\ o \in Present \ {i} /\ ~Friendly(o, i)
           now == IF scores THEN [total EXCEPT ![roster[o].team] = @ + 1] ELSE total
           news == OffHillNotes(i) \o (IF scores THEN << TeamScore(now) >> ELSE << >>)
<1>1. now \in [Teams -> Nat] /\ total' = now /\ total \in [Teams -> Nat]
  <2>1. o \in Present => roster[o].team \in Teams
    BY DEF ScoringTypeOK, Member
  <2>2. total \in [Teams -> Nat]
    BY DEF ScoringTypeOK
  <2>3. now \in [Teams -> Nat]
    BY <2>1, <2>2, OnePoint
  <2> QED
    BY <2>2, <2>3 DEF DiesBy
<1>2. PointsForOpponents
  <2>1. CASE ~scores
    BY <1>1, <2>1, NoPoint
  <2>2. CASE scores
    <3>1. roster[i] \in Member /\ roster[o] \in Member
      BY <2>2 DEF ScoringTypeOK
    <3>2. roster'[i].mode = "dead" /\ i \in DOMAIN roster'
      <4>1. DOMAIN roster' = Present
        BY DEF DiesBy
      <4>2. roster'[i] = Dead(roster[i]) \/ roster'[i] = [Dead(roster[i]) EXCEPT !.score = @ - 1]
        BY DEF DiesBy
      <4> QED
        BY <3>1, <4>1, <4>2, MembersAre
    <3>3. roster[i].team # roster[o].team /\ roster[i].mode = "alive" /\ type = "TDM"
      BY <2>2 DEF Friendly, IsTeamGame, DiesBy
    <3>4. \A t \in Teams : total'[t] > total[t] => t = roster[o].team
      <4>1. roster[o].team \in Teams
        BY <3>1 DEF Member
      <4>2. total' = [total EXCEPT ![roster[o].team] = @ + 1]
        BY <1>1, <2>2
      <4>3. \A t \in Teams : t # roster[o].team => total'[t] = total[t] /\ total[t] \in Nat
        BY <1>1, <4>1, <4>2, OnePoint
      <4> QED
        BY <4>3
    <3> QED
      BY <3>2, <3>3, <3>4 DEF PointsForOpponents
  <2> QED
    BY <2>1, <2>2
<1>3. RecordIsBest
  <2> DEFINE more == IF scores THEN << TeamScore(now) >> ELSE << >>
  <2>1. TeamScore(now) \in Message /\ TeamScore(now).cmd = "team"
    BY <1>1, TeamScoreIs
  <2>2. more \in Seq(Message) /\ \A k \in 1 .. Len(more) : more[k].cmd \in {"hill", "team"}
    <3> HIDE DEF scores, now
    <3>1. CASE scores
      BY <2>1, <3>1
    <3>2. CASE ~scores
      BY <3>2, EmptyIs
    <3> QED
      BY <3>1, <3>2
  <2>3. outbox' = (outbox \o OffHillNotes(i)) \o more
    BY DEF DiesBy
  <2>4. outbox \in Seq(Message) /\ OffHillNotes(i) \in Seq(Message)
        /\ \A k \in 1 .. Len(OffHillNotes(i)) : OffHillNotes(i)[k].cmd \in {"hill", "team"}
    BY OffHillNotesAre DEF ScoringTypeOK
  <2> HIDE DEF more, scores, now
  <2>5. outbox' = outbox \o (OffHillNotes(i) \o more)
    BY <2>2, <2>3, <2>4, ConcatAssociative
  <2>6. /\ OffHillNotes(i) \o more \in Seq(Message)
        /\ \A k \in 1 .. Len(OffHillNotes(i) \o more) :
             (OffHillNotes(i) \o more)[k].cmd \in {"hill", "team"}
    BY <2>2, <2>4, NewsAre
  <2> QED
    BY <2>4, <2>5, <2>6, NoRecord
<1> QED
  BY <1>2, <1>3

LEMMA HillEarns ==
    ASSUME ScoringTypeOK, NEW zone \in SUBSET {i \in Present : roster[i].mode = "alive"},
           HillPass(zone)
    PROVE  PointsForOpponents /\ RecordIsBest
<1>1. \A i \in {0} \cup PlayerIds, v \in Nat :
         /\ << Note("hill", i, v) >> \in Seq(Message) /\ Len(<< Note("hill", i, v) >>) = 1
         /\ << Note("hill", i, v) >>[1].cmd = "hill"
  BY NoteIs
<1>2. outbox \in Seq(Message) /\ total \in [Teams -> Nat] /\ hill \in {0} \cup PlayerIds
  BY DEF ScoringTypeOK
<1>3. ASSUME NEW i \in {0} \cup PlayerIds, NEW v \in Nat,
             outbox' = outbox \o << Note("hill", i, v) >>
      PROVE  RecordIsBest
  <2> DEFINE w == << Note("hill", i, v) >>
  <2>1. w \in Seq(Message) /\ Len(w) = 1 /\ w[1].cmd = "hill" /\ outbox' = outbox \o w
    BY <1>1, <1>3
  <2> HIDE DEF w
  <2>2. \A k \in 1 .. Len(w) : w[k].cmd \in {"hill", "team"}
    BY <2>1
  <2> QED
    BY <1>2, <2>1, <2>2, NoRecord
<1>4. CASE HillIsFree
  BY <1>2, <1>3, <1>4, NoPoint DEF HillIsFree
<1>5. ASSUME NEW i \in Goat(zone), zone # {}, HillIsTaken(i)
      PROVE  PointsForOpponents /\ RecordIsBest
  <2>1. i \in {0} \cup PlayerIds
    BY <1>5 DEF Goat, ScoringTypeOK
  <2> QED
    BY <1>2, <1>3, <1>5, <2>1, NoPoint, ScoreConstants DEF HillIsTaken
<1>6. ASSUME NEW i \in Goat(zone), zone # {}, HillIsHeld(i)
      PROVE  PointsForOpponents /\ RecordIsBest
  <2>1. i \in {0} \cup PlayerIds /\ counter - 1 \in Nat
    BY <1>6 DEF Goat, ScoringTypeOK, HillIsHeld
  <2>2. outbox' = outbox \o << Note("hill", i, counter - 1) >> \/ outbox' = outbox
    BY <1>6 DEF HillIsHeld
  <2>3. RecordIsBest
    BY <1>2, <1>3, <2>1, <2>2, NoNews, LenProperties
  <2> QED
    BY <1>2, <1>6, <2>3, NoPoint DEF HillIsHeld
<1>7. ASSUME NEW i \in Goat(zone), zone # {}, HillScores(i)
      PROVE  PointsForOpponents /\ RecordIsBest
  <2>1. i \in Present /\ i \in PlayerIds /\ roster[i].mode = "alive" /\ i = hill /\ i # 0
    BY <1>7, ScoreConstants DEF Goat, ScoringTypeOK, HillScores
  <2>2. roster[i] \in Member /\ roster[i].team \in Teams
    BY <2>1 DEF ScoringTypeOK, Member
  <2>3. total' = [total EXCEPT ![roster[i].team] = @ + 1] /\ total' \in [Teams -> Nat]
    BY <1>2, <1>7, <2>2, OnePoint DEF HillScores
  <2>4. roster'[i].mode = "dead"
    BY <1>7, <2>1, <2>2 DEF HillScores, Member
  <2>5. type = "GOH"
    BY DEF HillPass
  <2>6. PointsForOpponents
    <3>1. \A t \in Teams : t # roster[i].team => total'[t] = total[t] /\ total[t] \in Nat
      BY <1>2, <2>2, <2>3, OnePoint
    <3> QED
      BY <2>1, <2>4, <2>5, <3>1 DEF PointsForOpponents
  <2>7. RecordIsBest
    <3> DEFINE a == Note("hill", i, 0)
               b == TeamScore(total')
    <3>1. a \in Message /\ a.cmd = "hill" /\ b \in Message /\ b.cmd = "team"
      <4>1. i \in {0} \cup PlayerIds
        BY <2>1
      <4>2. Note("hill", i, 0) \in Message /\ Note("hill", i, 0).cmd = "hill"
        <5>1. "hill" \in {"team", "hill", "lap", "record"} /\ 0 \in Nat
          OBVIOUS
        <5> QED
          BY <4>1, <5>1, NoteIs
      <4>3. TeamScore(total') \in Message /\ TeamScore(total').cmd = "team"
        BY <2>3, TeamScoreIs, Zenon
      <4> QED
        BY <4>2, <4>3
    <3>2. outbox' = outbox \o << a, b >>
      BY <1>7 DEF HillScores
    <3> HIDE DEF a, b
    <3>3. << a, b >> \in Seq(Message)
          /\ \A k \in 1 .. Len(<< a, b >>) : << a, b >>[k].cmd \in {"hill", "team"}
      BY <3>1
    <3> QED
      BY <1>2, <3>2, <3>3, NoRecord
  <2> QED
    BY <2>6, <2>7
<1> QED
  BY <1>4, <1>5, <1>6, <1>7 DEF HillPass

LEMMA LapEarns ==
    ASSUME ScoreSound, NEW i \in Present, NEW t \in LapTimes, FinishesLap(i, t)
    PROVE  PointsForOpponents /\ RecordIsBest
<1>1. times \in Seq(Times) /\ InOrder(times) /\ outbox \in Seq(Message)
      /\ i \in {0} \cup PlayerIds /\ t \in Nat /\ total \in [Teams -> Nat]
  BY ScoreConstants DEF ScoreSound, ScoringTypeOK, Board
<1>2. Len(times) > 0
  <2>1. Lists(times, i)
    BY DEF ScoreSound, Board, FinishesLap
  <2>2. Len(times) \in Nat
    BY <1>1, LenProperties
  <2> QED
    BY <2>1, <2>2 DEF Lists
<1> DEFINE c == IF times[1].laps = << >> \/ t < Best(times[1].laps) THEN "record" ELSE "lap"
           m == Note(c, i, t)
<1>3. m \in Message /\ m.cmd = c /\ m.value = t
  <2>1. c \in {"team", "hill", "lap", "record"}
    OBVIOUS
  <2> HIDE DEF c
  <2>2. Note(c, i, t) \in Message /\ Note(c, i, t).cmd = c /\ Note(c, i, t).value = t
    BY <1>1, <2>1, NoteIs
  <2> QED
    BY <2>2
<1>4. outbox' = Append(outbox, m)
  BY DEF FinishesLap
<1>5. (c = "record") <=> \A k \in DOMAIN times : \A u \in Range(times[k].laps) : t < u
  BY <1>1, <1>2, FirstIsBest
<1> HIDE DEF c, m
<1>6. outbox'[Len(outbox')] = m
  BY <1>1, <1>3, <1>4, AppendIs
<1>7. RecordIsBest
  BY <1>3, <1>5, <1>6 DEF RecordIsBest
<1>8. PointsForOpponents
  BY <1>1, NoPoint DEF FinishesLap
<1> QED
  BY <1>7, <1>8

LEMMA OffHillEarns ==
    ASSUME ScoringTypeOK, NEW i \in Present, outbox' = outbox \o OffHillNotes(i)
    PROVE  RecordIsBest
<1>1. i \in PlayerIds /\ outbox \in Seq(Message)
  BY DEF ScoringTypeOK
<1> QED
  BY <1>1, OffHillNotesAre, NoRecord

(* A team's points come from an opponent's death or from a living holder   *)
(* of the hill, and a lap is announced as the record exactly when it beats *)
(* every lap on the board: because the board is kept in order.             *)
THEOREM EarnedCorrect == ScoringSpec => ScoresEarned
<1>1. ASSUME ScoreSound, [ScoringNext]_scoring
      PROVE  [PointsForOpponents /\ RecordIsBest]_scoring
  <2>1. ScoringTypeOK /\ total \in [Teams -> Nat] /\ Len(outbox) \in Nat
    BY <1>1, LenProperties DEF ScoreSound, ScoringTypeOK
  <2>2. ASSUME NEW i \in PlayerIds, Synchronise(i) PROVE PointsForOpponents /\ RecordIsBest
    BY <2>1, <2>2, NoPoint, NoNews DEF Synchronise
  <2>3. ASSUME NEW i \in Present, Leaves(i) \/ GoesToWatch(i)
        PROVE  PointsForOpponents /\ RecordIsBest
    BY <2>1, <2>3, NoPoint, OffHillEarns DEF Leaves, GoesToWatch
  <2>4. ASSUME NEW i \in Present, NEW t \in Teams, AsksToJoin(i, t)
        PROVE  PointsForOpponents /\ RecordIsBest
    BY <2>1, <2>4, NoPoint, NoNews DEF AsksToJoin
  <2>5. CASE SendAll
    BY <2>1, <2>5, NoPoint, NoNews DEF SendAll
  <2>6. CASE NextMatch
    BY <2>1, <2>6, NoPoint, NoNews DEF NextMatch
  <2> QED
    BY <1>1, <2>1, <2>2, <2>3, <2>4, <2>5, <2>6, DiesEarns, HillEarns, LapEarns, Zenon
    DEF ScoringNext
<1> QED
  BY <1>1, ScoreSoundCorrect, PTL DEF ScoringSpec, ScoresEarned

-----------------------------------------------------------------------------
(* What is heard one message after the other.  *)

(* The values that come about along a sequence: they exist, and two runs   *)
(* from the same beginning are the same.                                   *)
Along(g, v, f, ms, n) ==
    g[0] = v /\ \A k \in 1 .. n : g[k] = f[<< g[k - 1], ms[k] >>]

LEMMA AlongExists ==
    ASSUME NEW V, NEW M, NEW f \in [V \X M -> V], NEW v \in V, NEW ms \in Seq(M)
    PROVE  \E g \in [0 .. Len(ms) -> V] : Along(g, v, f, ms, Len(ms))
<1> DEFINE bad == {n \in 0 .. Len(ms) : ~ \E g \in [0 .. n -> V] : Along(g, v, f, ms, n)}
<1>1. Len(ms) \in Nat /\ \A k \in 1 .. Len(ms) : ms[k] \in M
  BY LenProperties, ElementOfSeq
<1>2. CASE bad = {}
  BY <1>1, <1>2
<1>3. CASE bad # {}
  <2>1. PICK n \in bad : \A m \in bad : n <= m
    <3>1. bad \in SUBSET Nat
      BY <1>1
    <3> QED
      BY <1>3, <3>1, LeastExists
  <2>2. n \in 0 .. Len(ms) /\ n \in Nat
    BY <1>1, <2>1
  <2>3. CASE n = 0
    <3> DEFINE g == [k \in 0 .. 0 |-> v]
    <3>1. g \in [0 .. 0 -> V] /\ Along(g, v, f, ms, 0)
      BY DEF Along
    <3> QED
      BY <2>1, <2>3, <3>1
  <2>4. CASE n # 0
    <3>1. n - 1 \in 0 .. Len(ms) /\ n - 1 \notin bad
      BY <1>1, <2>1, <2>2, <2>4
    <3>2. PICK g \in [0 .. n - 1 -> V] : Along(g, v, f, ms, n - 1)
      BY <3>1
    <3> DEFINE e == f[<< g[n - 1], ms[n] >>]
               h == [k \in 0 .. n |-> IF k = n THEN e ELSE g[k]]
    <3>3. e \in V
      <4>1. g[n - 1] \in V /\ ms[n] \in M
        BY <1>1, <2>2, <2>4
      <4> QED
        BY <4>1
    <3>4. h \in [0 .. n -> V]
      <4> HIDE DEF e
      <4> QED
        BY <2>2, <2>4, <3>3
    <3>5. Along(h, v, f, ms, n)
      <4>1. h[0] = v
        BY <2>2, <2>4, <3>2 DEF Along
      <4>2. \A k \in 1 .. n - 1 : h[k] = g[k] /\ h[k - 1] = g[k - 1]
        BY <2>2, <2>4
      <4>3. h[n] = e /\ h[n - 1] = g[n - 1]
        BY <2>2, <2>4
      <4>4. \A k \in 1 .. n : k = n \/ k \in 1 .. n - 1
        BY <2>2
      <4> HIDE DEF h
      <4> QED
        BY <3>2, <4>1, <4>2, <4>3, <4>4 DEF Along, e
    <3> QED
      BY <2>1, <3>4, <3>5
  <2> QED
    BY <2>3, <2>4
<1> QED
  BY <1>2, <1>3

LEMMA AlongUnique ==
    ASSUME NEW n \in Nat, NEW v, NEW f, NEW ms, NEW g, NEW h,
           Along(g, v, f, ms, n), Along(h, v, f, ms, n)
    PROVE  g[n] = h[n]
<1> DEFINE bad == {k \in 0 .. n : g[k] # h[k]}
<1>1. CASE bad = {}
  BY <1>1
<1>2. CASE bad # {}
  <2>1. PICK k \in bad : \A m \in bad : k <= m
    <3>1. bad \in SUBSET Nat
      OBVIOUS
    <3> QED
      BY <1>2, <3>1, LeastExists, Zenon
  <2>2. k # 0
    BY <2>1 DEF Along
  <2>3. k \in 1 .. n /\ k - 1 \in 0 .. n /\ k - 1 \notin bad
    BY <2>1, <2>2
  <2>4. g[k - 1] = h[k - 1]
    BY <2>3
  <2> QED
    BY <2>1, <2>3, <2>4 DEF Along
<1> QED
  BY <1>1, <1>2

-----------------------------------------------------------------------------
(* The copies of the score.  *)

LEMMA LapsAre ==
    ASSUME NEW l
    PROVE  l \in Laps <=> DOMAIN l \subseteq PlayerIds /\ l \in [DOMAIN l -> Seq(Nat)]
<1>1. ASSUME l \in Laps PROVE DOMAIN l \subseteq PlayerIds /\ l \in [DOMAIN l -> Seq(Nat)]
  <2>1. PICK D \in SUBSET PlayerIds : l \in [D -> Seq(Nat)]
    BY <1>1 DEF Laps
  <2> QED
    BY <2>1
<1>2. ASSUME DOMAIN l \subseteq PlayerIds, l \in [DOMAIN l -> Seq(Nat)] PROVE l \in Laps
  <2>1. DOMAIN l \in SUBSET PlayerIds
    BY <1>2
  <2> QED
    BY <1>2, <2>1 DEF Laps
<1> QED
  BY <1>1, <1>2

LEMMA CopyIs ==
    ASSUME NEW v \in Copy
    PROVE  /\ v.total \in [Teams -> Nat] /\ v.onHill \in {0} \cup PlayerIds /\ v.counter \in Nat
           /\ v.laps \in Laps
           /\ v = [total |-> v.total, onHill |-> v.onHill, counter |-> v.counter, laps |-> v.laps]
BY DEF Copy

(* What one message makes of a copy.  *)
LEMMA HeardOneIs ==
    ASSUME NEW v \in Copy, NEW m \in Message
    PROVE  /\ HeardOne(v, m) \in Copy
           /\ m.cmd = "team" => /\ HeardOne(v, m).total = m.total
                                /\ HeardOne(v, m).onHill = v.onHill
                                /\ HeardOne(v, m).laps = v.laps
           /\ m.cmd = "hill" => /\ HeardOne(v, m).total = v.total
                                /\ HeardOne(v, m).onHill = IF m.value = 0 THEN 0 ELSE m.id
                                /\ HeardOne(v, m).laps = v.laps
           /\ m.cmd \in {"lap", "record"} =>
                /\ HeardOne(v, m).total = v.total /\ HeardOne(v, m).onHill = v.onHill
                /\ DOMAIN HeardOne(v, m).laps = DOMAIN v.laps
                /\ \A j \in DOMAIN v.laps : HeardOne(v, m).laps[j] =
                     IF j = m.id THEN Append(v.laps[j], m.value) ELSE v.laps[j]
<1>1. /\ m.cmd \in {"team", "hill", "lap", "record"} /\ m.id \in {0} \cup PlayerIds
      /\ m.value \in Nat /\ m.total \in [Teams -> Nat]
  BY DEF Message
<1>2. CASE m.cmd = "team"
  <2>1. HeardOne(v, m) = [v EXCEPT !.total = m.total]
    BY <1>2 DEF HeardOne
  <2> QED
    BY <1>1, <1>2, <2>1 DEF Copy
<1>3. CASE m.cmd = "hill"
  <2> DEFINE o == IF m.value = 0 THEN 0 ELSE m.id
  <2>1. HeardOne(v, m) = [v EXCEPT !.counter = m.value, !.onHill = o]
    BY <1>3 DEF HeardOne
  <2>2. o \in {0} \cup PlayerIds
    BY <1>1
  <2> HIDE DEF o
  <2>3. /\ [v EXCEPT !.counter = m.value, !.onHill = o] \in Copy
        /\ [v EXCEPT !.counter = m.value, !.onHill = o].total = v.total
        /\ [v EXCEPT !.counter = m.value, !.onHill = o].onHill = o
        /\ [v EXCEPT !.counter = m.value, !.onHill = o].laps = v.laps
    BY <1>1, <2>2 DEF Copy
  <2> QED
    BY <1>3, <2>1, <2>3 DEF o
<1>4. CASE m.cmd \in {"lap", "record"}
  <2>1. v.laps \in Laps /\ DOMAIN v.laps \subseteq PlayerIds
        /\ v.laps \in [DOMAIN v.laps -> Seq(Nat)]
    BY CopyIs, LapsAre
  <2>2. CASE m.id \in DOMAIN v.laps
    <3> DEFINE l == v.laps
               e == Append(l[m.id], m.value)
               n == [l EXCEPT ![m.id] = e]
    <3>1. e \in Seq(Nat)
      BY <1>1, <2>1, <2>2
    <3>2. HeardOne(v, m) = [v EXCEPT !.laps = n]
      BY <1>4, <2>2 DEF HeardOne
    <3>3. /\ n \in [DOMAIN l -> Seq(Nat)] /\ DOMAIN n = DOMAIN l
          /\ \A j \in DOMAIN l : n[j] = IF j = m.id THEN e ELSE l[j]
      <4> HIDE DEF e
      <4> QED
        BY <2>1, <3>1
    <3>4. n \in Laps
      <4> HIDE DEF n
      <4> QED
        BY <2>1, <3>3, LapsAre
    <3>5. \A j \in DOMAIN l : n[j] = IF j = m.id THEN Append(l[j], m.value) ELSE l[j]
      BY <3>3
    <3> HIDE DEF n
    <3>6. /\ [v EXCEPT !.laps = n] \in Copy
          /\ [v EXCEPT !.laps = n].total = v.total
          /\ [v EXCEPT !.laps = n].onHill = v.onHill
          /\ [v EXCEPT !.laps = n].laps = n
      BY <3>4 DEF Copy
    <3> QED
      BY <1>4, <3>2, <3>3, <3>5, <3>6
  <2>3. CASE m.id \notin DOMAIN v.laps
    <3>1. HeardOne(v, m) = v
      BY <1>4, <2>3 DEF HeardOne
    <3> QED
      BY <1>4, <2>3, <3>1
  <2> QED
    BY <2>2, <2>3
<1> QED
  BY <1>1, <1>2, <1>3, <1>4

Hear == [p \in Copy \X Message |-> HeardOne(p[1], p[2])]

(* The copies that come about one after the other.  *)
LEMMA HeardEachIs ==
    ASSUME NEW v \in Copy, NEW ms \in Seq(Message)
    PROVE  /\ \E g \in [0 .. Len(ms) -> Copy] : Along(g, v, Hear, ms, Len(ms))
           /\ \A g : Along(g, v, Hear, ms, Len(ms)) => HeardEach(v, ms) = g[Len(ms)]
           /\ HeardEach(v, ms) \in Copy
<1>1. Hear \in [Copy \X Message -> Copy]
  BY HeardOneIs DEF Hear
<1>2. Len(ms) \in Nat /\ \A k \in 1 .. Len(ms) : ms[k] \in Message
  BY LenProperties, ElementOfSeq
<1>3. PICK g \in [0 .. Len(ms) -> Copy] : Along(g, v, Hear, ms, Len(ms))
  BY <1>1, AlongExists
<1> DEFINE F(h) == [n \in 0 .. Len(ms) |-> IF n = 0 THEN v ELSE HeardOne(h[n - 1], ms[n])]
           t == CHOOSE h : h = F(h)
<1>4. HeardEach(v, ms) = t[Len(ms)]
  BY DEF HeardEach
<1>5. g = F(g)
  <2>1. \A k \in 1 .. Len(ms) : g[k - 1] \in Copy
    BY <1>2
  <2>2. \A k \in 1 .. Len(ms) : g[k] = HeardOne(g[k - 1], ms[k])
    BY <1>2, <1>3, <2>1 DEF Along, Hear
  <2>3. \A k \in 0 .. Len(ms) : g[k] = F(g)[k]
    BY <1>2, <1>3, <2>2 DEF Along
  <2> QED
    BY <2>3
<1>6. t = F(t)
  BY <1>5
<1>7. /\ \A n \in 0 .. Len(ms) : t[n] = IF n = 0 THEN v ELSE HeardOne(t[n - 1], ms[n])
      /\ \A n \in 0 .. Len(ms) : g[n] = IF n = 0 THEN v ELSE HeardOne(g[n - 1], ms[n])
  <2> HIDE DEF t
  <2> QED
    BY <1>5, <1>6
<1> HIDE DEF t, F
<1>8. t[Len(ms)] = g[Len(ms)]
  <2> DEFINE bad == {k \in 0 .. Len(ms) : t[k] # g[k]}
  <2>1. CASE bad = {}
    BY <1>2, <2>1
  <2>2. CASE bad # {}
    <3>1. PICK k \in bad : \A j \in bad : k <= j
      <4>1. bad \in SUBSET Nat
        BY <1>2
      <4> QED
        BY <2>2, <4>1, LeastExists, Zenon
    <3>2. k # 0 /\ k \in 0 .. Len(ms)
      BY <1>7, <3>1
    <3>3. k - 1 \in 0 .. Len(ms) /\ k - 1 \notin bad
      BY <1>2, <3>1, <3>2
    <3>4. t[k - 1] = g[k - 1]
      BY <3>3
    <3>5. t[k] = g[k]
      BY <1>7, <3>2, <3>4
    <3> QED
      BY <3>1, <3>5
  <2> QED
    BY <2>1, <2>2
<1>9. HeardEach(v, ms) \in Copy
  BY <1>2, <1>4, <1>8
<1>10. \A h : Along(h, v, Hear, ms, Len(ms)) => h[Len(ms)] = g[Len(ms)]
  BY <1>2, <1>3, AlongUnique
<1> QED
  BY <1>3, <1>4, <1>8, <1>9, <1>10

(* One more message is heard after all the others.  *)
LEMMA HeardMore ==
    ASSUME NEW v \in Copy, NEW ms \in Seq(Message)
    PROVE  /\ HeardEach(v, << >>) = v
           /\ \A m \in Message : HeardEach(v, Append(ms, m)) = HeardOne(HeardEach(v, ms), m)
<1>1. HeardEach(v, << >>) = v
  <2> DEFINE g == [k \in {0} |-> v]
  <2>1. Along(g, v, Hear, << >>, 0)
    BY DEF Along
  <2>2. g[0] = v
    OBVIOUS
  <2> HIDE DEF g
  <2> QED
    BY <2>1, <2>2, EmptyIs, HeardEachIs
<1>2. ASSUME NEW m \in Message
      PROVE  HeardEach(v, Append(ms, m)) = HeardOne(HeardEach(v, ms), m)
  <2> DEFINE ns == Append(ms, m)
             n == Len(ms)
  <2>1. /\ n \in Nat /\ ns \in Seq(Message) /\ Len(ns) = n + 1 /\ ns[n + 1] = m
        /\ \A k \in 1 .. n : ns[k] = ms[k]
    BY LenProperties, AppendIs
  <2> HIDE DEF ns
  <2>2. PICK g \in [0 .. n + 1 -> Copy] : Along(g, v, Hear, ns, n + 1)
    BY <2>1, HeardEachIs
  <2>3. HeardEach(v, ns) = g[n + 1]
    BY <2>1, <2>2, HeardEachIs
  <2>4. Along(g, v, Hear, ms, n)
    BY <2>1, <2>2 DEF Along
  <2>5. HeardEach(v, ms) = g[n]
    BY <2>4, HeardEachIs
  <2>6. g[n] \in Copy /\ g[n + 1] = Hear[<< g[n], m >>]
    BY <2>1, <2>2 DEF Along
  <2>7. g[n + 1] = HeardOne(g[n], m)
    BY <2>6 DEF Hear
  <2> QED
    BY <2>3, <2>5, <2>7 DEF ns
<1> QED
  BY <1>1, <1>2

(* Copy x without the laps of player i, or with none of his yet.           *)
LikeWithout(x, y, i) ==
    /\ x.total = y.total /\ x.onHill = y.onHill
    /\ DOMAIN x.laps = DOMAIN y.laps \ {i}
    /\ \A j \in DOMAIN x.laps : x.laps[j] = y.laps[j]
LikeWith(x, y, i) ==
    /\ x.total = y.total /\ x.onHill = y.onHill
    /\ DOMAIN x.laps = DOMAIN y.laps \cup {i} /\ x.laps[i] = << >>
    /\ \A j \in DOMAIN y.laps : j # i => x.laps[j] = y.laps[j]

LEMMA WithoutLapsIs ==
    ASSUME NEW v \in Copy, NEW i
    PROVE  WithoutLaps(v, i) \in Copy /\ LikeWithout(WithoutLaps(v, i), v, i)
<1> DEFINE l == v.laps
           n == [j \in DOMAIN l \ {i} |-> l[j]]
<1>1. l \in [DOMAIN l -> Seq(Nat)] /\ DOMAIN l \subseteq PlayerIds
  BY CopyIs, LapsAre
<1>2. /\ DOMAIN n = DOMAIN l \ {i} /\ n \in [DOMAIN n -> Seq(Nat)]
      /\ \A j \in DOMAIN n : n[j] = l[j]
  <2> HIDE DEF l
  <2> QED
    BY <1>1
<1>3. WithoutLaps(v, i) = [v EXCEPT !.laps = n]
  BY DEF WithoutLaps
<1> HIDE DEF n
<1>4. n \in Laps
  BY <1>1, <1>2, LapsAre
<1>5. /\ [v EXCEPT !.laps = n] \in Copy /\ [v EXCEPT !.laps = n].total = v.total
      /\ [v EXCEPT !.laps = n].onHill = v.onHill /\ [v EXCEPT !.laps = n].laps = n
  BY <1>4 DEF Copy
<1> QED
  BY <1>2, <1>3, <1>5 DEF LikeWithout

LEMMA WithLapsIs ==
    ASSUME NEW v \in Copy, NEW i \in PlayerIds
    PROVE  WithLaps(v, i) \in Copy /\ LikeWith(WithLaps(v, i), v, i)
<1> DEFINE l == v.laps
           n == [j \in DOMAIN l \cup {i} |-> IF j = i THEN << >> ELSE l[j]]
<1>1. l \in [DOMAIN l -> Seq(Nat)] /\ DOMAIN l \subseteq PlayerIds
  BY CopyIs, LapsAre
<1>2. << >> \in Seq(Nat)
  OBVIOUS
<1>3. /\ DOMAIN n = DOMAIN l \cup {i} /\ n \in [DOMAIN n -> Seq(Nat)] /\ n[i] = << >>
      /\ \A j \in DOMAIN l : j # i => n[j] = l[j]
  <2> HIDE DEF l
  <2> QED
    BY <1>1, <1>2
<1>4. WithLaps(v, i) = [v EXCEPT !.laps = n]
  BY DEF WithLaps
<1> HIDE DEF n
<1>5. n \in Laps
  BY <1>1, <1>3, LapsAre
<1>6. /\ [v EXCEPT !.laps = n] \in Copy /\ [v EXCEPT !.laps = n].total = v.total
      /\ [v EXCEPT !.laps = n].onHill = v.onHill /\ [v EXCEPT !.laps = n].laps = n
  BY <1>5 DEF Copy
<1> QED
  BY <1>3, <1>4, <1>6 DEF LikeWith

LEMMA CommandsAre ==
    ASSUME NEW m \in Message
    PROVE  m.cmd \in {"team", "hill", "lap", "record"} /\ m.value \in Nat
BY DEF Message

(* Who left is left out of what is heard, whether before or after.         *)
LEMMA HeardWithout ==
    ASSUME NEW v \in Copy, NEW w \in Copy, NEW i, LikeWithout(w, v, i), NEW ms \in Seq(Message)
    PROVE  LikeWithout(HeardEach(w, ms), HeardEach(v, ms), i)
<1> DEFINE n == Len(ms)
<1>1. n \in Nat /\ \A k \in 1 .. n : ms[k] \in Message
  BY LenProperties, ElementOfSeq
<1>2. PICK g \in [0 .. n -> Copy] : Along(g, v, Hear, ms, n)
  BY HeardEachIs
<1>3. PICK h \in [0 .. n -> Copy] : Along(h, w, Hear, ms, n)
  BY HeardEachIs
<1>4. HeardEach(v, ms) = g[n] /\ HeardEach(w, ms) = h[n]
  BY <1>2, <1>3, HeardEachIs
<1> HIDE DEF n
<1>5. ASSUME NEW x \in Copy, NEW y \in Copy, LikeWithout(x, y, i), NEW m \in Message
      PROVE  LikeWithout(HeardOne(x, m), HeardOne(y, m), i)
  <2> DEFINE a == HeardOne(x, m)
             b == HeardOne(y, m)
  <2>1. CASE m.cmd = "team"
    <3>1. /\ a.total = m.total /\ a.onHill = x.onHill /\ a.laps = x.laps
          /\ b.total = m.total /\ b.onHill = y.onHill /\ b.laps = y.laps
      BY <2>1, HeardOneIs
    <3> HIDE DEF a, b
    <3> QED
      BY <1>5, <3>1 DEF LikeWithout, a, b
  <2>2. CASE m.cmd = "hill"
    <3>1. /\ a.total = x.total /\ a.laps = x.laps /\ b.total = y.total /\ b.laps = y.laps
          /\ a.onHill = b.onHill
      BY <2>2, HeardOneIs
    <3> HIDE DEF a, b
    <3> QED
      BY <1>5, <3>1 DEF LikeWithout, a, b
  <2>3. CASE m.cmd \in {"lap", "record"}
    <3>1. /\ a.total = x.total /\ a.onHill = x.onHill /\ DOMAIN a.laps = DOMAIN x.laps
          /\ \A j \in DOMAIN x.laps : a.laps[j] =
               IF j = m.id THEN Append(x.laps[j], m.value) ELSE x.laps[j]
      BY <2>3, HeardOneIs
    <3>2. /\ b.total = y.total /\ b.onHill = y.onHill /\ DOMAIN b.laps = DOMAIN y.laps
          /\ \A j \in DOMAIN y.laps : b.laps[j] =
               IF j = m.id THEN Append(y.laps[j], m.value) ELSE y.laps[j]
      BY <2>3, HeardOneIs
    <3> HIDE DEF a, b
    <3> QED
      BY <1>5, <2>3, <3>1, <3>2 DEF LikeWithout, a, b
  <2> QED
    BY <2>1, <2>2, <2>3, CommandsAre
<1> DEFINE bad == {k \in 0 .. n : ~LikeWithout(h[k], g[k], i)}
<1>6. CASE bad = {}
  BY <1>1, <1>4, <1>6
<1>7. CASE bad # {}
  <2>1. PICK k \in bad : \A j \in bad : k <= j
    <3>1. bad \in SUBSET Nat
      BY <1>1
    <3> QED
      BY <1>7, <3>1, LeastExists, Zenon
  <2>2. k # 0 /\ k \in 0 .. n
    BY <1>2, <1>3, <2>1 DEF Along
  <2>3. k - 1 \in 0 .. n /\ k - 1 \notin bad /\ k \in 1 .. n
    BY <1>1, <2>1, <2>2
  <2>4. LikeWithout(h[k - 1], g[k - 1], i) /\ h[k - 1] \in Copy /\ g[k - 1] \in Copy
    BY <2>3
  <2>5. h[k] = HeardOne(h[k - 1], ms[k]) /\ g[k] = HeardOne(g[k - 1], ms[k])
    BY <1>1, <1>2, <1>3, <2>3, <2>4 DEF Along, Hear
  <2>6. LikeWithout(h[k], g[k], i)
    BY <1>1, <1>5, <2>3, <2>4, <2>5
  <2> QED
    BY <2>1, <2>6
<1> QED
  BY <1>6, <1>7

(* The same for who begins anew, if no lap of his is on its way.           *)
LEMMA HeardWith ==
    ASSUME NEW v \in Copy, NEW w \in Copy, NEW i, LikeWith(w, v, i), NEW ms \in Seq(Message),
           \A k \in 1 .. Len(ms) : ms[k].cmd \in {"lap", "record"} => ms[k].id # i
    PROVE  LikeWith(HeardEach(w, ms), HeardEach(v, ms), i)
<1> DEFINE n == Len(ms)
<1>1. n \in Nat /\ \A k \in 1 .. n : ms[k] \in Message
  BY LenProperties, ElementOfSeq
<1>2. PICK g \in [0 .. n -> Copy] : Along(g, v, Hear, ms, n)
  BY HeardEachIs
<1>3. PICK h \in [0 .. n -> Copy] : Along(h, w, Hear, ms, n)
  BY HeardEachIs
<1>4. HeardEach(v, ms) = g[n] /\ HeardEach(w, ms) = h[n]
  BY <1>2, <1>3, HeardEachIs
<1>0. \A k \in 1 .. n : ms[k].cmd \in {"lap", "record"} => ms[k].id # i
  OBVIOUS
<1> HIDE DEF n
<1>5. ASSUME NEW x \in Copy, NEW y \in Copy, LikeWith(x, y, i), NEW m \in Message,
             m.cmd \in {"lap", "record"} => m.id # i
      PROVE  LikeWith(HeardOne(x, m), HeardOne(y, m), i)
  <2> DEFINE a == HeardOne(x, m)
             b == HeardOne(y, m)
  <2>1. CASE m.cmd = "team"
    <3>1. /\ a.total = m.total /\ a.onHill = x.onHill /\ a.laps = x.laps
          /\ b.total = m.total /\ b.onHill = y.onHill /\ b.laps = y.laps
      BY <2>1, HeardOneIs
    <3> HIDE DEF a, b
    <3> QED
      BY <1>5, <3>1 DEF LikeWith, a, b
  <2>2. CASE m.cmd = "hill"
    <3>1. /\ a.total = x.total /\ a.laps = x.laps /\ b.total = y.total /\ b.laps = y.laps
          /\ a.onHill = b.onHill
      BY <2>2, HeardOneIs
    <3> HIDE DEF a, b
    <3> QED
      BY <1>5, <3>1 DEF LikeWith, a, b
  <2>3. CASE m.cmd \in {"lap", "record"}
    <3>1. /\ a.total = x.total /\ a.onHill = x.onHill /\ DOMAIN a.laps = DOMAIN x.laps
          /\ \A j \in DOMAIN x.laps : a.laps[j] =
               IF j = m.id THEN Append(x.laps[j], m.value) ELSE x.laps[j]
      BY <2>3, HeardOneIs
    <3>2. /\ b.total = y.total /\ b.onHill = y.onHill /\ DOMAIN b.laps = DOMAIN y.laps
          /\ \A j \in DOMAIN y.laps : b.laps[j] =
               IF j = m.id THEN Append(y.laps[j], m.value) ELSE y.laps[j]
      BY <2>3, HeardOneIs
    <3> HIDE DEF a, b
    <3> QED
      BY <1>5, <2>3, <3>1, <3>2 DEF LikeWith, a, b
  <2> QED
    BY <2>1, <2>2, <2>3, CommandsAre
<1> DEFINE bad == {k \in 0 .. n : ~LikeWith(h[k], g[k], i)}
<1>6. CASE bad = {}
  BY <1>1, <1>4, <1>6
<1>7. CASE bad # {}
  <2>1. PICK k \in bad : \A j \in bad : k <= j
    <3>1. bad \in SUBSET Nat
      BY <1>1
    <3> QED
      BY <1>7, <3>1, LeastExists, Zenon
  <2>2. k # 0 /\ k \in 0 .. n
    BY <1>2, <1>3, <2>1 DEF Along
  <2>3. k - 1 \in 0 .. n /\ k - 1 \notin bad /\ k \in 1 .. n
    BY <1>1, <2>1, <2>2
  <2>4. LikeWith(h[k - 1], g[k - 1], i) /\ h[k - 1] \in Copy /\ g[k - 1] \in Copy
    BY <2>3
  <2>5. h[k] = HeardOne(h[k - 1], ms[k]) /\ g[k] = HeardOne(g[k - 1], ms[k])
    BY <1>1, <1>2, <1>3, <2>3, <2>4 DEF Along, Hear
  <2>6. LikeWith(h[k], g[k], i)
    BY <1>0, <1>1, <1>5, <2>3, <2>4, <2>5
  <2> QED
    BY <2>1, <2>6
<1> QED
  BY <1>6, <1>7

(* A copy that agrees with a state of the server; what each client will    *)
(* have once he has heard what waits in the outbox agrees.                 *)
Shows(w, score, goat, tour, ids, ts) ==
    /\ w.total = score /\ w.onHill \in {0, goat}
    /\ tour = "SR" => /\ DOMAIN w.laps = ids
                      /\ \A k \in 1 .. Len(ts) : w.laps[ts[k].id] = ts[k].laps

ToldSound ==
    /\ type # "GOH" => hill = 0
    /\ \A j \in DOMAIN told :
          told[j] \in Copy /\ Shows(HeardEach(told[j], outbox), total, hill, type, Present, times)

LEMMA OffHillHeard ==
    ASSUME ScoringTypeOK, type # "GOH" => hill = 0, NEW v \in Copy, NEW i \in PlayerIds,
           v.onHill \in {0, hill}, NEW ms \in Seq(Message), NEW u \in Copy, HeardEach(u, ms) = v
    PROVE  LET w == HeardEach(u, ms \o OffHillNotes(i))
           IN  /\ w \in Copy /\ w.total = v.total /\ w.laps = v.laps
               /\ w.onHill \in {0, OffHill(i)}
<1> DEFINE m == Note("hill", i, 0)
<1>1. i # 0 /\ i \in {0} \cup PlayerIds
  BY ScoreConstants
<1>2. m \in Message /\ m.cmd = "hill" /\ m.value = 0
  <2>1. "hill" \in {"team", "hill", "lap", "record"} /\ 0 \in Nat
    OBVIOUS
  <2> QED
    BY <1>1, <2>1, NoteIs
<1> HIDE DEF m
<1>3. CASE type = "GOH" /\ hill = i
  <2>1. OffHillNotes(i) = << m >>
    BY <1>3 DEF OffHillNotes, m
  <2>2. ms \o << m >> = Append(ms, m)
    BY <1>2
  <2>3. HeardEach(u, Append(ms, m)) = HeardOne(v, m)
    BY <1>2, HeardMore
  <2>4. ms \o OffHillNotes(i) = Append(ms, m)
    BY <2>1, <2>2
  <2>5. HeardOne(v, m) \in Copy /\ HeardOne(v, m).total = v.total
        /\ HeardOne(v, m).laps = v.laps /\ HeardOne(v, m).onHill = 0
    BY <1>2, HeardOneIs
  <2> QED
    BY <2>3, <2>4, <2>5
<1>4. CASE ~(type = "GOH" /\ hill = i)
  <2>1. OffHillNotes(i) = << >> /\ ms \o << >> = ms
    BY <1>4 DEF OffHillNotes
  <2>2. OffHill(i) = hill
    BY <1>1, <1>4 DEF OffHill
  <2> QED
    BY <2>1, <2>2
<1> QED
  BY <1>3, <1>4

(* A new client is told one lap, which is all there is when he is followed. *)
LEMMA GenericLapsAre ==
    ASSUME NEW ts \in Seq(Times)
    PROVE  \/ GenericLaps(ts) = << >> /\ \A k \in 1 .. Len(ts) : ts[k].laps = << >>
           \/ \E n \in 1 .. Len(ts) : /\ ts[n].laps # << >>
                                      /\ GenericLaps(ts) = << Note("lap", ts[n].id, ts[n].laps[1]) >>
<1> DEFINE I == {k \in 1 .. Len(ts) : ts[k].laps # << >>}
           n == IF I # {} THEN Min(I) ELSE 0
<1>1. GenericLaps(ts) = IF n = 0 THEN << >> ELSE << Note("lap", ts[n].id, ts[n].laps[1]) >>
  BY DEF GenericLaps, SelectInSeq
<1>2. CASE I = {}
  <2>1. n = 0
    BY <1>2
  <2> HIDE DEF n
  <2> QED
    BY <1>1, <1>2, <2>1
<1>3. CASE I # {}
  <2>1. PICK k \in I : \A j \in I : k <= j
    <3>1. I \in SUBSET Nat
      BY LenProperties
    <3> QED
      BY <1>3, <3>1, LeastExists, Zenon
  <2>2. n \in I
    BY <1>3, <2>1 DEF Min
  <2> HIDE DEF n
  <2>3. n # 0 /\ n \in 1 .. Len(ts) /\ ts[n].laps # << >>
    BY <2>2
  <2> QED
    BY <1>1, <2>3
<1> QED
  BY <1>2, <1>3

LEMMA SingletonIs ==
    ASSUME NEW S, NEW q \in Seq(S), Len(q) = 1
    PROVE  q[1] \in S /\ q = Append(<< >>, q[1])
<1>1. q[1] \in S
  BY ElementOfSeq
<1>2. q = [k \in 1 .. 1 |-> q[k]]
  OBVIOUS
<1>3. Append(<< >>, q[1]) = [k \in 1 .. 1 |-> q[1]]
  BY <1>1
<1> QED
  BY <1>1, <1>2, <1>3

LEMMA SyncedCopyIs ==
    ASSUME ScoringTypeOK, NEW i \in PlayerIds, NEW ts \in Seq(Times), OneLap(ts), Once(ts),
           type = "SR" => \A j : j \in Present \cup {i} <=> Lists(ts, j)
    PROVE  LET w == SyncedCopy(i, ts)
           IN  /\ w \in Copy /\ w.total = total /\ w.onHill \in {0, hill}
               /\ type = "SR" => /\ DOMAIN w.laps = Present \cup {i}
                                 /\ \A k \in 1 .. Len(ts) : w.laps[ts[k].id] = ts[k].laps
<1> DEFINE l == [j \in Present \cup {i} |-> << >>]
           v == [total |-> total, counter |-> 0, onHill |-> 0, laps |-> l]
<1>0. /\ total \in [Teams -> Nat] /\ Present \subseteq PlayerIds /\ hill \in {0} \cup PlayerIds
      /\ counter \in Nat
  BY ScoreConstants DEF ScoringTypeOK
<1>1. l \in Laps /\ DOMAIN l = Present \cup {i} /\ \A j \in Present \cup {i} : l[j] = << >>
  <2>1. << >> \in Seq(Nat)
    OBVIOUS
  <2>2. DOMAIN l = Present \cup {i} /\ \A j \in Present \cup {i} : l[j] = << >>
    OBVIOUS
  <2>3. l \in [DOMAIN l -> Seq(Nat)]
    BY <2>1, <2>2
  <2> HIDE DEF l
  <2> QED
    BY <1>0, <2>2, <2>3, LapsAre
<1> HIDE DEF l
<1>2. v \in Copy /\ v.total = total /\ v.onHill = 0 /\ v.laps = l
  BY <1>0, <1>1 DEF Copy
<1>3. SyncedCopy(i, ts) = HeardEach(v,
          IF type = "GOH" /\ hill # 0 THEN << Note("hill", hill, counter) >>
          ELSE IF type = "SR" THEN GenericLaps(ts) ELSE << >>)
  BY DEF SyncedCopy, l
<1> HIDE DEF v
<1>4. \A m \in Message : HeardEach(v, << m >>) = HeardOne(v, m)
  <2> SUFFICES ASSUME NEW m \in Message PROVE HeardEach(v, << m >>) = HeardOne(v, m)
    OBVIOUS
  <2>1. << m >> = Append(<< >>, m)
    OBVIOUS
  <2>2. << >> \in Seq(Message)
    BY EmptyIs
  <2> QED
    BY ZenonT(40), <1>2, <2>1, <2>2, HeardMore
<1>5. HeardEach(v, << >>) = v
  BY <1>2, EmptyIs, HeardMore
<1>6. CASE type = "GOH" /\ hill # 0
  <2> DEFINE m == Note("hill", hill, counter)
  <2>1. m \in Message /\ m.cmd = "hill" /\ m.id = hill
    <3>1. "hill" \in {"team", "hill", "lap", "record"}
      OBVIOUS
    <3> QED
      BY <1>0, <3>1, NoteIs
  <2>2. SyncedCopy(i, ts) = HeardOne(v, m)
    BY <1>3, <1>4, <1>6, <2>1
  <2> HIDE DEF m
  <2> QED
    BY <1>2, <1>6, <2>1, <2>2, HeardOneIs
<1>7. CASE type = "SR" /\ GenericLaps(ts) = << >> /\ \A k \in 1 .. Len(ts) : ts[k].laps = << >>
  <2>1. SyncedCopy(i, ts) = v
    BY <1>3, <1>5, <1>7
  <2>2. \A k \in 1 .. Len(ts) : ts[k].id \in Present \cup {i}
    BY <1>7 DEF Lists
  <2> QED
    BY <1>1, <1>2, <1>7, <2>1, <2>2
<1>8. ASSUME type = "SR", NEW n \in 1 .. Len(ts), ts[n].laps # << >>,
             GenericLaps(ts) = << Note("lap", ts[n].id, ts[n].laps[1]) >>
      PROVE  LET w == SyncedCopy(i, ts)
             IN  /\ w \in Copy /\ w.total = total /\ w.onHill \in {0, hill}
                 /\ DOMAIN w.laps = Present \cup {i}
                 /\ \A k \in 1 .. Len(ts) : w.laps[ts[k].id] = ts[k].laps
  <2> DEFINE t == ts[n].laps[1]
             m == Note("lap", ts[n].id, t)
             w == HeardOne(v, m)
  <2>0. DOMAIN ts = 1 .. Len(ts) /\ ts[n] \in Times
    BY ElementOfSeq
  <2>1. ts[n].id \in PlayerIds /\ ts[n].laps \in Seq(LapTimes)
    BY <2>0 DEF Times
  <2>2. Len(ts[n].laps) = 1
    BY <1>8, <2>0 DEF OneLap
  <2>3. \A k \in 1 .. Len(ts) : k # n => ts[k].laps = << >>
    BY <1>8, <2>0 DEF OneLap
  <2>4. t \in Nat /\ ts[n].laps = Append(<< >>, t)
    <3> DEFINE q == ts[n].laps
    <3>1. q \in Seq(LapTimes) /\ Len(q) = 1
      BY <2>1, <2>2
    <3> HIDE DEF q
    <3>2. q[1] \in LapTimes /\ q = Append(<< >>, q[1])
      BY <3>1, SingletonIs
    <3> QED
      BY <3>2, ScoreConstants DEF q
  <2>5. m \in Message /\ m.cmd = "lap" /\ m.id = ts[n].id /\ m.value = t
    <3> DEFINE d == ts[n].id
    <3>1. d \in {0} \cup PlayerIds
      BY <2>1
    <3> HIDE DEF t, d
    <3>2. /\ Note("lap", d, t) \in Message /\ Note("lap", d, t).cmd = "lap"
          /\ Note("lap", d, t).id = d /\ Note("lap", d, t).value = t
      BY <2>4, <3>1, LapNoteIs
    <3> QED
      BY <3>2 DEF d
  <2>6. SyncedCopy(i, ts) = w
    BY <1>3, <1>4, <1>8, <2>5
  <2> HIDE DEF t, m
  <2>7. /\ w \in Copy /\ w.total = total /\ w.onHill = 0
        /\ DOMAIN w.laps = Present \cup {i}
        /\ \A j \in Present \cup {i} :
             w.laps[j] = IF j = ts[n].id THEN Append(<< >>, t) ELSE << >>
    <3>1. m.cmd \in {"lap", "record"}
      BY <2>5
    <3>2. /\ w \in Copy /\ w.total = v.total /\ w.onHill = v.onHill
          /\ DOMAIN w.laps = DOMAIN v.laps
          /\ \A j \in DOMAIN v.laps : w.laps[j] =
               IF j = m.id THEN Append(v.laps[j], m.value) ELSE v.laps[j]
      BY <1>2, <2>5, <3>1, HeardOneIs
    <3> HIDE DEF w
    <3> QED
      BY <1>1, <1>2, <2>5, <3>2
  <2>8. \A k \in 1 .. Len(ts) : ts[k].id \in Present \cup {i} /\ (ts[k].id = ts[n].id => k = n)
    BY <1>8 DEF Lists, Once
  <2> HIDE DEF w
  <2>9. \A k \in 1 .. Len(ts) : w.laps[ts[k].id] = ts[k].laps
    BY <2>3, <2>4, <2>7, <2>8
  <2> QED
    BY <2>6, <2>7, <2>9
<1>9. CASE type # "SR" /\ ~(type = "GOH" /\ hill # 0)
  BY <1>2, <1>3, <1>5, <1>9
<1> QED
  BY <1>6, <1>7, <1>8, <1>9, GenericLapsAre
-----------------------------------------------------------------------------
(* Each step keeps the copies in agreement.  *)

LEMMA ToldBySync ==
    ASSUME ScoreSound, ToldSound, NEW i \in PlayerIds, Synchronise(i)
    PROVE  ToldSound'
<1>1. ScoringTypeOK /\ Board /\ Board'
  BY BoardStep DEF ScoreSound, ScoringNext
<1>2. /\ type' = type /\ hill' = hill /\ total' = total /\ outbox' = << >>
      /\ times' = Listed(times, i) /\ i \notin Present /\ Present' = Present \cup {i}
  BY DEF Synchronise, Present
<1>3. times' \in Seq(Times) /\ Once(times')
  BY <1>1, <1>2, ListedIs DEF ScoringTypeOK, Board
<1>4. CASE outbox # << >>
  <2>1. told' = << >>
    BY <1>4 DEF Synchronise
  <2> QED
    BY <1>2, <2>1, EmptyIs DEF ToldSound
<1>5. CASE outbox = << >>
  <2>1. told' = [j \in DOMAIN told \cup (IF Complete(times') THEN {i} ELSE {}) |->
                   IF j = i THEN SyncedCopy(i, times') ELSE WithLaps(told[j], i)]
    BY <1>5 DEF Synchronise
  <2>2. ASSUME NEW j \in DOMAIN told', j = i
        PROVE  /\ told'[j] \in Copy
               /\ Shows(HeardEach(told'[j], << >>), total, hill, type, Present \cup {i}, times')
    <3>1. i \notin DOMAIN told
      BY <1>1, <1>2 DEF ScoringTypeOK
    <3>2. OneLap(times') /\ told'[j] = SyncedCopy(i, times')
      BY <2>1, <2>2, <3>1 DEF Complete
    <3>3. type = "SR" => \A k : k \in Present \cup {i} <=> Lists(times', k)
      BY <1>1, <1>2 DEF Board
    <3> DEFINE w == SyncedCopy(i, times')
    <3>4. /\ w \in Copy /\ w.total = total /\ w.onHill \in {0, hill}
          /\ type = "SR" => /\ DOMAIN w.laps = Present \cup {i}
                            /\ \A k \in 1 .. Len(times') : w.laps[times'[k].id] = times'[k].laps
      BY <1>1, <1>3, <3>2, <3>3, SyncedCopyIs
    <3>5. told'[j] = w
      BY <3>2
    <3> HIDE DEF w
    <3>6. HeardEach(w, << >>) = w
      BY <3>4, EmptyIs, HeardMore
    <3> QED
      BY <3>4, <3>5, <3>6 DEF Shows
  <2>3. ASSUME NEW j \in DOMAIN told', j # i
        PROVE  /\ told'[j] \in Copy
               /\ Shows(HeardEach(told'[j], << >>), total, hill, type, Present \cup {i}, times')
    <3> DEFINE v == told[j]
               w == WithLaps(v, i)
    <3>1. j \in DOMAIN told /\ told'[j] = w
      BY <2>1, <2>3
    <3>2. v \in Copy /\ Shows(HeardEach(v, << >>), total, hill, type, Present, times)
      BY <1>5, <3>1 DEF ToldSound
    <3>3. HeardEach(v, << >>) = v
      BY <3>2, EmptyIs, HeardMore
    <3>4. w \in Copy /\ LikeWith(w, v, i)
      BY <3>2, WithLapsIs
    <3> HIDE DEF w, v
    <3>5. HeardEach(w, << >>) = w
      BY <3>4, EmptyIs, HeardMore
    <3>6. v.total = total /\ v.onHill \in {0, hill}
      BY <3>2, <3>3 DEF Shows
    <3>7. CASE type = "SR"
      <4>1. times' = Append(times, NoLaps(i)) /\ times \in Seq(Times)
        BY <1>1, <1>2, <3>7 DEF Listed, ScoringTypeOK
      <4>2. NoLaps(i) \in Times /\ NoLaps(i).id = i /\ NoLaps(i).laps = << >>
        BY NoLapsIs
      <4>3. /\ Len(times') = Len(times) + 1 /\ Len(times) \in Nat
            /\ \A k \in 1 .. Len(times) : times'[k] = times[k]
            /\ times'[Len(times) + 1] = NoLaps(i)
        BY <4>1, <4>2, AppendIs, LenProperties
      <4>4. \A k \in 1 .. Len(times) : times[k].id \in Present
        BY <1>1, <3>7 DEF Board, Lists
      <4>5. /\ DOMAIN v.laps = Present
            /\ \A k \in 1 .. Len(times) : v.laps[times[k].id] = times[k].laps
        BY <3>2, <3>3, <3>7 DEF Shows
      <4>6. ASSUME NEW k \in 1 .. Len(times') PROVE w.laps[times'[k].id] = times'[k].laps
        <5>1. CASE k = Len(times) + 1
          BY <3>4, <4>2, <4>3, <5>1 DEF LikeWith
        <5>2. CASE k \in 1 .. Len(times)
          <6>1. times'[k] = times[k] /\ times[k].id \in Present /\ times[k].id # i
            BY <1>2, <4>3, <4>4, <5>2
          <6> QED
            BY <3>4, <4>5, <5>2, <6>1 DEF LikeWith
        <5> QED
          BY <4>3, <5>1, <5>2
      <4> QED
        BY <3>1, <3>4, <3>5, <3>6, <4>5, <4>6 DEF Shows, LikeWith
    <3>8. CASE type # "SR"
      BY <3>1, <3>4, <3>5, <3>6, <3>8 DEF Shows, LikeWith
    <3> QED
      BY <3>7, <3>8
  <2> QED
    BY <1>2, <2>2, <2>3 DEF ToldSound
<1> QED
  BY <1>4, <1>5

(* Who is left on the board is one of those who were on it.  *)
LEMMA WithoutHimKeeps ==
    ASSUME times \in Seq(Times), Once(times), InOrder(times), NEW i,
           NEW k \in 1 .. Len(TimesWithoutHim(i))
    PROVE  \E n \in 1 .. Len(times) : TimesWithoutHim(i)[k] = times[n] /\ times[n].id # i
<1> DEFINE r == TimesWithoutHim(i)
<1>1. Lists(r, r[k].id)
  BY DEF Lists
<1>2. r[k].id # i
  BY <1>1, RemovedBoard
<1>3. Len(times) \in Nat
  BY LenProperties
<1>4. CASE r = times
  BY <1>2, <1>4
<1>5. ASSUME NEW n \in 1 .. Len(times), Len(r) = Len(times) - 1,
             \A j \in 1 .. Len(times) - 1 : r[j] = IF j < n THEN times[j] ELSE times[j + 1]
      PROVE  \E j \in 1 .. Len(times) : r[k] = times[j]
  <2> DEFINE len == Len(times)
  <2> HIDE DEF r, len
  <2>1. k \in 1 .. len - 1 /\ k \in 1 .. len /\ k + 1 \in 1 .. len
    BY <1>3, <1>5 DEF r, len
  <2> QED
    BY <1>5, <2>1 DEF len
<1> HIDE DEF r
<1>6. \E j \in 1 .. Len(times) : r[k] = times[j]
  BY <1>4, <1>5, WithoutHimIs DEF r
<1> QED
  BY <1>2, <1>6 DEF r

(* What is heard of a player who is taken off the hill.  *)
LEMMA OffHillShown ==
    ASSUME ScoringTypeOK, type # "GOH" => hill = 0, NEW i \in PlayerIds, NEW u \in Copy,
           NEW v, v = HeardEach(u, outbox), v.total = total, v.onHill \in {0, hill}
    PROVE  \E w \in Copy : /\ w = HeardEach(u, outbox \o OffHillNotes(i))
                           /\ w.total = total /\ w.laps = v.laps /\ w.onHill \in {0, OffHill(i)}
<1>1. outbox \in Seq(Message)
  BY DEF ScoringTypeOK
<1>2. v \in Copy
  BY <1>1, HeardEachIs
<1> QED
  BY <1>1, <1>2, OffHillHeard

LEMMA ToldByLeaving ==
    ASSUME ScoreSound, ToldSound, NEW i \in Present, Leaves(i)
    PROVE  ToldSound'
<1>1. ScoringTypeOK /\ Board /\ i \in PlayerIds
  BY DEF ScoreSound, ScoringTypeOK
<1>2. /\ type' = type /\ hill' = OffHill(i) /\ total' = total
      /\ outbox' = outbox \o OffHillNotes(i) /\ times' = TimesWithoutHim(i)
      /\ Present' = Present \ {i}
  BY DEF Leaves, Present
<1>3. type' # "GOH" => hill' = 0
  BY <1>2 DEF ToldSound, OffHill
<1>4. ASSUME NEW j \in DOMAIN told'
      PROVE  /\ told'[j] \in Copy
             /\ Shows(HeardEach(told'[j], outbox'), total, hill', type, Present \ {i}, times')
  <2> DEFINE v == told[j]
             w == WithoutLaps(v, i)
             a == HeardEach(v, outbox)
             b == HeardEach(w, outbox)
  <2>1. j \in DOMAIN told /\ told'[j] = w
    BY DEF Leaves
  <2>2. v \in Copy /\ Shows(a, total, hill, type, Present, times) /\ outbox \in Seq(Message)
    BY <1>1, <2>1 DEF ToldSound, ScoringTypeOK
  <2>3. w \in Copy /\ LikeWithout(w, v, i)
    BY <2>2, WithoutLapsIs
  <2>4. LikeWithout(b, a, i)
    BY <2>2, <2>3, HeardWithout
  <2>5. b.total = total /\ b.onHill \in {0, hill}
    BY <2>2, <2>4 DEF Shows, LikeWithout
  <2>6. PICK c \in Copy : /\ c = HeardEach(w, outbox \o OffHillNotes(i))
                          /\ c.total = total /\ c.laps = b.laps /\ c.onHill \in {0, OffHill(i)}
    <3> HIDE DEF w
    <3> QED
      BY <1>1, <2>3, <2>5, OffHillShown DEF ToldSound
  <2>7. HeardEach(told'[j], outbox') = c
    BY <1>2, <2>1, <2>6
  <2> HIDE DEF v, w, a, b
  <2>8. CASE type = "SR"
    <3>1. /\ DOMAIN a.laps = Present
          /\ \A k \in 1 .. Len(times) : a.laps[times[k].id] = times[k].laps
      BY <2>2, <2>8 DEF Shows
    <3>2. /\ DOMAIN c.laps = Present \ {i}
          /\ \A p \in Present \ {i} : c.laps[p] = a.laps[p]
      BY <2>4, <2>6, <3>1 DEF LikeWithout
    <3>3. ASSUME NEW k \in 1 .. Len(times')
          PROVE  \E n \in 1 .. Len(times) : times'[k] = times[n] /\ times[n].id # i
      <4>1. times \in Seq(Times) /\ Once(times) /\ InOrder(times)
        BY <1>1 DEF ScoringTypeOK, Board
      <4>2. times' = TimesWithoutHim(i)
        BY <1>2
      <4> QED BY <4>1, <4>2, WithoutHimKeeps
    <3>4. \A n \in 1 .. Len(times) : times[n].id \in Present
      BY <1>1, <2>8 DEF Board, Lists
    <3>5. \A k \in 1 .. Len(times') : c.laps[times'[k].id] = times'[k].laps
      BY <3>1, <3>2, <3>3, <3>4
    <3> QED
      BY <1>2, <2>1, <2>3, <2>6, <2>7, <3>2, <3>5 DEF Shows
  <2>9. CASE type # "SR"
    BY <1>2, <2>1, <2>3, <2>6, <2>7, <2>9 DEF Shows
  <2> QED
    BY <2>8, <2>9
<1> QED
  BY <1>2, <1>3, <1>4 DEF ToldSound

LEMMA ToldByWatching ==
    ASSUME ScoreSound, ToldSound, NEW i \in Present, GoesToWatch(i)
    PROVE  ToldSound'
<1>1. ScoringTypeOK /\ Board /\ i \in PlayerIds
  BY DEF ScoreSound, ScoringTypeOK
<1> DEFINE r == TimesWithoutHim(i)
<1>2. /\ type' = type /\ hill' = OffHill(i) /\ total' = total
      /\ outbox' = outbox \o OffHillNotes(i) /\ times' = Listed(r, i)
      /\ Present' = Present
  BY DEF GoesToWatch, Present
<1>3. type' # "GOH" => hill' = 0
  BY <1>2 DEF ToldSound, OffHill
<1>4. ASSUME NEW j \in DOMAIN told', ~Misled(i)
      PROVE  /\ told'[j] \in Copy
             /\ Shows(HeardEach(told'[j], outbox'), total, hill', type, Present, times')
  <2> DEFINE v == told[j]
             w == WithLaps(v, i)
             a == HeardEach(v, outbox)
             b == HeardEach(w, outbox)
  <2>1. j \in DOMAIN told /\ told'[j] = w
    BY <1>4 DEF GoesToWatch
  <2>2. v \in Copy /\ Shows(a, total, hill, type, Present, times) /\ outbox \in Seq(Message)
    BY <1>1, <2>1 DEF ToldSound, ScoringTypeOK
  <2>3. w \in Copy /\ LikeWith(w, v, i)
    BY <1>1, <2>2, WithLapsIs
  <2>4. LikeWith(b, a, i)
    <3>1. \A k \in 1 .. Len(outbox) : outbox[k].cmd \in {"lap", "record"} => outbox[k].id # i
      BY <1>4, <2>2 DEF Misled
    <3> QED
      BY <2>2, <2>3, <3>1, HeardWith
  <2>5. b.total = total /\ b.onHill \in {0, hill}
    BY <2>2, <2>4 DEF Shows, LikeWith
  <2>6. PICK c \in Copy : /\ c = HeardEach(w, outbox \o OffHillNotes(i))
                          /\ c.total = total /\ c.laps = b.laps /\ c.onHill \in {0, OffHill(i)}
    <3> HIDE DEF w
    <3> QED
      BY <1>1, <2>3, <2>5, OffHillShown DEF ToldSound
  <2>7. HeardEach(told'[j], outbox') = c
    BY <1>2, <2>1, <2>6
  <2> HIDE DEF v, w, a, b
  <2>8. CASE type = "SR"
    <3>1. /\ DOMAIN a.laps = Present
          /\ \A k \in 1 .. Len(times) : a.laps[times[k].id] = times[k].laps
      BY <2>2, <2>8 DEF Shows
    <3>2. /\ DOMAIN c.laps = Present /\ c.laps[i] = << >>
          /\ \A p \in Present : p # i => c.laps[p] = a.laps[p]
      BY <2>4, <2>6, <3>1 DEF LikeWith
    <3>3. ASSUME NEW k \in 1 .. Len(r)
          PROVE  \E n \in 1 .. Len(times) : r[k] = times[n] /\ times[n].id # i
      BY <1>1, WithoutHimKeeps DEF ScoringTypeOK, Board
    <3>4. \A n \in 1 .. Len(times) : times[n].id \in Present
      BY <1>1, <2>8 DEF Board, Lists
    <3>5. \A k \in 1 .. Len(r) : c.laps[r[k].id] = r[k].laps
      <4> HIDE DEF r
      <4> QED
        BY <3>1, <3>2, <3>3, <3>4
    <3>6. r \in Seq(Times) /\ times' = Append(r, NoLaps(i))
      BY <1>1, <1>2, <2>8, WithoutHimTyped DEF Listed, ScoringTypeOK
    <3> HIDE DEF r
    <3>7. NoLaps(i) \in Times /\ NoLaps(i).id = i /\ NoLaps(i).laps = << >>
      BY <1>1, NoLapsIs
    <3>8. /\ Len(times') = Len(r) + 1 /\ Len(r) \in Nat
          /\ \A k \in 1 .. Len(r) : times'[k] = r[k]
          /\ times'[Len(r) + 1] = NoLaps(i)
      BY <3>6, <3>7, AppendIs, LenProperties
    <3>9. \A k \in 1 .. Len(times') : c.laps[times'[k].id] = times'[k].laps
      <4> SUFFICES ASSUME NEW k \in 1 .. Len(times')
                   PROVE  c.laps[times'[k].id] = times'[k].laps
        OBVIOUS
      <4>1. k = Len(r) + 1 \/ k \in 1 .. Len(r)
        BY <3>8
      <4> QED
        BY <3>2, <3>5, <3>7, <3>8, <4>1
    <3> QED
      BY <1>2, <2>1, <2>3, <2>6, <2>7, <3>2, <3>9 DEF Shows
  <2>9. CASE type # "SR"
    BY <1>2, <2>1, <2>3, <2>6, <2>7, <2>9 DEF Shows
  <2> QED
    BY <2>8, <2>9
<1>5. CASE Misled(i)
  <2>1. told' = << >>
    BY <1>5 DEF GoesToWatch
  <2> QED
    BY <1>3, <2>1, EmptyIs DEF ToldSound
<1>6. CASE ~Misled(i)
  BY <1>2, <1>3, <1>4, <1>6 DEF ToldSound
<1> QED
  BY <1>5, <1>6

LEMMA ShownMore ==
    ASSUME NEW u \in Copy, NEW ms \in Seq(Message), NEW m \in Message
    PROVE  /\ HeardEach(u, ms) \in Copy
           /\ ms \o << m >> \in Seq(Message)
           /\ HeardEach(u, ms \o << m >>) = HeardOne(HeardEach(u, ms), m)
           /\ HeardEach(u, Append(ms, m)) = HeardOne(HeardEach(u, ms), m)
<1>1. ms \o << m >> = Append(ms, m)
  OBVIOUS
<1> QED
  BY <1>1, HeardMore, HeardEachIs, AppendIs

LEMMA ToldByDying ==
    ASSUME ScoreSound, ToldSound, NEW i \in Present, NEW o \in {0} \cup PlayerIds, DiesBy(i, o)
    PROVE  ToldSound'
<1>1. ScoringTypeOK /\ Board /\ i \in PlayerIds
  BY DEF ScoreSound, ScoringTypeOK
<1> DEFINE scores == type = "TDM" /\ o \in Present \ {i} /\ ~Friendly(o, i)
           now == IF scores THEN [total EXCEPT ![roster[o].team] = @ + 1] ELSE total
           m == TeamScore(now)
           ms == outbox \o OffHillNotes(i)
<1>2. /\ type' = type /\ hill' = OffHill(i) /\ times' = times /\ told' = told
      /\ Present' = Present /\ total' = now
      /\ outbox' = ms \o (IF scores THEN << m >> ELSE << >>)
  BY DEF DiesBy, Present
<1>3. type' # "GOH" => hill' = 0
  BY <1>2 DEF ToldSound, OffHill
<1>4. ms \in Seq(Message)
  BY <1>1, OffHillNotesAre, ConcatIs DEF ScoringTypeOK
<1>5. ms \o << >> = ms
  <2> HIDE DEF ms
  <2> QED
    BY <1>4
<1>6. m \in Message /\ m.cmd = "team" /\ m.total = now
  <2>1. total \in [Teams -> Nat] /\ (scores => roster[o].team \in Teams)
    BY <1>1 DEF ScoringTypeOK, Member
  <2>2. now \in [Teams -> Nat]
    BY <2>1, OnePoint
  <2> HIDE DEF now
  <2> QED
    BY <2>2, TeamScoreIs
<1>7. ASSUME NEW j \in DOMAIN told
      PROVE  /\ told[j] \in Copy
             /\ Shows(HeardEach(told[j], outbox'), now, OffHill(i), type, Present, times)
  <2> DEFINE v == told[j]
             a == HeardEach(v, outbox)
  <2>1. v \in Copy /\ Shows(a, total, hill, type, Present, times)
    BY DEF ToldSound
  <2>2. PICK c \in Copy : /\ c = HeardEach(v, ms)
                          /\ c.total = total /\ c.laps = a.laps /\ c.onHill \in {0, OffHill(i)}
    BY <1>1, <2>1, OffHillShown DEF ToldSound, Shows
  <2> HIDE DEF v, a, m, ms, now
  <2>3. CASE scores
    <3>1. HeardEach(v, outbox') = HeardOne(c, m)
      BY <1>2, <1>4, <1>6, <2>1, <2>2, <2>3, ShownMore
    <3>2. /\ HeardOne(c, m).total = now /\ HeardOne(c, m).onHill = c.onHill
          /\ HeardOne(c, m).laps = c.laps
      BY <1>6, <2>2, HeardOneIs
    <3> QED
      BY <2>1, <2>2, <3>1, <3>2 DEF Shows, v
  <2>4. CASE ~scores
    <3>1. HeardEach(v, outbox') = c /\ now = total
      BY <1>2, <1>5, <2>2, <2>4 DEF now
    <3> QED
      BY <2>1, <2>2, <3>1 DEF Shows, v
  <2> QED
    BY <2>3, <2>4
<1> HIDE DEF now
<1> QED
  BY <1>2, <1>3, <1>7 DEF ToldSound

LEMMA TwoMore ==
    ASSUME NEW S, NEW s \in Seq(S), NEW a \in S, NEW b \in S
    PROVE  s \o << a, b >> = (s \o << a >>) \o << b >>
<1> DEFINE n == Len(s)
<1>1. n \in Nat
  BY LenProperties
<1>2. s \o << a, b >> = [k \in 1 .. n + 2 |-> IF k <= n THEN s[k] ELSE << a, b >>[k - n]]
  OBVIOUS
<1>3. /\ s \o << a >> \in Seq(S) /\ Len(s \o << a >>) = n + 1
      /\ \A k \in 1 .. n : (s \o << a >>)[k] = s[k]
      /\ (s \o << a >>)[n + 1] = a
  OBVIOUS
<1> DEFINE r == s \o << a >>
<1> HIDE DEF r
<1>4. r \o << b >> = [k \in 1 .. n + 2 |-> IF k <= n + 1 THEN r[k] ELSE b]
  BY <1>1, <1>3 DEF r
<1>5. \A k \in 1 .. n + 2 : k \in 1 .. n \/ k = n + 1 \/ k = n + 2
  BY <1>1
<1>6. \A k \in 1 .. n + 2 : (IF k <= n THEN s[k] ELSE << a, b >>[k - n])
                              = (IF k <= n + 1 THEN r[k] ELSE b)
  BY <1>1, <1>3, <1>5 DEF r
<1> QED
  BY <1>2, <1>4, <1>6 DEF r

LEMMA ToldByHill ==
    ASSUME ScoreSound, ToldSound,
           NEW zone \in SUBSET {i \in Present : roster[i].mode = "alive"}, HillPass(zone)
    PROVE  ToldSound'
<1>1. ScoringTypeOK /\ zone \subseteq PlayerIds
  BY DEF ScoreSound, ScoringTypeOK
<1>2. type' = type /\ type = "GOH" /\ times' = times /\ told' = told
  BY DEF HillPass
<1>3. outbox \in Seq(Message)
  BY <1>1 DEF ScoringTypeOK
<1>4. ASSUME NEW i \in PlayerIds, NEW n \in Nat
      PROVE  LET m == Note("hill", i, n)
             IN  /\ m \in Message /\ m.cmd = "hill"
                 /\ \A v \in Copy : /\ HeardOne(v, m) \in Copy
                                    /\ HeardOne(v, m).total = v.total
                                    /\ HeardOne(v, m).onHill = IF n = 0 THEN 0 ELSE i
  <2> DEFINE m == Note("hill", i, n)
  <2>1. "hill" \in {"team", "hill", "lap", "record"} /\ i \in {0} \cup PlayerIds
    OBVIOUS
  <2>2. m \in Message /\ m.cmd = "hill" /\ m.id = i /\ m.value = n
    BY <2>1, NoteIs
  <2> HIDE DEF m
  <2>3. \A v \in Copy : /\ HeardOne(v, m) \in Copy
                        /\ HeardOne(v, m).total = v.total
                        /\ HeardOne(v, m).onHill = IF n = 0 THEN 0 ELSE i
    BY <2>2, HeardOneIs
  <2> QED
    BY <2>2, <2>3 DEF m
<1>5. \A j \in DOMAIN told :
          /\ told[j] \in Copy /\ HeardEach(told[j], outbox) \in Copy
          /\ HeardEach(told[j], outbox).total = total
          /\ HeardEach(told[j], outbox).onHill \in {0, hill}
  BY <1>3, HeardEachIs DEF ToldSound, Shows
<1>6. SUFFICES \A j \in DOMAIN told : /\ HeardEach(told[j], outbox').total = total'
                                      /\ HeardEach(told[j], outbox').onHill \in {0, hill'}
  BY <1>2, <1>5 DEF ToldSound, Shows
<1>7. CASE HillIsFree
  <2> DEFINE m == Note("hill", hill, 0)
  <2>1. outbox' = outbox \o << m >> /\ hill' = 0 /\ total' = total /\ hill \in PlayerIds
    BY <1>1, <1>7 DEF HillIsFree, ScoringTypeOK
  <2>2. m \in Message /\ \A v \in Copy : HeardOne(v, m).total = v.total /\ HeardOne(v, m).onHill = 0
    BY <1>4, <2>1
  <2> HIDE DEF m
  <2> QED
    BY <1>3, <1>5, <2>1, <2>2, ShownMore
<1>8. ASSUME NEW i \in PlayerIds, HillIsTaken(i)
      PROVE  \A j \in DOMAIN told : /\ HeardEach(told[j], outbox').total = total'
                                    /\ HeardEach(told[j], outbox').onHill \in {0, hill'}
  <2> DEFINE m == Note("hill", i, HillCounterMax)
  <2>1. outbox' = outbox \o << m >> /\ hill' = i /\ total' = total
    BY <1>8 DEF HillIsTaken
  <2>2. m \in Message /\ \A v \in Copy : HeardOne(v, m).total = v.total /\ HeardOne(v, m).onHill = i
    BY <1>4, ScoreConstants
  <2> HIDE DEF m
  <2> QED
    BY <1>3, <1>5, <2>1, <2>2, ShownMore
<1>9. ASSUME NEW i \in PlayerIds, HillIsHeld(i)
      PROVE  \A j \in DOMAIN told : /\ HeardEach(told[j], outbox').total = total'
                                    /\ HeardEach(told[j], outbox').onHill \in {0, hill'}
  <2> DEFINE n == counter - 1
             m == Note("hill", i, n)
  <2>1. hill = i /\ hill' = hill /\ total' = total /\ (outbox' = outbox \/ outbox' = outbox \o << m >>)
    BY <1>9 DEF HillIsHeld
  <2>2. m \in Message /\ \A v \in Copy : HeardOne(v, m).total = v.total /\ HeardOne(v, m).onHill = i
    <3>1. n \in Nat /\ n # 0
      BY <1>1, <1>9, ScoreConstants DEF HillIsHeld, ScoringTypeOK
    <3> HIDE DEF n
    <3> QED
      BY <1>4, <3>1
  <2> HIDE DEF m
  <2>3. CASE outbox' = outbox
    BY <1>5, <2>1, <2>3
  <2>4. CASE outbox' = outbox \o << m >>
    BY <1>3, <1>5, <2>1, <2>2, <2>4, ShownMore
  <2> QED
    BY <2>1, <2>3, <2>4
<1>10. ASSUME NEW i \in PlayerIds, i \in Present, HillScores(i)
       PROVE  \A j \in DOMAIN told : /\ HeardEach(told[j], outbox').total = total'
                                     /\ HeardEach(told[j], outbox').onHill \in {0, hill'}
  <2> DEFINE m == Note("hill", i, 0)
             e == TeamScore(total')
  <2>1. outbox' = outbox \o << m, e >> /\ hill' = 0
    BY <1>10 DEF HillScores
  <2>2. m \in Message /\ \A v \in Copy : HeardOne(v, m) \in Copy /\ HeardOne(v, m).onHill = 0
    BY <1>4
  <2>3. e \in Message /\ e.cmd = "team" /\ e.total = total'
    <3>1. total \in [Teams -> Nat] /\ roster[i].team \in Teams
      BY <1>1, <1>10 DEF ScoringTypeOK, Member
    <3>2. total' \in [Teams -> Nat]
      BY <1>10, <3>1, OnePoint DEF HillScores
    <3> QED
      BY <3>2, TeamScoreIs
  <2> HIDE DEF m, e
  <2>4. outbox' = (outbox \o << m >>) \o << e >>
    BY <1>3, <2>1, <2>2, <2>3, TwoMore
  <2>5. outbox \o << m >> \in Seq(Message)
    BY <1>3, <2>2, OutboxIs
  <2>6. ASSUME NEW j \in DOMAIN told
        PROVE  /\ HeardEach(told[j], outbox').total = total'
               /\ HeardEach(told[j], outbox').onHill \in {0, hill'}
    <3> DEFINE v == HeardOne(HeardEach(told[j], outbox), m)
    <3>1. v \in Copy /\ v.onHill = 0
      BY <1>5, <2>2
    <3>2. HeardEach(told[j], outbox \o << m >>) = v
      BY <1>3, <1>5, <2>2, ShownMore
    <3> HIDE DEF v
    <3>3. HeardEach(told[j], outbox') = HeardOne(v, e)
      BY <1>5, <2>3, <2>4, <2>5, <3>2, ShownMore
    <3>4. HeardOne(v, e).total = total' /\ HeardOne(v, e).onHill = 0
      BY <2>3, <3>1, HeardOneIs
    <3> QED
      BY <2>1, <3>3, <3>4
  <2> QED
    BY <2>6
<1> QED
  <2>1. CASE zone = {}
    BY <1>7, <2>1 DEF HillPass
  <2>2. CASE zone # {}
    <3>1. PICK i \in Goat(zone) : HillIsTaken(i) \/ HillIsHeld(i) \/ HillScores(i)
      BY <2>2 DEF HillPass
    <3>2. i \in zone /\ i \in PlayerIds /\ i \in Present
      BY <1>1 DEF Goat
    <3> QED
      BY <1>8, <1>9, <1>10, <3>1, <3>2
  <2> QED
    BY <2>1, <2>2

LEMMA ToldByLap ==
    ASSUME ScoreSound, ToldSound, NEW i \in Present, NEW t \in LapTimes, FinishesLap(i, t)
    PROVE  ToldSound'
<1>1. ScoringTypeOK /\ Board /\ i \in PlayerIds /\ outbox \in Seq(Message) /\ times \in Seq(Times)
  BY DEF ScoreSound, ScoringTypeOK
<1> DEFINE cmd == IF times[1].laps = << >> \/ t < Best(times[1].laps) THEN "record" ELSE "lap"
           m == Note(cmd, i, t)
           w == WithLap(i, t)
<1>2. /\ type' = type /\ type = "SR" /\ hill' = hill /\ total' = total /\ told' = told
      /\ Present' = Present /\ times' \in Sorted(w) /\ outbox' = Append(outbox, m)
  BY DEF FinishesLap, WithLap, Present
<1>3. m \in Message /\ m.cmd \in {"lap", "record"} /\ m.id = i /\ m.value = t
  <2>1. cmd \in {"team", "hill", "lap", "record"} /\ cmd \in {"lap", "record"}
    OBVIOUS
  <2> HIDE DEF cmd
  <2>2. i \in {0} \cup PlayerIds /\ t \in Nat
    BY <1>1, ScoreConstants
  <2> QED
    BY <2>1, <2>2, NoteIs
<1> HIDE DEF m
<1>4. /\ w \in Seq(Times) /\ Len(w) = Len(times)
      /\ \A k \in 1 .. Len(times) :
           /\ w[k].id = times[k].id
           /\ w[k].laps = IF times[k].id = i THEN Append(times[k].laps, t) ELSE times[k].laps
  BY <1>1, WithLapIs
<1>5. \A k \in 1 .. Len(times') : \E n \in 1 .. Len(times) : times'[k] = w[n]
  BY <1>2, <1>4, SortedAre
<1>6. \A n \in 1 .. Len(times) : times[n].id \in Present
  BY <1>1, <1>2 DEF Board, Lists
<1> HIDE DEF w
<1>7. ASSUME NEW j \in DOMAIN told
      PROVE  /\ told[j] \in Copy
             /\ Shows(HeardEach(told[j], outbox'), total, hill, type, Present, times')
  <2> DEFINE v == told[j]
             a == HeardEach(v, outbox)
             c == HeardOne(a, m)
  <2>1. v \in Copy /\ Shows(a, total, hill, type, Present, times)
    BY DEF ToldSound
  <2>2. a \in Copy /\ HeardEach(v, outbox') = c
    BY <1>1, <1>2, <1>3, <2>1, ShownMore
  <2> HIDE DEF v, a
  <2>3. /\ c.total = a.total /\ c.onHill = a.onHill /\ DOMAIN c.laps = DOMAIN a.laps
        /\ \A p \in DOMAIN a.laps :
             c.laps[p] = IF p = i THEN Append(a.laps[p], t) ELSE a.laps[p]
    BY <1>3, <2>2, HeardOneIs
  <2> HIDE DEF c
  <2>4. /\ DOMAIN a.laps = Present
        /\ \A k \in 1 .. Len(times) : a.laps[times[k].id] = times[k].laps
    BY <1>2, <2>1 DEF Shows
  <2>5. \A k \in 1 .. Len(times') : c.laps[times'[k].id] = times'[k].laps
    BY <1>4, <1>5, <1>6, <2>3, <2>4
  <2> QED
    BY <2>1, <2>2, <2>3, <2>4, <2>5 DEF Shows, v
<1> QED
  BY <1>2, <1>7 DEF ToldSound

LEMMA ToldBySending ==
    ASSUME ScoreSound, ToldSound, SendAll
    PROVE  ToldSound'
<1>1. outbox \in Seq(Message)
  BY DEF ScoreSound, ScoringTypeOK
<1>2. /\ type' = type /\ hill' = hill /\ total' = total /\ times' = times
      /\ Present' = Present /\ outbox' = << >>
      /\ told' = [j \in DOMAIN told |-> HeardEach(told[j], outbox)]
  BY DEF SendAll, Present
<1>3. ASSUME NEW j \in DOMAIN told'
      PROVE  /\ told'[j] \in Copy
             /\ Shows(HeardEach(told'[j], << >>), total, hill, type, Present, times)
  <2> DEFINE a == HeardEach(told[j], outbox)
  <2>1. j \in DOMAIN told /\ told'[j] = a
    BY <1>2
  <2>2. a \in Copy /\ Shows(a, total, hill, type, Present, times)
    BY <1>1, <2>1, HeardEachIs DEF ToldSound
  <2> HIDE DEF a
  <2>3. HeardEach(a, << >>) = a
    BY <1>1, <2>2, HeardMore
  <2> QED
    BY <2>1, <2>2, <2>3
<1> QED
  BY <1>2, <1>3 DEF ToldSound

LEMMA ToldByNextMatch ==
    ASSUME ScoreSound, ToldSound, NextMatch
    PROVE  ToldSound'
<1> DEFINE l == [i \in Present |-> << >>]
           v == [total |-> NoPoints, counter |-> 0, onHill |-> 0, laps |-> l]
<1>1. /\ total' = NoPoints /\ hill' = 0 /\ Present' = Present /\ outbox' = << >>
      /\ told' = [j \in Present |-> v]
  BY DEF NextMatch, Present
<1>2. l \in Laps /\ DOMAIN l = Present /\ \A p \in Present : l[p] = << >>
  <2>1. DOMAIN l = Present /\ Present \subseteq PlayerIds /\ \A p \in Present : l[p] = << >>
    BY DEF ScoreSound, ScoringTypeOK
  <2>2. << >> \in Seq(Nat)
    OBVIOUS
  <2>3. l \in [DOMAIN l -> Seq(Nat)]
    BY <2>1, <2>2
  <2> HIDE DEF l
  <2> QED
    BY <2>1, <2>3, LapsAre
<1> HIDE DEF l
<1>3. v \in Copy /\ v.total = NoPoints /\ v.onHill = 0 /\ v.laps = l
  BY <1>2, NoPointsIs DEF Copy
<1>4. type' = "SR" => \A k \in 1 .. Len(times') : times'[k].id \in Present /\ times'[k].laps = << >>
  <2> SUFFICES ASSUME type' = "SR", NEW k \in 1 .. Len(times')
               PROVE  times'[k].id \in Present /\ times'[k].laps = << >>
    OBVIOUS
  <2>1. PICK s \in SetToSeqs(Present) : times' = [n \in DOMAIN s |-> NoLaps(s[n])]
    BY DEF NextMatch
  <2> DEFINE size == Cardinality(Present)
  <2>2. size \in Nat /\ Present \subseteq PlayerIds
    BY ScoreConstants, FS_Subset, FS_CardinalityType DEF ScoreSound, ScoringTypeOK
  <2>3. s \in [1 .. size -> Present]
    BY DEF SetToSeqs
  <2> HIDE DEF size
  <2>4. times' = [n \in 1 .. size |-> NoLaps(s[n])] /\ Len(times') = size
    BY <2>1, <2>2, <2>3
  <2>5. s[k] \in Present /\ s[k] \in PlayerIds /\ times'[k] = NoLaps(s[k])
    BY <2>2, <2>3, <2>4
  <2> QED
    BY <2>5, NoLapsIs
<1> HIDE DEF v
<1>5. HeardEach(v, << >>) = v
  BY <1>3, EmptyIs, HeardMore
<1>6. Shows(v, NoPoints, 0, type', Present, times')
  BY <1>2, <1>3, <1>4 DEF Shows
<1> QED
  BY <1>1, <1>3, <1>5, <1>6 DEF ToldSound

LEMMA ToldStep ==
    ASSUME ScoreSound, ToldSound, [ScoringNext]_scoring
    PROVE  ToldSound'
<1>1. ASSUME NEW i \in Present, NEW t \in Teams, AsksToJoin(i, t) PROVE ToldSound'
  BY <1>1 DEF AsksToJoin, ToldSound, Present
<1>2. CASE UNCHANGED scoring
  BY <1>2 DEF scoring, ToldSound, Present
<1> QED
  BY <1>1, <1>2, ToldBySync, ToldByLeaving, ToldByWatching, ToldByDying, ToldByHill, ToldByLap,
     ToldBySending, ToldByNextMatch, Zenon DEF ScoringNext

(* Whenever nothing waits to be sent, each client who was sent everything  *)
(* shows the server's team score, nobody else as the goat and, in a race,  *)
(* the laps of every player; and the server's board lists everybody once.  *)
(* TournamentGOH and TournamentSR keep both only by what they send.        *)
THEOREM BoardCorrect == ScoringSpec => []BoardAgrees
<1>1. ScoringInit => ToldSound
  BY EmptyIs DEF ScoringInit, ToldSound
<1>2. ScoreSound /\ ToldSound /\ [ScoringNext]_scoring => ToldSound'
  BY ToldStep
<1>3. ScoreSound /\ ToldSound => CopiesAgree
  <2> SUFFICES ASSUME ScoreSound, ToldSound, outbox = << >>, NEW j \in DOMAIN told
               PROVE  /\ told[j].total = total
                      /\ told[j].onHill \in {0, hill}
                      /\ type = "SR" => /\ DOMAIN told[j].laps = Present
                                        /\ \A k \in DOMAIN times :
                                             told[j].laps[times[k].id] = times[k].laps
    BY DEF CopiesAgree
  <2>1. told[j] \in Copy /\ Shows(HeardEach(told[j], << >>), total, hill, type, Present, times)
    BY DEF ToldSound
  <2>2. HeardEach(told[j], << >>) = told[j]
    BY <2>1, EmptyIs, HeardMore
  <2>3. DOMAIN times = 1 .. Len(times)
    BY DEF ScoreSound, ScoringTypeOK
  <2> QED
    BY <2>1, <2>2, <2>3 DEF Shows
<1> QED
  BY <1>1, <1>2, <1>3, ScoreSoundCorrect, BoardListsCorrect, PTL DEF ScoringSpec, BoardAgrees

-----------------------------------------------------------------------------
(* Numbers that are free.  *)

LEMMA SmallestIs ==
    ASSUME NEW S \in SUBSET Nat, S # {}
    PROVE  Smallest(S) \in S
<1>1. \E i \in S : \A j \in S : i <= j
  BY LeastExists, Zenon
<1> QED
  BY <1>1, Zenon DEF Smallest

(* Among one more numbers than are in use there is one that is free.  *)
LEMMA FreeIs ==
    ASSUME NEW S, IsFiniteSet(S), NEW a \in Nat, NEW b \in Nat, b - a + 1 > Cardinality(S)
    PROVE  /\ Smallest((a .. b) \ S) \in a .. b
           /\ Smallest((a .. b) \ S) \notin S
<1> DEFINE T == (a .. b) \ S
<1>1. T # {}
  <2> SUFFICES ASSUME T = {} PROVE FALSE
    OBVIOUS
  <2>1. Cardinality(S) \in Nat
    BY FS_CardinalityType
  <2>2. (a .. b) \in SUBSET S /\ Cardinality(a .. b) = b - a + 1
    <3>1. a \in Int /\ b \in Int /\ ~(a > b)
      BY <2>1
    <3>2. Cardinality(a .. b) = b - a + 1
      BY <3>1, FS_Interval
    <3>3. (a .. b) \in SUBSET S
      OBVIOUS
    <3> QED
      BY <3>2, <3>3
  <2>3. Cardinality(a .. b) <= Cardinality(S)
    BY <2>2, FS_Subset
  <2> QED
    BY <2>1, <2>2, <2>3
<1>2. T \in SUBSET Nat
  OBVIOUS
<1> HIDE DEF T
<1>3. Smallest(T) \in T
  BY <1>1, <1>2, SmallestIs
<1> QED
  BY <1>3 DEF T

-----------------------------------------------------------------------------
(* The arena: types.  *)

LEMMA ArenaConstants ==
    /\ IsFiniteSet(Persons) /\ Cardinality(Persons) \in Nat
    /\ MaxHealth \in Nat \ {0} /\ MaxCarried \in Nat \ {0} /\ Damage \in Nat \ {0}
    /\ Duration \in Nat \ {0} /\ ArmorPack \in Nat /\ MaxArmor \in Nat
    /\ \A g \in Games : /\ g.warmup \in BOOLEAN /\ g.preventPick \in BOOLEAN
                        /\ IsFiniteSet(DOMAIN g.map) /\ DOMAIN g.map \subseteq Nat
                        /\ Range(g.map) \subseteq Kinds
BY ArenaAssumption, FS_CardinalityType

(* What happens to a player leaves him a player.  *)
LEMMA PlayersAre ==
    ASSUME NEW p \in Player, game \in Games
    PROVE  /\ Killed(p) \in Player /\ Killed(p).person = p.person /\ Killed(p).synced = p.synced
           /\ Killed(p).mode = "dead"
           /\ Hurt(p) \in Player /\ Hurt(p).person = p.person /\ Hurt(p).synced = p.synced
           /\ Respawned(p) \in Player /\ Respawned(p).person = p.person
           /\ Respawned(p).synced = p.synced
<1>0. /\ p.person \in Persons /\ p.synced \in BOOLEAN /\ p.respawning \in BOOLEAN
      /\ p.mode \in {"spectating", "dead", "alive"} /\ p.health \in 0 .. MaxHealth
      /\ p.armor \in 0 .. MaxArmor /\ p.has \in [Weapons -> 0 .. MaxCarried]
      /\ p = [person |-> p.person, synced |-> p.synced, respawning |-> p.respawning,
              mode |-> p.mode, health |-> p.health, armor |-> p.armor, has |-> p.has]
  BY DEF Player
<1>1. ASSUME NEW q \in Player
      PROVE  /\ Killed(q) \in Player /\ Killed(q).person = q.person
             /\ Killed(q).synced = q.synced /\ Killed(q).mode = "dead"
  <2>1. 0 \in 0 .. MaxHealth /\ "dead" \in {"spectating", "dead", "alive"}
    BY ArenaConstants
  <2> QED
    BY <2>1 DEF Killed, Player
<1>2. Hurt(p) \in Player /\ Hurt(p).person = p.person /\ Hurt(p).synced = p.synced
  <2> DEFINE left == IF game.warmup THEN p.armor ELSE IF Damage >= p.armor THEN 0
                     ELSE p.armor - Damage
             rest == p.health - Through(p.armor)
             a == [p EXCEPT !.armor = left]
             b == [p EXCEPT !.armor = left, !.health = rest]
  <2>1. left \in 0 .. MaxArmor
    BY <1>0, ArenaConstants
  <2>2. Through(p.armor) \in Nat
    <3>1. p.armor \in Nat /\ p.armor \div 2 \in Nat /\ Damage \in Nat /\ Damage \div 2 \in Nat
      BY <1>0, ArenaConstants
    <3> QED
      BY <3>1 DEF Through
  <2>3. ~Dies(p) => rest \in 0 .. MaxHealth
    BY <1>0, <2>2, ArenaConstants DEF Dies
  <2>4. Hurt(p) = IF Dies(p) THEN Killed(a) ELSE b
    BY DEF Hurt
  <2> HIDE DEF left, rest
  <2>5. a \in Player /\ a.person = p.person /\ a.synced = p.synced
    BY <2>1 DEF Player
  <2>6. ~Dies(p) => b \in Player /\ b.person = p.person /\ b.synced = p.synced
    BY <2>1, <2>3 DEF Player
  <2> HIDE DEF a, b
  <2> QED
    BY <1>1, <2>4, <2>5, <2>6
<1>3. Nothing \in [Weapons -> 0 .. MaxCarried]
  BY ArenaConstants DEF Nothing
<1>4. /\ Respawned(p) \in Player /\ Respawned(p).person = p.person
      /\ Respawned(p).synced = p.synced
  <2> DEFINE a == [p EXCEPT !.respawning = FALSE]
             b == [p EXCEPT !.respawning = FALSE, !.mode = "alive", !.health = MaxHealth,
                            !.armor = 0, !.has = Nothing]
  <2>1. MaxHealth \in 0 .. MaxHealth /\ 0 \in 0 .. MaxArmor
    BY ArenaConstants
  <2>2. a \in Player /\ a.person = p.person /\ a.synced = p.synced
    BY DEF Player
  <2> HIDE DEF Nothing
  <2>3. b \in Player /\ b.person = p.person /\ b.synced = p.synced
    BY <1>3, <2>1 DEF Player
  <2>4. Respawned(p) \in {p, a, b}
    BY DEF Respawned
  <2> HIDE DEF a, b
  <2> QED
    BY <2>2, <2>3, <2>4
<1> QED
  BY <1>1, <1>2, <1>4

(* A sequence whose elements change one by one.  *)
LEMMA EachIs ==
    ASSUME NEW S, NEW s \in Seq(S), NEW r, r = [k \in DOMAIN s |-> r[k]],
           \A k \in 1 .. Len(s) : r[k] \in S
    PROVE  r \in Seq(S) /\ Len(r) = Len(s) /\ DOMAIN r = 1 .. Len(s)
<1>1. DOMAIN s = 1 .. Len(s) /\ Len(s) \in Nat
  BY LenProperties
<1>2. r \in [1 .. Len(s) -> S]
  BY <1>1
<1> QED
  BY <1>1, <1>2

LEMMA AnimsAre ==
    ASSUME NEW a \in Anim
    PROVE  /\ a.owner \in Nat /\ a.by \in Persons /\ a.duration \in 0 .. Duration
           /\ [a EXCEPT !.owner = 0] \in Anim
           /\ [a EXCEPT !.duration = 0] \in Anim
           /\ [a EXCEPT !.delete_me = TRUE] \in Anim
           /\ [a EXCEPT !.duration = 0, !.delete_me = TRUE] \in Anim
           /\ a.duration > 1 => [a EXCEPT !.duration = @ - 1] \in Anim
<1>1. 0 \in 0 .. Duration /\ Duration \in Nat
  BY ArenaConstants
<1>2. a.duration \in 0 .. Duration
  BY DEF Anim
<1> DEFINE d == a.duration - 1
<1>3. a.duration > 1 => d \in 0 .. Duration
  BY <1>1, <1>2
<1> HIDE DEF d
<1>4. a.duration > 1 => [a EXCEPT !.duration = d] \in Anim
  BY <1>3 DEF Anim
<1> QED
  BY <1>1, <1>4 DEF Anim, d

LEMMA DisownedAre ==
    ASSUME anims \in Seq(Anim), NEW i
    PROVE  /\ Disowned(anims, i) \in Seq(Anim) /\ DOMAIN Disowned(anims, i) = 1 .. Len(anims)
           /\ \A k \in 1 .. Len(anims) :
                /\ Disowned(anims, i)[k].by = anims[k].by
                /\ Disowned(anims, i)[k].owner = IF anims[k].owner = i THEN 0 ELSE anims[k].owner
<1> DEFINE r == Disowned(anims, i)
<1>1. DOMAIN anims = 1 .. Len(anims)
  BY LenProperties
<1>2. \A k \in 1 .. Len(anims) :
         r[k] = IF anims[k].owner = i THEN [anims[k] EXCEPT !.owner = 0] ELSE anims[k]
  BY <1>1 DEF Disowned
<1>3. r = [k \in DOMAIN anims |-> r[k]]
  BY DEF Disowned
<1> HIDE DEF r
<1>4. ASSUME NEW k \in 1 .. Len(anims)
      PROVE  /\ r[k] \in Anim /\ r[k].by = anims[k].by
             /\ r[k].owner = IF anims[k].owner = i THEN 0 ELSE anims[k].owner
  <2>1. anims[k] \in Anim
    BY <1>1, ElementOfSeq
  <2>2. /\ [anims[k] EXCEPT !.owner = 0] \in Anim /\ [anims[k] EXCEPT !.owner = 0].owner = 0
        /\ [anims[k] EXCEPT !.owner = 0].by = anims[k].by
    BY <2>1, AnimsAre DEF Anim
  <2> QED
    BY <1>2, <2>1, <2>2
<1> QED
  BY <1>3, <1>4, EachIs DEF r

(* Shots and bombs fly, lie and explode, and are finished: whose they are  *)
(* does not change.                                                        *)
SameOwners(as) ==
    /\ as \in Seq(Anim) /\ Len(as) = Len(anims)
    /\ \A k \in 1 .. Len(anims) : as[k].owner = anims[k].owner /\ as[k].by = anims[k].by

LEMMA ShotsAre ==
    ASSUME anims \in Seq(Anim), NEW k \in 1 .. Len(anims),
           ShotFlies(k) \/ BombLies(k) \/ BombExplodes(k)
    PROVE  SameOwners(anims')
<1>1. DOMAIN anims = 1 .. Len(anims) /\ \A b \in 1 .. Len(anims) : anims[b] \in Anim
  BY LenProperties, ElementOfSeq
<1>2. anims' = [b \in DOMAIN anims |-> anims'[b]]
  BY DEF ShotFlies, BombLies, BombExplodes
<1> DEFINE May(b) == {anims[b], [anims[b] EXCEPT !.duration = 0],
                      [anims[b] EXCEPT !.delete_me = TRUE],
                      [anims[b] EXCEPT !.duration = 0, !.delete_me = TRUE]}
                     \cup (IF anims[b].duration > 1
                           THEN {[anims[b] EXCEPT !.duration = @ - 1]} ELSE {})
<1>3. ASSUME NEW b \in 1 .. Len(anims) PROVE anims'[b] \in May(b)
  <2>1. CASE ShotFlies(k)
    BY <1>1, <2>1 DEF ShotFlies
  <2>2. CASE BombLies(k)
    BY <1>1, <2>2 DEF BombLies
  <2>3. CASE BombExplodes(k)
    BY <1>1, <2>3 DEF BombExplodes
  <2> QED
    BY <2>1, <2>2, <2>3
<1>4. ASSUME NEW b \in 1 .. Len(anims)
      PROVE  /\ anims'[b] \in Anim /\ anims'[b].owner = anims[b].owner
             /\ anims'[b].by = anims[b].by
  <2> DEFINE a == anims[b]
  <2>1. a \in Anim
    BY <1>1
  <2>2. May(b) = {a, [a EXCEPT !.duration = 0], [a EXCEPT !.delete_me = TRUE],
                  [a EXCEPT !.duration = 0, !.delete_me = TRUE]}
                 \cup (IF a.duration > 1 THEN {[a EXCEPT !.duration = @ - 1]} ELSE {})
    OBVIOUS
  <2>3. anims'[b] \in May(b)
    BY <1>3
  <2> HIDE DEF a, May
  <2>4. ASSUME NEW c \in May(b) PROVE c \in Anim /\ c.owner = a.owner /\ c.by = a.by
    <3>1. CASE c \in {a, [a EXCEPT !.duration = 0], [a EXCEPT !.delete_me = TRUE],
                      [a EXCEPT !.duration = 0, !.delete_me = TRUE]}
      <4>1. CASE c = a
        BY <2>1, <4>1
      <4>2. CASE c = [a EXCEPT !.duration = 0]
        BY <2>1, <4>2, AnimsAre DEF Anim
      <4>3. CASE c = [a EXCEPT !.delete_me = TRUE]
        BY <2>1, <4>3, AnimsAre DEF Anim
      <4>4. CASE c = [a EXCEPT !.duration = 0, !.delete_me = TRUE]
        BY <2>1, <4>4, AnimsAre DEF Anim
      <4> QED
        BY <3>1, <4>1, <4>2, <4>3, <4>4
    <3>2. CASE a.duration > 1 /\ c = [a EXCEPT !.duration = @ - 1]
      BY <2>1, <3>2, AnimsAre DEF Anim
    <3> QED
      BY <2>2, <3>1, <3>2
  <2> QED
    BY <2>3, <2>4 DEF a
<1> QED
  BY <1>2, <1>4, EachIs DEF SameOwners

-----------------------------------------------------------------------------
(* The NPCs that are hit.  *)

LEMMA NpcsAre ==
    ASSUME NEW n \in Npc
    PROVE  /\ n.id \in Nat /\ n.init_owner \in Nat /\ n.delete_me \in BOOLEAN
           /\ [n EXCEPT !.delete_me = TRUE] \in Npc
           /\ [n EXCEPT !.delete_me = TRUE].id = n.id
           /\ [n EXCEPT !.delete_me = TRUE].delete_me = TRUE
           /\ \A o \in {n.init_owner, 0}, b \in BOOLEAN :
                /\ [n EXCEPT !.init_owner = o, !.delete_me = b] \in Npc
                /\ [n EXCEPT !.init_owner = o, !.delete_me = b].id = n.id
                /\ [n EXCEPT !.init_owner = o, !.delete_me = b].delete_me = b
<1>1. n.id \in Nat /\ n.init_owner \in Nat /\ n.delete_me \in BOOLEAN
  BY DEF Npc
<1>2. /\ [n EXCEPT !.delete_me = TRUE] \in Npc
      /\ [n EXCEPT !.delete_me = TRUE].id = n.id
      /\ [n EXCEPT !.delete_me = TRUE].delete_me = TRUE
  BY DEF Npc
<1>3. ASSUME NEW o \in {n.init_owner, 0}, NEW b \in BOOLEAN
      PROVE  /\ [n EXCEPT !.init_owner = o, !.delete_me = b] \in Npc
             /\ [n EXCEPT !.init_owner = o, !.delete_me = b].id = n.id
             /\ [n EXCEPT !.init_owner = o, !.delete_me = b].delete_me = b
  <2>1. o \in Nat
    BY <1>1
  <2> QED
    BY <2>1 DEF Npc
<1> QED
  BY <1>1, <1>2, <1>3

LEMMA MarkedAre ==
    ASSUME NEW ns \in Seq(Npc), NEW K \in SUBSET DOMAIN ns
    PROVE  /\ Marked(ns, K) \in Seq(Npc) /\ Len(Marked(ns, K)) = Len(ns)
           /\ \A k \in 1 .. Len(ns) :
                /\ Marked(ns, K)[k].id = ns[k].id
                /\ Marked(ns, K)[k].delete_me <=> k \in K \/ ns[k].delete_me
<1> DEFINE r == Marked(ns, K)
<1>1. DOMAIN ns = 1 .. Len(ns)
  BY LenProperties
<1>2. \A k \in 1 .. Len(ns) : r[k] = IF k \in K THEN [ns[k] EXCEPT !.delete_me = TRUE] ELSE ns[k]
  BY <1>1 DEF Marked
<1>3. r = [k \in DOMAIN ns |-> r[k]]
  BY DEF Marked
<1> HIDE DEF r
<1>4. ASSUME NEW k \in 1 .. Len(ns)
      PROVE  r[k] \in Npc /\ r[k].id = ns[k].id /\ (r[k].delete_me <=> k \in K \/ ns[k].delete_me)
  <2> DEFINE n == ns[k]
             m == [n EXCEPT !.delete_me = TRUE]
  <2>1. n \in Npc
    BY <1>1, ElementOfSeq
  <2>2. n.delete_me \in BOOLEAN /\ m \in Npc /\ m.id = n.id /\ m.delete_me = TRUE
    BY <2>1, NpcsAre
  <2>3. r[k] = IF k \in K THEN m ELSE n
    BY <1>2
  <2> HIDE DEF m, n
  <2>4. CASE k \in K
    BY <2>2, <2>3, <2>4 DEF n
  <2>5. CASE k \notin K
    BY <2>1, <2>2, <2>3, <2>5 DEF n
  <2> QED
    BY <2>4, <2>5
<1> QED
  BY <1>3, <1>4, EachIs DEF r

LEMMA RemovedAre ==
    ASSUME NEW ns \in Seq(Npc)
    PROVE  /\ RemoveMarked(ns) \in Seq(Npc)
           /\ \A n \in 1 .. Len(RemoveMarked(ns)) : \E k \in 1 .. Len(ns) :
                RemoveMarked(ns)[n] = ns[k] /\ ~ns[k].delete_me
           /\ \A k \in 1 .. Len(ns) : ~ns[k].delete_me =>
                \E n \in 1 .. Len(RemoveMarked(ns)) : RemoveMarked(ns)[n] = ns[k]
           /\ (\A j, k \in 1 .. Len(ns) : ns[j].id = ns[k].id => j = k) =>
                \A m, n \in 1 .. Len(RemoveMarked(ns)) :
                   RemoveMarked(ns)[m].id = RemoveMarked(ns)[n].id => m = n
<1> DEFINE K == {k \in DOMAIN ns : ~ns[k].delete_me}
           r == RemoveMarked(ns)
<1>1. DOMAIN ns = 1 .. Len(ns)
  BY LenProperties
<1>2. r = Only(ns, K) /\ K \in SUBSET DOMAIN ns
  BY DEF RemoveMarked
<1>3. \A k : k \in K <=> k \in 1 .. Len(ns) /\ ~ns[k].delete_me
  BY <1>1
<1> HIDE DEF K, r
<1>4. /\ r \in Seq(Npc) /\ Len(r) = Cardinality(K)
      /\ \A n \in 1 .. Cardinality(K) : r[n] = ns[NthOf(K, n)] /\ NthOf(K, n) \in K
      /\ \A m, n \in 1 .. Cardinality(K) : m # n => NthOf(K, m) # NthOf(K, n)
      /\ \A k \in K : \E n \in 1 .. Cardinality(K) : NthOf(K, n) = k
  BY <1>2, OnlyIs
<1>5. \A n \in 1 .. Len(r) : \E k \in 1 .. Len(ns) : r[n] = ns[k] /\ ~ns[k].delete_me
  BY <1>3, <1>4
<1>6. \A k \in 1 .. Len(ns) : ~ns[k].delete_me => \E n \in 1 .. Len(r) : r[n] = ns[k]
  BY <1>3, <1>4
<1>7. ASSUME \A j, k \in 1 .. Len(ns) : ns[j].id = ns[k].id => j = k,
             NEW m \in 1 .. Len(r), NEW n \in 1 .. Len(r), r[m].id = r[n].id
      PROVE  m = n
  <2> DEFINE a == NthOf(K, m)
             b == NthOf(K, n)
  <2>1. r[m] = ns[a] /\ r[n] = ns[b] /\ a \in K /\ b \in K /\ (m # n => a # b)
    BY <1>4
  <2> HIDE DEF a, b
  <2> QED
    BY <1>3, <1>7, <2>1
<1> QED
  BY <1>4, <1>5, <1>6, <1>7 DEF r

(* What is announced of the NPCs that are hit.  *)
LEMMA AnnouncedAre ==
    ASSUME npcs \in Seq(Npc), NEW K \in SUBSET DOMAIN npcs
    PROVE  /\ Announced(K) \in Seq(Response) /\ Len(Announced(K)) = Cardinality(K)
           /\ Cardinality(K) \in Nat
           /\ \A n \in 1 .. Cardinality(K) : /\ Announced(K)[n].cmd = "RemoveNPC"
                                             /\ NthOf(K, n) \in K
                                             /\ Announced(K)[n].id = npcs[NthOf(K, n)].id
           /\ \A k \in K : \E n \in 1 .. Cardinality(K) : NthOf(K, n) = k
<1> DEFINE c == Cardinality(K)
<1>1. DOMAIN npcs = 1 .. Len(npcs) /\ \A k \in 1 .. Len(npcs) : npcs[k] \in Npc
  BY LenProperties, ElementOfSeq
<1>2. /\ c \in Nat /\ \A n \in 1 .. c : NthOf(K, n) \in K
      /\ \A k \in K : \E n \in 1 .. c : NthOf(K, n) = k
  BY OnlyIs
<1>3. Announced(K) = [n \in 1 .. c |-> Say("RemoveNPC", npcs[NthOf(K, n)].id)]
  BY DEF Announced
<1> HIDE DEF c
<1>4. ASSUME NEW n \in 1 .. c
      PROVE  /\ Announced(K)[n] \in Response /\ Announced(K)[n].cmd = "RemoveNPC"
             /\ Announced(K)[n].id = npcs[NthOf(K, n)].id
  <2> DEFINE d == npcs[NthOf(K, n)].id
  <2>1. d \in Nat
    BY <1>1, <1>2, NpcsAre
  <2>2. Announced(K)[n] = Say("RemoveNPC", d)
    BY <1>3
  <2> HIDE DEF d
  <2>3. /\ Say("RemoveNPC", d) \in Response /\ Say("RemoveNPC", d).cmd = "RemoveNPC"
        /\ Say("RemoveNPC", d).id = d
    BY <2>1 DEF Say, Response
  <2> QED
    BY <2>2, <2>3 DEF d
<1>5. Announced(K) = [n \in 1 .. c |-> Announced(K)[n]]
  BY <1>3
<1>6. Announced(K) \in Seq(Response) /\ Len(Announced(K)) = c
  BY <1>2, <1>4, <1>5
<1> QED
  BY <1>2, <1>4, <1>6 DEF c

LEMMA PickedIs ==
    ASSUME NEW p \in Player, NEW kind \in Kinds
    PROVE  /\ Picked(p, kind) \in Player /\ Picked(p, kind).person = p.person
           /\ Picked(p, kind).synced = p.synced /\ Picked(p, kind).mode = p.mode
<1>0. p.armor \in Nat /\ p.armor \in 0 .. MaxArmor /\ p.has \in [Weapons -> 0 .. MaxCarried]
  BY ArenaConstants DEF Player
<1>1. CASE kind = "medikit"
  <2>1. MaxHealth \in 0 .. MaxHealth
    BY ArenaConstants
  <2>2. Picked(p, kind) = [p EXCEPT !.health = MaxHealth]
    BY <1>1 DEF Picked
  <2> QED
    BY <2>1, <2>2 DEF Player
<1>2. CASE kind = "armor"
  <2> DEFINE a == AtMost(p.armor + ArmorPack, MaxArmor)
  <2>1. a \in 0 .. MaxArmor
    BY <1>0, ArenaConstants DEF AtMost
  <2>2. Picked(p, kind) = [p EXCEPT !.armor = a]
    BY <1>2 DEF Picked
  <2> HIDE DEF a
  <2> QED
    BY <2>1, <2>2 DEF Player
<1>3. CASE kind \in Weapons
  <2> DEFINE n == AtMost(p.has[kind] + 1, MaxCarried)
             h == [p.has EXCEPT ![kind] = n]
  <2>1. p.has[kind] \in 0 .. MaxCarried
    BY <1>0, <1>3
  <2>2. n \in 0 .. MaxCarried
    BY <2>1, ArenaConstants DEF AtMost
  <2>3. kind # "medikit" /\ kind # "armor"
    BY <1>3 DEF Weapons
  <2>4. Picked(p, kind) = [p EXCEPT !.has = h]
    BY <2>3 DEF Picked
  <2> HIDE DEF n
  <2>5. h \in [Weapons -> 0 .. MaxCarried]
    BY <1>0, <2>2
  <2> HIDE DEF h
  <2> QED
    BY <2>4, <2>5 DEF Player
<1> QED
  BY <1>1, <1>2, <1>3 DEF Kinds

-----------------------------------------------------------------------------
(* Who sits where.  *)

SeatsSound ==
    /\ game \in Games /\ Ids \subseteq 1 .. Cardinality(Persons)
    /\ \A i \in Ids : seats[i] \in Player
    /\ \A i, j \in Ids : seats[i].person = seats[j].person => i = j

ObjectsTyped ==
    /\ DOMAIN objects \subseteq Nat /\ IsFiniteSet(DOMAIN objects)
    /\ \A o \in DOMAIN objects : objects[o] \in Object

(* All keep their seats, and stay synchronised.  *)
SameSeats ==
    /\ Ids' = Ids
    /\ \A j \in Ids : /\ seats'[j] \in Player /\ seats'[j].person = seats[j].person
                      /\ seats[j].synced => seats'[j].synced

LEMMA OneSeat ==
    ASSUME SeatsSound, NEW i \in Ids, NEW p \in Player, seats' = [seats EXCEPT ![i] = p],
           p.person = seats[i].person, seats[i].synced => p.synced
    PROVE  SameSeats
BY DEF SeatsSound, SameSeats, Ids

LEMMA HitSeats ==
    ASSUME SeatsSound, NEW H, Hit(H)
    PROVE  SameSeats
BY PlayersAre DEF SeatsSound, SameSeats, Hit, Ids

(* A person who comes is given an identifier that nobody has.  *)
LEMMA LoginSeats ==
    ASSUME SeatsSound, NEW person \in Persons, Login(person)
    PROVE  \E i : /\ i \notin Ids /\ Ids' = Ids \cup {i} /\ SeatsSound'
                  /\ \A j \in Ids : seats'[j] = seats[j]
<1> DEFINE n == Cardinality(Ids)
           i == Smallest((1 .. n + 1) \ Ids)
           p == [person |-> person, synced |-> FALSE, respawning |-> FALSE,
                 mode |-> "spectating", health |-> MaxHealth, armor |-> 0, has |-> Nothing]
<1>1. IsFiniteSet(Ids) /\ n \in Nat
  <2>1. IsFiniteSet(1 .. Cardinality(Persons))
    BY ArenaConstants, FS_Interval
  <2> QED
    BY <2>1, FS_Subset, FS_CardinalityType DEF SeatsSound
<1>2. i \in 1 .. n + 1 /\ i \notin Ids
  <2>1. n + 1 - 1 + 1 > Cardinality(Ids) /\ n + 1 \in Nat /\ 1 \in Nat
    BY <1>1
  <2> HIDE DEF n
  <2> QED
    BY <1>1, <2>1, FreeIs
<1>3. n + 1 <= Cardinality(Persons)
  <2> DEFINE f == [j \in Ids |-> seats[j].person]
             rest == Persons \ {person}
  <2>1. \A j \in Ids : seats[j].person \in rest
    BY DEF SeatsSound, Login, Player
  <2>2. f \in Injection(Ids, rest)
    <3>1. f \in [Ids -> rest]
      BY <2>1
    <3>2. \A a, b \in Ids : f[a] = f[b] => a = b
      BY DEF SeatsSound
    <3> HIDE DEF f
    <3> QED
      BY <3>1, <3>2 DEF Injection, IsInjective
  <2>3. IsFiniteSet(rest) /\ Cardinality(rest) = Cardinality(Persons) - 1
    BY ArenaConstants, FS_RemoveElement
  <2>4. n <= Cardinality(rest)
    BY <2>2, <2>3, FS_Injection
  <2> QED
    BY <1>1, <2>3, <2>4, ArenaConstants
<1>4. seats' = [j \in Ids \cup {i} |-> IF j = i THEN p ELSE seats[j]]
  BY DEF Login
<1>5. p \in Player /\ p.person = person
  <2>1. Nothing \in [Weapons -> 0 .. MaxCarried]
    BY ArenaConstants DEF Nothing
  <2>2. MaxHealth \in 0 .. MaxHealth /\ 0 \in 0 .. MaxArmor
    BY ArenaConstants
  <2> HIDE DEF Nothing
  <2> QED
    BY <2>1, <2>2 DEF Player
<1>6. i \in 1 .. Cardinality(Persons)
  BY <1>1, <1>2, <1>3, ArenaConstants
<1>7. game' = game /\ \A j \in Ids : seats[j].person # person
  BY DEF Login
<1> HIDE DEF i, n, p
<1>8. /\ Ids' = Ids \cup {i} /\ seats'[i] = p
      /\ \A j \in Ids : seats'[j] = seats[j]
  BY <1>2, <1>4 DEF Ids
<1>9. SeatsSound'
  <2>1. game' \in Games /\ Ids' \subseteq 1 .. Cardinality(Persons)
    BY <1>6, <1>7, <1>8 DEF SeatsSound
  <2>2. \A j \in Ids' : seats'[j] \in Player
    BY <1>5, <1>8 DEF SeatsSound
  <2>3. ASSUME NEW j \in Ids', NEW k \in Ids', seats'[j].person = seats'[k].person
        PROVE  j = k
    <3>1. CASE j \in Ids /\ k \in Ids
      BY <1>8, <2>3, <3>1 DEF SeatsSound
    <3>2. CASE j = i \/ k = i
      BY <1>5, <1>7, <1>8, <2>3, <3>2
    <3> QED
      BY <1>8, <3>1, <3>2
  <2> QED
    BY <2>1, <2>2, <2>3 DEF SeatsSound
<1> QED
  BY <1>2, <1>8, <1>9

LEMMA LogoutSeats ==
    ASSUME SeatsSound, NEW i \in Ids, Logout(i)
    PROVE  /\ Ids' = Ids \ {i} /\ SeatsSound'
           /\ \A j \in Ids \ {i} : seats'[j] = seats[j]
<1>1. seats' = [j \in Ids \ {i} |-> seats[j]] /\ game' = game
  BY DEF Logout
<1>2. Ids' = Ids \ {i} /\ \A j \in Ids \ {i} : seats'[j] = seats[j]
  BY <1>1 DEF Ids
<1> QED
  BY <1>1, <1>2 DEF SeatsSound

LEMMA HandlersSeats ==
    ASSUME SeatsSound, NEW i \in Ids,
           \/ Sync(i) \/ Spectate(i) \/ AskToPlay(i) \/ FireFrog(i)
           \/ \E w \in {"shot", "bomb"} : FireAnimation(i, w)
    PROVE  SameSeats
<1> DEFINE p == seats[i]
<1>1. p \in Player
  BY DEF SeatsSound
<1>2. CASE Sync(i)
  <2> DEFINE q == [p EXCEPT !.synced = TRUE]
  <2>1. seats' = [seats EXCEPT ![i] = q]
    BY <1>2 DEF Sync
  <2> HIDE DEF p
  <2>2. q \in Player /\ q.person = p.person /\ q.synced
    BY <1>1 DEF Player
  <2> HIDE DEF q
  <2> QED
    BY <2>1, <2>2, OneSeat DEF p
<1>3. CASE Spectate(i)
  <2> DEFINE q == [p EXCEPT !.mode = "spectating", !.health = MaxHealth, !.armor = 0,
                            !.has = Nothing]
  <2>1. seats' = [seats EXCEPT ![i] = q]
    BY <1>3 DEF Spectate
  <2>2. Nothing \in [Weapons -> 0 .. MaxCarried]
    BY ArenaConstants DEF Nothing
  <2>3. MaxHealth \in 0 .. MaxHealth /\ 0 \in 0 .. MaxArmor
    BY ArenaConstants
  <2> HIDE DEF p, Nothing
  <2>4. q \in Player /\ q.person = p.person /\ q.synced = p.synced
    BY <1>1, <2>2, <2>3 DEF Player
  <2> HIDE DEF q
  <2> QED
    BY <2>1, <2>4, OneSeat DEF p
<1>4. CASE AskToPlay(i)
  <2> DEFINE q == [p EXCEPT !.respawning = TRUE]
  <2>1. seats' = [seats EXCEPT ![i] = q]
    BY <1>4 DEF AskToPlay
  <2> HIDE DEF p
  <2>2. q \in Player /\ q.person = p.person /\ q.synced = p.synced
    BY <1>1 DEF Player
  <2> HIDE DEF q
  <2> QED
    BY <2>1, <2>2, OneSeat DEF p
<1>5. ASSUME NEW w \in Weapons, Fires(i, w) PROVE SameSeats
  <2> DEFINE h == [p.has EXCEPT ![w] = @ - 1]
             q == [p EXCEPT !.has = h]
  <2>1. seats' = [seats EXCEPT ![i] = q] /\ p.has[w] > 0
    BY <1>5 DEF Fires
  <2> HIDE DEF p
  <2>2. h \in [Weapons -> 0 .. MaxCarried]
    <3>1. p.has \in [Weapons -> 0 .. MaxCarried] /\ MaxCarried \in Nat
      BY <1>1, ArenaConstants DEF Player
    <3>2. p.has[w] \in 0 .. MaxCarried /\ p.has[w] - 1 \in 0 .. MaxCarried
      BY <2>1, <3>1
    <3> QED
      BY <3>1, <3>2
  <2> HIDE DEF h
  <2>3. q \in Player /\ q.person = p.person /\ q.synced = p.synced
    BY <1>1, <2>2 DEF Player
  <2> HIDE DEF q
  <2> QED
    BY <2>1, <2>3, OneSeat DEF p
<1> QED
  BY <1>2, <1>3, <1>4, <1>5 DEF FireFrog, FireAnimation, Weapons

LEMMA PassSeats ==
    ASSUME SeatsSound, ObjectsTyped, Pass
    PROVE  SameSeats
<1>0. \A i \in Ids : seats[i] \in Player
  BY DEF SeatsSound
<1>1. CASE seats' = seats
  BY <1>0, <1>1 DEF SameSeats, Ids
<1>2. CASE AnimStep
  BY <1>1, <1>2, HitSeats DEF AnimStep, ShotFlies, BombLies, BombExplodes
<1>3. CASE StartPass \/ AnimsDone \/ SpawnFrog \/ NpcStep \/ NpcsDone
  BY <1>1, <1>3 DEF StartPass, AnimsDone, SpawnFrog, NpcStep, NpcsDone
<1>4. CASE Broadcast
  <2>1. seats' = [i \in Ids |-> Respawned(seats[i])]
    BY <1>4 DEF Broadcast
  <2>2. Ids' = Ids /\ \A i \in Ids : seats'[i] = Respawned(seats[i])
    BY <2>1 DEF Ids
  <2> QED
    BY <1>0, <2>2, PlayersAre DEF SameSeats, SeatsSound
<1>5. ASSUME NEW i \in Ids, PlayerMoves(i) PROVE SameSeats
  <2> DEFINE p == seats[i]
             h == IF game.warmup THEN Full ELSE p.has
             a == IF game.warmup THEN MaxArmor ELSE p.armor
             ready == [p EXCEPT !.has = h, !.armor = a]
  <2>1. p \in Player
    BY <1>0
  <2>2. \E q \in {ready, IF ready.mode = "alive" THEN Killed(ready) ELSE ready} :
           seats' = [seats EXCEPT ![i] = q]
    BY <1>5 DEF PlayerMoves
  <2>3. h \in [Weapons -> 0 .. MaxCarried] /\ a \in 0 .. MaxArmor
    BY <2>1, ArenaConstants DEF Player, Full
  <2> HIDE DEF h, a, p
  <2>4. ready \in Player /\ ready.person = p.person /\ ready.synced = p.synced
    BY <2>1, <2>3 DEF Player
  <2> HIDE DEF ready
  <2>5. /\ Killed(ready) \in Player /\ Killed(ready).person = p.person
        /\ Killed(ready).synced = p.synced
    BY <2>4, PlayersAre DEF SeatsSound
  <2> QED
    BY <2>2, <2>4, <2>5, OneSeat DEF p
<1>6. ASSUME NEW i \in Ids, NEW o \in DOMAIN objects, PlayerPicks(i, o) PROVE SameSeats
  <2> DEFINE q == Picked(seats[i], objects[o].kind)
  <2>1. objects[o].kind \in Kinds /\ seats[i] \in Player
    BY <1>0 DEF ObjectsTyped, Object
  <2>2. seats' = [seats EXCEPT ![i] = q]
    BY <1>6 DEF PlayerPicks
  <2>3. q \in Player /\ q.person = seats[i].person /\ q.synced = seats[i].synced
    BY <2>1, PickedIs
  <2> HIDE DEF q
  <2> QED
    BY <2>2, <2>3, OneSeat
<1>7. ASSUME NEW i \in Ids, PicksDone(i) PROVE SameSeats
  BY <1>1, <1>7 DEF PicksDone
<1>8. ASSUME NEW i \in Ids, PlayerCollides(i) PROVE SameSeats
  BY <1>1, <1>8, HitSeats DEF PlayerCollides
<1>9. ASSUME NEW i \in Ids, CollideDone(i) PROVE SameSeats
  <2>1. seats' = seats \/ seats' = [seats EXCEPT ![i] = Killed(seats[i])]
    BY <1>9 DEF CollideDone
  <2>2. /\ Killed(seats[i]) \in Player /\ Killed(seats[i]).person = seats[i].person
        /\ Killed(seats[i]).synced = seats[i].synced
    BY <1>0, PlayersAre DEF SeatsSound
  <2> QED
    BY <1>1, <2>1, <2>2, OneSeat
<1> QED
  BY <1>2, <1>3, <1>4, <1>5, <1>6, <1>7, <1>8, <1>9, Zenon DEF Pass

-----------------------------------------------------------------------------
(* What flies, walks and lies, and what is said of it.  *)

ThingsTyped ==
    /\ anims \in Seq(Anim) /\ npcs \in Seq(Npc) /\ ObjectsTyped
    /\ responses \in Seq(Response) /\ phase \in Walk

LEMMA SayIs ==
    ASSUME NEW c \in {"SpawnNPC", "RemoveNPC", "PlaceObject", "PickObject", "SpawnObject"},
           NEW i \in Nat
    PROVE  Say(c, i) \in Response /\ Say(c, i).cmd = c /\ Say(c, i).id = i
BY DEF Say, Response

LEMMA WalksAre ==
    /\ \A w, n \in Nat : \A a \in {"handlers", "anims", "frog", "npcs", "players", "picks",
                                   "collide", "send"} :
         At(a, w, n) \in Walk /\ At(a, w, n).at = a /\ At(a, w, n).who = w /\ At(a, w, n).next = n
    /\ SeatsSound => \A i : NextPlayer(i) \in Walk /\ NextPlayer(i).at \in {"send", "players"}
<1>1. \A w, n \in Nat : \A a \in {"handlers", "anims", "frog", "npcs", "players", "picks",
                                  "collide", "send"} :
         At(a, w, n) \in Walk /\ At(a, w, n).at = a /\ At(a, w, n).who = w /\ At(a, w, n).next = n
  BY DEF At, Walk
<1>2. ASSUME SeatsSound, NEW i
      PROVE  NextPlayer(i) \in Walk /\ NextPlayer(i).at \in {"send", "players"}
  <2>1. After(i) \in SUBSET Nat
    <3>1. \A j \in Ids : j \in Nat
      BY <1>2, ArenaConstants DEF SeatsSound
    <3> QED
      BY <3>1 DEF After
  <2>2. After(i) # {} => Smallest(After(i)) \in Nat
    BY <2>1, SmallestIs
  <2>3. 0 \in Nat
    OBVIOUS
  <2>4. At("send", 0, 0) \in Walk /\ At("send", 0, 0).at = "send"
    BY <1>1, <2>3
  <2>5. After(i) # {} => /\ At("players", Smallest(After(i)), 0) \in Walk
                         /\ At("players", Smallest(After(i)), 0).at = "players"
    BY <1>1, <2>2, <2>3
  <2> QED
    BY <2>4, <2>5 DEF NextPlayer
<1> QED
  BY <1>1, <1>2

LEMMA FreeNpcIs ==
    ASSUME npcs \in Seq(Npc)
    PROVE  FreeNpcId \in Nat /\ \A k \in 1 .. Len(npcs) : npcs[k].id # FreeNpcId
<1> DEFINE S == {npcs[k].id : k \in DOMAIN npcs}
           f == [k \in 1 .. Len(npcs) |-> npcs[k].id]
<1>1. Len(npcs) \in Nat /\ DOMAIN npcs = 1 .. Len(npcs)
  BY LenProperties
<1>2. IsFiniteSet(S) /\ Cardinality(S) <= Len(npcs) /\ Cardinality(S) \in Nat
  <2>1. f \in Surjection(1 .. Len(npcs), S)
    BY <1>1 DEF Surjection
  <2>2. IsFiniteSet(1 .. Len(npcs)) /\ Cardinality(1 .. Len(npcs)) = Len(npcs)
    <3>1. 1 \in Int /\ Len(npcs) \in Int
      BY <1>1
    <3>2. /\ IsFiniteSet(1 .. Len(npcs))
          /\ Cardinality(1 .. Len(npcs)) = IF 1 > Len(npcs) THEN 0 ELSE Len(npcs) - 1 + 1
      BY <3>1, FS_Interval, Zenon
    <3> QED
      BY <1>1, <3>2
  <2> HIDE DEF f, S
  <2> QED
    BY <2>1, <2>2, FS_Surjection, FS_CardinalityType
<1>3. FreeNpcId = Smallest((0 .. Len(npcs)) \ S)
  BY DEF FreeNpcId
<1> HIDE DEF S
<1>4. FreeNpcId \in 0 .. Len(npcs) /\ FreeNpcId \notin S
  <2>1. Len(npcs) - 0 + 1 > Cardinality(S) /\ 0 \in Nat
    BY <1>1, <1>2
  <2> QED
    BY <1>1, <1>2, <1>3, <2>1, FreeIs
<1> QED
  BY <1>1, <1>4 DEF S

LEMMA FreeObjectIs ==
    ASSUME IsFiniteSet(DOMAIN objects)
    PROVE  FreeObjectId \in Nat /\ FreeObjectId \notin DOMAIN objects
<1> DEFINE n == Cardinality(DOMAIN objects)
<1>1. n \in Nat /\ n - 0 + 1 > n /\ 0 \in Nat
  BY FS_CardinalityType
<1>2. FreeObjectId = Smallest((0 .. n) \ DOMAIN objects)
  BY DEF FreeObjectId
<1>3. FreeObjectId \in 0 .. n /\ FreeObjectId \notin DOMAIN objects
  BY <1>1, <1>2, FreeIs
<1> QED
  BY <1>1, <1>3

(* The objects change one at a time.  *)
LEMMA ObjectsStep ==
    ASSUME ObjectsTyped, SeatsSound, ArenaNext
    PROVE  ObjectsTyped'
<1>1. CASE objects' = objects
  BY <1>1 DEF ObjectsTyped
<1>2. ASSUME NEW o \in DOMAIN objects, NEW b \in BOOLEAN,
             objects' = [objects EXCEPT ![o].picked = b]
      PROVE  ObjectsTyped'
  <2> DEFINE e == [objects[o] EXCEPT !.picked = b]
  <2>1. objects' = [objects EXCEPT ![o] = e]
    BY <1>2
  <2>2. e \in Object
    BY DEF ObjectsTyped, Object
  <2> HIDE DEF e
  <2>3. DOMAIN objects' = DOMAIN objects
        /\ \A k \in DOMAIN objects : objects'[k] = IF k = o THEN e ELSE objects[k]
    BY <2>1
  <2> QED
    BY <2>2, <2>3 DEF ObjectsTyped
<1>3. CASE StartPass
  BY <1>1, <1>2, <1>3 DEF StartPass
<1>4. CASE SpawnFrog
  <2> DEFINE f == FreeObjectId
             e == [kind |-> "frog", picked |-> FALSE, spawned |-> TRUE]
  <2>1. CASE objects' = [o \in DOMAIN objects \cup {f} |-> IF o = f THEN e ELSE objects[o]]
    <3>1. f \in Nat
      BY FreeObjectIs DEF ObjectsTyped
    <3>2. e \in Object
      BY DEF Object, Kinds, Weapons
    <3> HIDE DEF f, e
    <3>3. IsFiniteSet(DOMAIN objects \cup {f})
      BY FS_AddElement DEF ObjectsTyped
    <3> QED
      BY <2>1, <3>1, <3>2, <3>3 DEF ObjectsTyped
  <2> QED
    BY <1>1, <1>4, <2>1 DEF SpawnFrog
<1>5. ASSUME NEW i \in Ids, NEW o \in DOMAIN objects, PlayerPicks(i, o) PROVE ObjectsTyped'
  <2>1. CASE objects' = [j \in DOMAIN objects \ {o} |-> objects[j]]
    <3>1. IsFiniteSet(DOMAIN objects \ {o})
      BY FS_RemoveElement DEF ObjectsTyped
    <3> QED
      BY <2>1, <3>1 DEF ObjectsTyped
  <2> QED
    BY <1>2, <1>5, <2>1 DEF PlayerPicks
<1>6. ASSUME NEW i \in Ids, PlayerMoves(i) \/ PicksDone(i) \/ PlayerCollides(i) \/ CollideDone(i)
      PROVE  ObjectsTyped'
  BY <1>1, <1>6 DEF PlayerMoves, PicksDone, PlayerCollides, CollideDone
<1>7. CASE AnimStep \/ AnimsDone \/ NpcStep \/ NpcsDone \/ Broadcast
  BY <1>1, <1>7 DEF AnimStep, AnimsDone, NpcStep, NpcsDone, Broadcast
<1>8. CASE Handlers
  BY <1>1, <1>8
  DEF Handlers, Login, Sync, Logout, Spectate, AskToPlay, FireAnimation, FireFrog, Fires
<1> QED
  BY <1>3, <1>4, <1>5, <1>6, <1>7, <1>8, Zenon DEF ArenaNext, Pass

(* The NPCs that a hit leaves, marked or removed, and what is announced.   *)
LEMMA HitNpcsAre ==
    ASSUME npcs \in Seq(Npc), responses \in Seq(Response), NEW K \in SUBSET DOMAIN npcs,
           NEW walking \in BOOLEAN
    PROVE  HitNpcs(npcs, K, walking) \in Seq(Npc) /\ responses \o Announced(K) \in Seq(Response)
<1>1. Marked(npcs, K) \in Seq(Npc) /\ RemoveMarked(Marked(npcs, K)) \in Seq(Npc)
  BY MarkedAre, RemovedAre
<1>2. responses \o Announced(K) \in Seq(Response)
  BY AnnouncedAre, ConcatIs
<1> QED
  BY <1>1, <1>2 DEF HitNpcs

LEMMA ThingsPass ==
    ASSUME ThingsTyped, SeatsSound, Pass
    PROVE  ThingsTyped'
<1>0. /\ anims \in Seq(Anim) /\ npcs \in Seq(Npc) /\ ObjectsTyped
      /\ responses \in Seq(Response) /\ phase \in Walk /\ ObjectsTyped'
      /\ phase.who \in Nat /\ phase.next \in Nat
  BY ObjectsStep DEF ThingsTyped, ArenaNext, Walk
<1>1. DOMAIN anims = 1 .. Len(anims) /\ Len(anims) \in Nat
      /\ DOMAIN npcs = 1 .. Len(npcs) /\ Len(npcs) \in Nat
  BY <1>0, LenProperties
<1>2. \A i \in Ids : i \in Nat
  BY ArenaConstants DEF SeatsSound
<1>3. \A o \in DOMAIN objects : o \in Nat
  BY <1>0 DEF ObjectsTyped
<1>4. \A n \in Nat : n + 1 \in Nat
  OBVIOUS
<1>5. CASE StartPass
  <2>1. At("anims", 0, 1) \in Walk
    BY WalksAre
  <2>2. \A o \in DOMAIN objects : Append(responses, Say("PlaceObject", o)) \in Seq(Response)
    BY <1>0, <1>3, SayIs, AppendIs
  <2> QED
    BY <1>0, <1>5, <2>1, <2>2 DEF StartPass, Step, ThingsTyped
<1>6. CASE AnimStep
  <2>1. phase' = At("anims", 0, phase.next + 1) /\ At("anims", 0, phase.next + 1) \in Walk
    BY <1>0, <1>4, <1>6, WalksAre DEF AnimStep
  <2>2. anims' \in Seq(Anim)
    BY <1>0, <1>1, <1>6, ShotsAre DEF AnimStep, SameOwners
  <2>3. npcs' \in Seq(Npc) /\ responses' \in Seq(Response)
    <3>1. \/ UNCHANGED <<npcs, responses>>
          \/ \E K \in SUBSET DOMAIN npcs : /\ npcs' = HitNpcs(npcs, K, FALSE)
                                           /\ responses' = responses \o Announced(K)
      BY <1>6, Zenon DEF AnimStep, ShotFlies, BombLies, BombExplodes
    <3> QED
      BY <1>0, <3>1, HitNpcsAre
  <2> QED
    BY <1>0, <2>1, <2>2, <2>3 DEF ThingsTyped
<1>7. CASE AnimsDone
  <2>1. At("frog", 0, 0) \in Walk
    BY WalksAre
  <2>2. anims' \in Seq(Anim)
    <3> DEFINE K == {k \in DOMAIN anims : ~anims[k].delete_me}
    <3>1. K \in SUBSET DOMAIN anims /\ anims' = Only(anims, K)
      BY <1>7 DEF AnimsDone
    <3> HIDE DEF K
    <3> QED
      BY <1>0, <3>1, OnlyIs
  <2> QED
    BY <1>0, <1>7, <2>1, <2>2 DEF AnimsDone, Step, ThingsTyped
<1>8. CASE SpawnFrog
  <2>1. At("npcs", 0, 1) \in Walk
    BY WalksAre
  <2>2. FreeObjectId \in Nat
    BY <1>0, FreeObjectIs DEF ObjectsTyped
  <2>3. Append(responses, Say("SpawnObject", FreeObjectId)) \in Seq(Response)
    BY <1>0, <2>2, SayIs, AppendIs
  <2> QED
    BY <1>0, <1>8, <2>1, <2>3 DEF SpawnFrog, Step, ThingsTyped
<1>9. CASE NpcStep
  <2> DEFINE k == phase.next
             n == npcs[k]
  <2>1. PICK owner \in {npcs[k].init_owner, 0}, dies \in BOOLEAN :
          /\ npcs' = [npcs EXCEPT ![k].init_owner = owner, ![k].delete_me = dies]
          /\ responses' = IF dies THEN Append(responses, Say("RemoveNPC", npcs[k].id))
                          ELSE responses
    BY <1>9 DEF NpcStep
  <2>2. k \in 1 .. Len(npcs) /\ n \in Npc
    BY <1>0, <1>1, <1>9, ElementOfSeq DEF NpcStep
  <2> DEFINE e == [n EXCEPT !.init_owner = owner, !.delete_me = dies]
  <2>3. npcs' = [npcs EXCEPT ![k] = e]
    BY <2>1
  <2>4. e \in Npc /\ n.id \in Nat
    BY <2>2, NpcsAre
  <2>5. npcs' \in Seq(Npc)
    <3> HIDE DEF e, k
    <3> QED
      BY <1>0, <2>2, <2>3, <2>4
  <2>6. responses' \in Seq(Response)
    <3>1. Say("RemoveNPC", npcs[k].id) \in Response
      BY <2>4, SayIs
    <3> QED
      BY <1>0, <2>1, <3>1, AppendIs
  <2>7. phase' = At("npcs", 0, phase.next + 1) /\ At("npcs", 0, phase.next + 1) \in Walk
    BY <1>0, <1>4, <1>9, WalksAre DEF NpcStep
  <2> QED
    BY <1>0, <1>9, <2>5, <2>6, <2>7 DEF NpcStep, ThingsTyped
<1>10. CASE NpcsDone
  BY <1>0, <1>10, RemovedAre, WalksAre DEF NpcsDone, Step, ThingsTyped
<1>11. CASE Broadcast
  <2>1. At("handlers", 0, 0) \in Walk /\ << >> \in Seq(Response)
    BY WalksAre
  <2> QED
    BY <1>0, <1>11, <2>1 DEF Broadcast, Step, ThingsTyped
<1>12. ASSUME NEW i \in Ids, PlayerMoves(i) PROVE ThingsTyped'
  <2>1. At("picks", i, 0) \in Walk
    BY <1>2, WalksAre
  <2> QED
    BY <1>0, <1>12, <2>1, WalksAre DEF PlayerMoves, AfterMove, ThingsTyped
<1>13. ASSUME NEW i \in Ids, NEW o \in DOMAIN objects, PlayerPicks(i, o) PROVE ThingsTyped'
  <2>1. At("picks", i, o + 1) \in Walk
    BY <1>2, <1>3, <1>4, WalksAre
  <2>2. Append(responses, Say("PickObject", o)) \in Seq(Response)
    BY <1>0, <1>3, SayIs, AppendIs
  <2> QED
    BY <1>0, <1>13, <2>1, <2>2 DEF PlayerPicks, ThingsTyped
<1>14. ASSUME NEW i \in Ids, PicksDone(i) PROVE ThingsTyped'
  <2>1. At("collide", i, 1) \in Walk
    BY <1>2, WalksAre
  <2> QED
    BY <1>0, <1>14, <2>1 DEF PicksDone, ThingsTyped
<1>15. ASSUME NEW i \in Ids, PlayerCollides(i) PROVE ThingsTyped'
  <2>1. phase' = At("collide", i, phase.next + 1) /\ At("collide", i, phase.next + 1) \in Walk
    BY <1>0, <1>2, <1>4, <1>15, WalksAre DEF PlayerCollides
  <2>2. npcs' \in Seq(Npc) /\ responses' \in Seq(Response)
    BY <1>0, <1>15, HitNpcsAre DEF PlayerCollides
  <2> QED
    BY <1>0, <1>15, <2>1, <2>2 DEF PlayerCollides, ThingsTyped
<1>16. ASSUME NEW i \in Ids, CollideDone(i) PROVE ThingsTyped'
  BY <1>0, <1>16, RemovedAre, WalksAre DEF CollideDone, ThingsTyped
<1> QED
  BY <1>5, <1>6, <1>7, <1>8, <1>9, <1>10, <1>11, <1>12, <1>13, <1>14, <1>15, <1>16, Zenon DEF Pass

LEMMA FiredIs ==
    ASSUME SeatsSound, ThingsTyped, NEW i \in Ids, NEW w \in {"shot", "bomb"}, FireAnimation(i, w)
    PROVE  /\ anims' \in Seq(Anim) /\ Len(anims') = Len(anims) + 1 /\ Len(anims) \in Nat
           /\ \A k \in 1 .. Len(anims) : anims'[k] = anims[k]
           /\ anims'[Len(anims) + 1].owner = i
           /\ anims'[Len(anims) + 1].by = seats[i].person /\ seats[i].synced
<1> DEFINE d == IF w = "bomb" THEN Duration ELSE 0
           a == [weapon |-> w, owner |-> i, by |-> seats[i].person, duration |-> d,
                 delete_me |-> FALSE]
<1>1. anims' = Append(anims, a) /\ seats[i].synced
  BY DEF FireAnimation, Fires
<1>2. d \in 0 .. Duration /\ i \in Nat /\ seats[i].person \in Persons
  BY ArenaConstants DEF SeatsSound, Player
<1> HIDE DEF d
<1>3. a \in Anim /\ a.owner = i /\ a.by = seats[i].person
  BY <1>2 DEF Anim
<1> HIDE DEF a
<1> QED
  BY <1>1, <1>3, AppendIs, LenProperties DEF ThingsTyped

LEMMA FrogFired ==
    ASSUME SeatsSound, ThingsTyped, NEW i \in Ids, FireFrog(i)
    PROVE  \E n \in Npc : /\ npcs' = Append(npcs, n) /\ n.id = FreeNpcId /\ ~n.delete_me
                          /\ npcs' \in Seq(Npc) /\ responses' \in Seq(Response)
                          /\ responses' = Append(responses, Say("SpawnNPC", FreeNpcId))
                          /\ Say("SpawnNPC", FreeNpcId) \in Response
<1> DEFINE f == FreeNpcId
           n == [id |-> f, init_owner |-> i, delete_me |-> FALSE]
           m == Say("SpawnNPC", f)
<1>1. npcs' = Append(npcs, n) /\ responses' = Append(responses, m)
  BY DEF FireFrog
<1>2. f \in Nat /\ i \in Nat
  BY FreeNpcIs, ArenaConstants DEF ThingsTyped, SeatsSound
<1> HIDE DEF f
<1>3. n \in Npc /\ n.id = f /\ ~n.delete_me
  BY <1>2 DEF Npc
<1>4. m \in Response
  BY <1>2, SayIs
<1> HIDE DEF n, m
<1>5. npcs' \in Seq(Npc) /\ responses' \in Seq(Response)
  BY <1>1, <1>3, <1>4, AppendIs DEF ThingsTyped
<1> QED
  BY <1>1, <1>3, <1>4, <1>5 DEF f, m

LEMMA ThingsStep ==
    ASSUME ThingsTyped, SeatsSound, [ArenaNext]_arena
    PROVE  ThingsTyped'
<1>1. CASE Pass
  BY <1>1, ThingsPass
<1>2. CASE UNCHANGED <<anims, npcs, objects, responses, phase>>
  BY <1>2 DEF ThingsTyped, ObjectsTyped
<1>3. ASSUME NEW i \in Ids, Sync(i) PROVE ThingsTyped'
  BY <1>3 DEF Sync, ThingsTyped, ObjectsTyped
<1>4. ASSUME NEW i \in Ids, Logout(i) \/ Spectate(i) PROVE ThingsTyped'
  BY <1>4, DisownedAre DEF Logout, Spectate, ThingsTyped, ObjectsTyped
<1>5. ASSUME NEW i \in Ids, NEW w \in {"shot", "bomb"}, FireAnimation(i, w) PROVE ThingsTyped'
  <2>1. anims' \in Seq(Anim)
    BY <1>5, FiredIs
  <2> QED
    BY <1>5, <2>1 DEF FireAnimation, Fires, ThingsTyped, ObjectsTyped
<1>6. ASSUME NEW i \in Ids, FireFrog(i) PROVE ThingsTyped'
  <2>1. npcs' \in Seq(Npc) /\ responses' \in Seq(Response)
    BY <1>6, FrogFired
  <2> QED
    BY <1>6, <2>1 DEF FireFrog, Fires, ThingsTyped, ObjectsTyped
<1>7. ASSUME NEW p \in Persons, Login(p) PROVE ThingsTyped'
  BY <1>2, <1>7 DEF Login
<1>8. ASSUME NEW i \in Ids, AskToPlay(i) PROVE ThingsTyped'
  BY <1>2, <1>8 DEF AskToPlay
<1>9. CASE UNCHANGED arena
  BY <1>2, <1>9 DEF arena
<1> QED
  BY <1>1, <1>3, <1>4, <1>5, <1>6, <1>7, <1>8, <1>9, Zenon DEF ArenaNext, Handlers

LEMMA SeatsStep ==
    ASSUME ThingsTyped, SeatsSound, [ArenaNext]_arena
    PROVE  SeatsSound'
<1>1. ASSUME SameSeats, game' = game PROVE SeatsSound'
  BY <1>1 DEF SameSeats, SeatsSound
<1>2. CASE Pass
  <2>1. game' = game
    BY <1>2 DEF Pass, StartPass, AnimStep, AnimsDone, SpawnFrog, NpcStep, NpcsDone, PlayerMoves,
                PicksDone, PlayerPicks, PlayerCollides, CollideDone, Broadcast
  <2> QED
    BY <1>1, <1>2, <2>1, PassSeats DEF ThingsTyped
<1>3. ASSUME NEW i \in Ids, \/ Sync(i) \/ Spectate(i) \/ AskToPlay(i) \/ FireFrog(i)
                            \/ \E w \in {"shot", "bomb"} : FireAnimation(i, w)
      PROVE  SeatsSound'
  <2>1. game' = game
    BY <1>3 DEF Sync, Spectate, AskToPlay, FireFrog, FireAnimation, Fires
  <2> QED
    BY <1>1, <1>3, <2>1, HandlersSeats
<1>4. ASSUME NEW i \in Ids, Logout(i) PROVE SeatsSound'
  BY <1>4, LogoutSeats
<1>5. ASSUME NEW p \in Persons, Login(p) PROVE SeatsSound'
  BY <1>5, LoginSeats
<1>6. CASE UNCHANGED arena
  BY <1>6 DEF arena, SeatsSound, Ids
<1> QED
  BY <1>2, <1>3, <1>4, <1>5, <1>6, Zenon DEF ArenaNext, Handlers

-----------------------------------------------------------------------------
(* Whose shots they are.  *)

(* Whoever owns a shot or a bomb is synchronised: only so is it taken from *)
(* him when he leaves.                                                     *)
Owned ==
    \A k \in 1 .. Len(anims) : anims[k].owner # 0 =>
        /\ anims[k].owner \in Ids /\ seats[anims[k].owner].synced
        /\ seats[anims[k].owner].person = anims[k].by

LEMMA OwnedStep ==
    ASSUME ThingsTyped, SeatsSound, Owned, [ArenaNext]_arena
    PROVE  Owned'
<1>0. anims \in Seq(Anim)
  BY DEF ThingsTyped
<1>1. ASSUME SameSeats, SameOwners(anims') PROVE Owned'
  BY <1>1 DEF Owned, SameSeats, SameOwners
<1>2. ASSUME SameSeats, anims' = anims PROVE Owned'
  BY <1>2 DEF Owned, SameSeats
<1>3. CASE Pass
  <2>1. SameSeats
    BY <1>3, PassSeats DEF ThingsTyped
  <2>2. CASE AnimStep
    <3>1. DOMAIN anims = 1 .. Len(anims)
      BY <1>0, LenProperties
    <3>2. SameOwners(anims')
      BY <1>0, <2>2, <3>1, ShotsAre DEF AnimStep
    <3> QED
      BY <1>1, <2>1, <3>2
  <2>3. CASE AnimsDone
    <3> DEFINE K == {k \in DOMAIN anims : ~anims[k].delete_me}
    <3>1. K \in SUBSET DOMAIN anims /\ anims' = Only(anims, K) /\ DOMAIN anims = 1 .. Len(anims)
      BY <1>0, <2>3, LenProperties DEF AnimsDone
    <3> HIDE DEF K
    <3>2. \A n \in 1 .. Len(anims') : \E k \in 1 .. Len(anims) : anims'[n] = anims[k]
      BY <1>0, <3>1, OnlyIs
    <3> QED
      BY <2>1, <3>2 DEF Owned, SameSeats
  <2>4. CASE anims' = anims
    BY <1>2, <2>1, <2>4
  <2> QED
    BY <1>3, <2>2, <2>3, <2>4
    DEF Pass, StartPass, SpawnFrog, NpcStep, NpcsDone, PlayerMoves,
        PicksDone, PlayerPicks, PlayerCollides, CollideDone, Broadcast
<1>4. ASSUME NEW i \in Ids, Sync(i) \/ AskToPlay(i) \/ FireFrog(i) PROVE Owned'
  <2>1. SameSeats
    BY <1>4, HandlersSeats
  <2>2. anims' = anims
    BY <1>4 DEF Sync, AskToPlay, FireFrog
  <2> QED
    BY <1>2, <2>1, <2>2
<1>5. ASSUME NEW i \in Ids, Spectate(i) PROVE Owned'
  <2>1. SameSeats
    BY <1>5, HandlersSeats
  <2>2. anims' = Disowned(anims, i)
    BY <1>5 DEF Spectate
  <2>3. /\ Len(anims') = Len(anims)
        /\ \A k \in 1 .. Len(anims) :
             /\ anims'[k].by = anims[k].by
             /\ anims'[k].owner = IF anims[k].owner = i THEN 0 ELSE anims[k].owner
    BY <1>0, <2>2, DisownedAre, LenProperties
  <2> QED
    BY <2>1, <2>3 DEF Owned, SameSeats
<1>6. ASSUME NEW i \in Ids, NEW w \in {"shot", "bomb"}, FireAnimation(i, w) PROVE Owned'
  <2>1. SameSeats
    BY <1>6, HandlersSeats
  <2>2. /\ Len(anims') = Len(anims) + 1 /\ Len(anims) \in Nat
        /\ \A k \in 1 .. Len(anims) : anims'[k] = anims[k]
        /\ anims'[Len(anims) + 1].owner = i
        /\ anims'[Len(anims) + 1].by = seats[i].person /\ seats[i].synced
    BY <1>6, FiredIs
  <2>3. \A k \in 1 .. Len(anims') : k \in 1 .. Len(anims) \/ k = Len(anims) + 1
    BY <2>2
  <2> QED
    BY <2>1, <2>2, <2>3 DEF Owned, SameSeats
<1>7. ASSUME NEW i \in Ids, Logout(i) PROVE Owned'
  <2>1. Ids' = Ids \ {i} /\ \A j \in Ids \ {i} : seats'[j] = seats[j]
    BY <1>7, LogoutSeats
  <2>2. CASE seats[i].synced
    <3>1. anims' = Disowned(anims, i)
      BY <1>7, <2>2 DEF Logout
    <3>2. /\ Len(anims') = Len(anims)
          /\ \A k \in 1 .. Len(anims) :
               /\ anims'[k].by = anims[k].by
               /\ anims'[k].owner = IF anims[k].owner = i THEN 0 ELSE anims[k].owner
      BY <1>0, <3>1, DisownedAre, LenProperties
    <3> QED
      BY <2>1, <3>2 DEF Owned
  <2>3. CASE ~seats[i].synced
    <3>1. anims' = anims
      BY <1>7, <2>3 DEF Logout
    <3> QED
      BY <2>1, <2>3, <3>1 DEF Owned
  <2> QED
    BY <2>2, <2>3
<1>8. ASSUME NEW p \in Persons, Login(p) PROVE Owned'
  <2>1. anims' = anims
    BY <1>8 DEF Login
  <2>2. \A j \in Ids : j \in Ids' /\ seats'[j] = seats[j]
    BY <1>8, LoginSeats
  <2> QED
    BY <2>1, <2>2 DEF Owned
<1>9. CASE UNCHANGED arena
  BY <1>9 DEF arena, Owned, Ids
<1> QED
  BY <1>3, <1>4, <1>5, <1>6, <1>7, <1>8, <1>9, Zenon DEF ArenaNext, Handlers

LEMMA EmptyHere ==
    /\ << >> \in Seq(Anim) /\ << >> \in Seq(Npc) /\ << >> \in Seq(Response)
    /\ Len(<< >>) = 0 /\ DOMAIN << >> = {}
OBVIOUS

LEMMA ArenaStarts ==
    ASSUME ArenaInit
    PROVE  ThingsTyped /\ SeatsSound /\ Owned
<1>1. Ids = {} /\ Len(anims) = 0 /\ DOMAIN views = {}
  BY EmptyHere DEF ArenaInit, Ids
<1>2. /\ DOMAIN objects = DOMAIN game.map
      /\ \A o \in DOMAIN objects : objects[o] = [kind |-> game.map[o], picked |-> FALSE,
                                                 spawned |-> FALSE]
  BY DEF ArenaInit
<1>3. /\ DOMAIN game.map \subseteq Nat /\ IsFiniteSet(DOMAIN game.map)
      /\ \A o \in DOMAIN game.map : game.map[o] \in Kinds
  BY ArenaAssumption DEF ArenaInit, Range
<1>4. \A o \in DOMAIN objects : objects[o] \in Object
  <2>1. ASSUME NEW k \in Kinds PROVE [kind |-> k, picked |-> FALSE, spawned |-> FALSE] \in Object
    BY DEF Object
  <2> QED
    BY <1>2, <1>3, <2>1
<1>5. ObjectsTyped
  BY <1>2, <1>3, <1>4 DEF ObjectsTyped
<1>6. phase \in Walk
  BY WalksAre DEF ArenaInit
<1>7. ThingsTyped
  BY <1>5, <1>6, EmptyHere DEF ThingsTyped, ArenaInit
<1>8. SeatsSound /\ Owned
  BY <1>1 DEF SeatsSound, Owned, ArenaInit
<1> QED
  BY <1>7, <1>8

(* The types of the arena, and one seat for each person.                   *)
THEOREM ArenaCorrect == ArenaSpec => [](ThingsTyped /\ SeatsSound)
<1>1. ArenaInit => ThingsTyped /\ SeatsSound
  BY ArenaStarts
<1>2. ThingsTyped /\ SeatsSound /\ [ArenaNext]_arena => (ThingsTyped /\ SeatsSound)'
  BY ThingsStep, SeatsStep
<1> QED
  BY <1>1, <1>2, PTL DEF ArenaSpec

(* Whoever owns a shot or a bomb is he who fired it: an identifier goes to *)
(* the next who comes, but Tournament::player_removed takes the shots from *)
(* a player who leaves, and only synchronised players fire.                *)
THEOREM FragsCorrect == ArenaSpec => []FragsToShooter
<1>1. ArenaInit => Owned
  BY ArenaStarts
<1>2. ThingsTyped /\ SeatsSound /\ Owned /\ [ArenaNext]_arena => Owned'
  BY OwnedStep
<1>3. ThingsTyped /\ Owned => FragsToShooter
  <2> SUFFICES ASSUME ThingsTyped, Owned PROVE FragsToShooter
    OBVIOUS
  <2>1. DOMAIN anims = 1 .. Len(anims)
    BY LenProperties DEF ThingsTyped
  <2> QED
    BY <2>1 DEF Owned, FragsToShooter
<1> QED
  BY <1>1, <1>2, <1>3, ArenaCorrect, PTL DEF ArenaSpec

-----------------------------------------------------------------------------
(* Who takes what lies on the map.  *)

(* He whose turn it is to take has his seat and is alive: nothing happens  *)
(* between his move and his taking.                                        *)
Picking == phase.at = "picks" => phase.who \in Ids /\ seats[phase.who].mode = "alive"

LEMMA PickingStep ==
    ASSUME ThingsTyped, SeatsSound, Picking, [ArenaNext]_arena
    PROVE  Picking'
<1>1. CASE phase'.at # "picks"
  BY <1>1 DEF Picking
<1>2. CASE phase' = phase /\ phase.at # "picks"
  BY <1>2 DEF Picking
<1>3. CASE Handlers
  BY <1>2, <1>3 DEF Handlers, Login, Sync, Logout, Spectate, AskToPlay, FireAnimation, FireFrog,
                    Fires, Handling
<1>4. ASSUME NEW a \in {"handlers", "anims", "frog", "npcs", "players", "collide", "send"},
             NEW w \in Nat, NEW n \in Nat, phase' = At(a, w, n)
      PROVE  Picking'
  BY <1>4, WalksAre DEF Picking
<1>5. ASSUME NEW i, phase' = NextPlayer(i) PROVE Picking'
  <2>1. NextPlayer(i).at \in {"send", "players"}
    BY WalksAre
  <2> QED
    BY <1>1, <1>5, <2>1
<1>6. phase.next \in Nat /\ phase.who \in Nat /\ Len(anims) \in Nat /\ Len(npcs) \in Nat
  BY LenProperties DEF ThingsTyped, Walk
<1>7. \A i \in Ids : i \in Nat
  BY ArenaConstants DEF SeatsSound
<1>8. CASE StartPass \/ AnimStep \/ AnimsDone \/ SpawnFrog \/ NpcStep \/ Broadcast
  <2>1. \E a \in {"anims", "frog", "npcs", "handlers"}, n \in {0, 1, phase.next + 1} :
          phase' = At(a, 0, n)
    BY <1>8 DEF StartPass, AnimStep, AnimsDone, SpawnFrog, NpcStep, Broadcast, Step
  <2> QED
    BY <1>4, <1>6, <2>1
<1>9. CASE NpcsDone
  BY <1>5, <1>9 DEF NpcsDone, Step
<1>10. ASSUME NEW i \in Ids, PlayerMoves(i) PROVE Picking'
  <2>1. PICK p : seats' = [seats EXCEPT ![i] = p] /\ phase' = AfterMove(i, p)
    BY <1>10 DEF PlayerMoves
  <2>2. CASE p.mode # "alive"
    BY <1>5, <2>1, <2>2 DEF AfterMove
  <2>3. CASE p.mode = "alive"
    <3>1. phase' = At("picks", i, 0)
      BY <2>1, <2>3 DEF AfterMove
    <3>2. phase'.who = i
      BY <3>1 DEF At
    <3>3. i \in Ids' /\ seats'[i] = p
      BY <2>1 DEF Ids
    <3> QED
      BY <2>3, <3>2, <3>3 DEF Picking
  <2> QED
    BY <2>2, <2>3
<1>11. ASSUME NEW i \in Ids, NEW o \in DOMAIN objects, PlayerPicks(i, o) PROVE Picking'
  <2> DEFINE q == Picked(seats[i], objects[o].kind)
  <2>1. phase.at = "picks" /\ phase.who = i /\ phase' = At("picks", i, o + 1)
    BY <1>11 DEF PlayerPicks
  <2>2. objects[o].kind \in Kinds /\ seats[i] \in Player
    BY DEF ThingsTyped, ObjectsTyped, Object, SeatsSound
  <2>3. seats' = [seats EXCEPT ![i] = q]
    BY <1>11 DEF PlayerPicks
  <2>4. q.mode = seats[i].mode
    BY <2>2, PickedIs
  <2> HIDE DEF q
  <2>5. i \in Ids' /\ seats'[i] = q
    BY <2>3 DEF Ids
  <2>6. phase'.who = i
    BY <2>1 DEF At
  <2> QED
    BY <2>1, <2>4, <2>5, <2>6 DEF Picking
<1>12. ASSUME NEW i \in Ids, PicksDone(i) PROVE Picking'
  BY <1>4, <1>7, <1>12 DEF PicksDone
<1>13. ASSUME NEW i \in Ids, PlayerCollides(i) PROVE Picking'
  BY <1>4, <1>6, <1>7, <1>13 DEF PlayerCollides
<1>14. ASSUME NEW i \in Ids, CollideDone(i) PROVE Picking'
  BY <1>5, <1>14 DEF CollideDone
<1>15. CASE UNCHANGED arena
  BY <1>15 DEF arena, Picking, Ids
<1> QED
  BY <1>3, <1>8, <1>9, <1>10, <1>11, <1>12, <1>13, <1>14, <1>15, Zenon DEF ArenaNext, Pass

(* What is announced of NPCs takes nothing.  *)
LEMMA NothingTaken ==
    ASSUME ThingsTyped, NEW K \in SUBSET DOMAIN npcs, responses' = responses \o Announced(K),
           Len(responses') > Len(responses)
    PROVE  responses'[Len(responses')].cmd = "RemoveNPC"
<1> DEFINE a == Announced(K)
           c == Cardinality(K)
<1>1. a \in Seq(Response) /\ Len(a) = c /\ c \in Nat /\ \A n \in 1 .. c : a[n].cmd = "RemoveNPC"
  BY AnnouncedAre DEF ThingsTyped
<1>2. responses' = responses \o a /\ responses \in Seq(Response) /\ Len(responses) \in Nat
  BY LenProperties DEF ThingsTyped
<1> HIDE DEF a, c
<1>0. a \in Seq(Response) /\ responses \in Seq(Response)
  BY <1>1, <1>2
<1>3. /\ Len(responses') = Len(responses) + c
      /\ \A n \in 1 .. c : responses'[Len(responses) + n] = a[n]
  <2>1. /\ Len(responses \o a) = Len(responses) + Len(a)
        /\ \A n \in 1 .. Len(a) : (responses \o a)[Len(responses) + n] = a[n]
    BY <1>0, ConcatIs
  <2> QED
    BY <1>1, <1>2, <2>1
<1>4. c \in 1 .. c
  BY <1>1, <1>2, <1>3
<1> QED
  BY <1>1, <1>3, <1>4

LEMMA Added ==
    ASSUME ThingsTyped, NEW r \in Response, responses' = Append(responses, r)
    PROVE  responses'[Len(responses')] = r
<1>1. responses \in Seq(Response) /\ Len(responses) \in Nat
  BY LenProperties DEF ThingsTyped
<1>2. Len(responses') = Len(responses) + 1 /\ responses'[Len(responses) + 1] = r
  BY <1>1, AppendIs
<1> QED
  BY <1>1, <1>2

(* Only a living player's turn takes an object.  *)
LEMMA TakesAlive ==
    ASSUME ThingsTyped, SeatsSound, Picking, [ArenaNext]_arena, NEW o \in DOMAIN objects,
           Len(responses') > Len(responses), responses'[Len(responses')] = Say("PickObject", o)
    PROVE  seats[phase.who].mode = "alive"
<1>1. Say("PickObject", o).cmd = "PickObject"
  BY DEF Say
<1>2. Len(responses) \in Nat
  BY LenProperties DEF ThingsTyped
<1>3. responses' # responses /\ responses' # << >>
  BY <1>2, EmptyHere
<1>4. ASSUME NEW c \in {"SpawnNPC", "RemoveNPC", "PlaceObject", "SpawnObject"}, NEW i \in Nat
      PROVE  responses' # Append(responses, Say(c, i))
  BY <1>1, <1>4, Added, SayIs
<1>5. ASSUME NEW K \in SUBSET DOMAIN npcs PROVE responses' # responses \o Announced(K)
  BY <1>1, <1>5, NothingTaken
<1>6. ASSUME Picking, phase.at = "picks" PROVE seats[phase.who].mode = "alive"
  BY <1>6 DEF Picking
<1>7. ~ UNCHANGED arena
  BY <1>3 DEF arena
<1>8. ASSUME NEW i \in Ids,
             \/ Sync(i) \/ Logout(i) \/ Spectate(i) \/ AskToPlay(i)
             \/ \E w \in {"shot", "bomb"} : FireAnimation(i, w)
      PROVE  FALSE
  BY <1>3, <1>8 DEF Sync, Logout, Spectate, AskToPlay, FireAnimation
<1>9. ASSUME NEW i \in Ids, FireFrog(i) PROVE FALSE
  BY <1>4, <1>9, FreeNpcIs DEF FireFrog, ThingsTyped
<1>10. ASSUME NEW p \in Persons, Login(p) PROVE FALSE
  BY <1>3, <1>10 DEF Login
<1>11. ~StartPass
  BY <1>3, <1>4 DEF StartPass, ThingsTyped, ObjectsTyped
<1>12. ~AnimStep
  BY <1>3, <1>5 DEF AnimStep, ShotFlies, BombLies, BombExplodes
<1>13. ~(AnimsDone \/ NpcsDone \/ Broadcast)
  BY <1>3 DEF AnimsDone, NpcsDone, Broadcast
<1>14. ~SpawnFrog
  <2>1. FreeObjectId \in Nat
    BY FreeObjectIs DEF ThingsTyped, ObjectsTyped
  <2> QED
    BY <1>3, <1>4, <2>1 DEF SpawnFrog
<1>15. ~NpcStep
  <2> SUFFICES ASSUME NpcStep PROVE FALSE
    OBVIOUS
  <2>1. phase.next \in 1 .. Len(npcs) /\ npcs \in Seq(Npc)
    BY LenProperties DEF NpcStep, ThingsTyped
  <2>2. npcs[phase.next] \in Npc
    BY <2>1, ElementOfSeq
  <2>3. npcs[phase.next].id \in Nat
    BY <2>2, NpcsAre
  <2> QED
    BY <1>3, <1>4, <2>3 DEF NpcStep
<1>16. ASSUME NEW i \in Ids, PlayerMoves(i) \/ PicksDone(i) \/ CollideDone(i) PROVE FALSE
  BY <1>3, <1>16 DEF PlayerMoves, PicksDone, CollideDone
<1>17. ASSUME NEW i \in Ids, PlayerCollides(i) PROVE FALSE
  BY <1>3, <1>5, <1>17 DEF PlayerCollides
<1>18. ASSUME NEW i \in Ids, NEW u \in DOMAIN objects, PlayerPicks(i, u)
       PROVE  seats[phase.who].mode = "alive"
  BY <1>6, <1>18 DEF PlayerPicks
<1> QED
  BY <1>7, <1>8, <1>9, <1>10, <1>11, <1>12, <1>13, <1>14, <1>15, <1>16, <1>17, <1>18, Zenon
  DEF ArenaNext, Handlers, Pass

(* A player whom his own step has killed takes nothing on that turn, for   *)
(* Tournament::integrate goes on to the next player; nothing can kill him  *)
(* between his move and what he takes.                                     *)
THEOREM DeadTakeCorrect == ArenaSpec => DeadTakeNothing
<1> DEFINE Takes == \A o \in DOMAIN objects :
             ~objects[o].picked /\ Len(responses') > Len(responses)
             /\ responses'[Len(responses')] = Say("PickObject", o)
             => seats[phase.who].mode = "alive"
<1>1. ArenaInit => Picking
  BY WalksAre DEF ArenaInit, Picking
<1>2. ThingsTyped /\ SeatsSound /\ Picking /\ [ArenaNext]_arena => Picking'
  BY PickingStep
<1>3. ThingsTyped /\ SeatsSound /\ Picking /\ [ArenaNext]_arena => [Takes]_arena
  BY TakesAlive
<1> QED
  BY <1>1, <1>2, <1>3, ArenaCorrect, PTL DEF ArenaSpec, DeadTakeNothing

-----------------------------------------------------------------------------
(* What a client hears.  *)

Known(v) == {v.npcs[a] : a \in 1 .. Len(v.npcs)}
NoRepeats(v) == \A a, b \in 1 .. Len(v.npcs) : v.npcs[a] = v.npcs[b] => a = b

LEMMA ViewsAre ==
    ASSUME NEW v \in View
    PROVE  /\ v.npcs \in Seq(Nat) /\ v.objects \in SUBSET Nat
           /\ \A s \in Seq(Nat) : /\ [v EXCEPT !.npcs = s] \in View
                                  /\ [v EXCEPT !.npcs = s].npcs = s
                                  /\ [v EXCEPT !.npcs = s].objects = v.objects
           /\ \A o \in SUBSET Nat : /\ [v EXCEPT !.objects = o] \in View
                                    /\ [v EXCEPT !.objects = o].objects = o
                                    /\ [v EXCEPT !.objects = o].npcs = v.npcs
<1>1. v.npcs \in Seq(Nat) /\ v.objects \in SUBSET Nat
  BY DEF View
<1>2. ASSUME NEW s \in Seq(Nat)
      PROVE  /\ [v EXCEPT !.npcs = s] \in View
             /\ [v EXCEPT !.npcs = s].npcs = s
             /\ [v EXCEPT !.npcs = s].objects = v.objects
  BY DEF View
<1>3. ASSUME NEW o \in SUBSET Nat
      PROVE  /\ [v EXCEPT !.objects = o] \in View
             /\ [v EXCEPT !.objects = o].objects = o
             /\ [v EXCEPT !.objects = o].npcs = v.npcs
  BY DEF View
<1> QED
  BY <1>1, <1>2, <1>3

(* Taking an identifier from a list that has it at most once.              *)
LEMMA FirstRemoved ==
    ASSUME NEW s \in Seq(Nat), \A a, b \in 1 .. Len(s) : s[a] = s[b] => a = b, NEW d
    PROVE  /\ RemoveFirst(s, d) \in Seq(Nat)
           /\ \A a, b \in 1 .. Len(RemoveFirst(s, d)) :
                RemoveFirst(s, d)[a] = RemoveFirst(s, d)[b] => a = b
           /\ \A x : (\E a \in 1 .. Len(RemoveFirst(s, d)) : RemoveFirst(s, d)[a] = x)
                     <=> x # d /\ \E a \in 1 .. Len(s) : s[a] = x
<1> DEFINE I == {k \in 1 .. Len(s) : s[k] = d}
           r == RemoveFirst(s, d)
<1>0. Len(s) \in Nat
  BY LenProperties
<1>1. CASE I = {}
  <2>1. \A k \in 1 .. Len(s) : s[k] # d
    BY <1>1
  <2>2. r = s
    BY <2>1 DEF RemoveFirst
  <2> HIDE DEF r
  <2> QED
    BY <2>1, <2>2 DEF r
<1>2. CASE I # {}
  <2> DEFINE m == Min(I)
  <2>1. PICK n \in I : \A j \in I : n <= j
    <3>1. I \in SUBSET Nat
      BY <1>0
    <3> QED
      BY <3>1, <1>2, LeastExists, Zenon
  <2>2. m \in I
    BY <2>1 DEF Min
  <2>3. r = RemoveAt(s, m)
    <3>1. \E k \in 1 .. Len(s) : s[k] = d
      BY <1>2
    <3> QED
      BY <3>1, <1>2 DEF RemoveFirst, SelectInSeq
  <2> HIDE DEF m, r
  <2>4. m \in 1 .. Len(s) /\ s[m] = d
    BY <2>2
  <2>5. /\ r \in Seq(Nat) /\ Len(r) = Len(s) - 1
        /\ \A k \in 1 .. Len(s) - 1 : r[k] = IF k < m THEN s[k] ELSE s[k + 1]
    BY <2>3, <2>4, RemoveAtIs
  <2>6. \A k \in 1 .. Len(s) - 1 : /\ (IF k < m THEN k ELSE k + 1) \in 1 .. Len(s) \ {m}
                                   /\ r[k] = s[IF k < m THEN k ELSE k + 1]
    <3>1. \A k \in 1 .. Len(s) - 1 : (IF k < m THEN k ELSE k + 1) \in 1 .. Len(s) \ {m}
      BY <1>0, <2>4
    <3> SUFFICES ASSUME NEW k \in 1 .. Len(s) - 1
                 PROVE  r[k] = s[IF k < m THEN k ELSE k + 1]
      BY <3>1
    <3>2. r[k] = IF k < m THEN s[k] ELSE s[k + 1]
      BY <2>5
    <3>3. CASE k < m
      BY <3>2, <3>3
    <3>4. CASE ~(k < m)
      BY <3>2, <3>4
    <3> QED
      BY <3>3, <3>4
  <2>7. \A a, b \in 1 .. Len(r) : r[a] = r[b] => a = b
    <3> SUFFICES ASSUME NEW a \in 1 .. Len(r), NEW b \in 1 .. Len(r), r[a] = r[b] PROVE a = b
      OBVIOUS
    <3> DEFINE p == IF a < m THEN a ELSE a + 1
               q == IF b < m THEN b ELSE b + 1
    <3>0. a \in 1 .. Len(s) - 1 /\ b \in 1 .. Len(s) - 1
      BY <2>5
    <3>3. p \in 1 .. Len(s) /\ q \in 1 .. Len(s) /\ r[a] = s[p] /\ r[b] = s[q]
      BY <2>6, <3>0
    <3>4. p = q => a = b
      BY SMTT(30), <1>0, <2>4, <3>0
    <3>1. /\ p \in 1 .. Len(s) /\ q \in 1 .. Len(s) /\ r[a] = s[p] /\ r[b] = s[q]
          /\ p = q => a = b
      BY <3>3, <3>4
    <3> HIDE DEF p, q
    <3>2. p = q
      BY <3>1
    <3> QED
      BY <3>1, <3>2
  <2>8. ASSUME NEW x, NEW a \in 1 .. Len(s), s[a] = x, x # d PROVE \E k \in 1 .. Len(r) : r[k] = x
    <3> DEFINE k == IF a < m THEN a ELSE a - 1
    <3>1. a # m
      BY <2>4, <2>8
    <3>2. k \in 1 .. Len(s) - 1 /\ (IF k < m THEN k ELSE k + 1) = a
      BY <1>0, <2>4, <3>1
    <3> HIDE DEF k
    <3> QED
      BY <2>5, <2>6, <2>8, <3>2
  <2>9. ASSUME NEW a \in 1 .. Len(r) PROVE r[a] # d /\ \E k \in 1 .. Len(s) : s[k] = r[a]
    <3> DEFINE k == IF a < m THEN a ELSE a + 1
    <3>1. k \in 1 .. Len(s) /\ k # m /\ r[a] = s[k]
      BY <2>5, <2>6
    <3> HIDE DEF k
    <3> QED
      BY <2>4, <3>1
  <2> QED
    BY <2>5, <2>7, <2>8, <2>9 DEF r
<1> QED
  BY <1>1, <1>2

LEMMA HeardIs ==
    ASSUME NEW v \in View, NEW r \in Response
    PROVE  /\ Heard(v, r) \in View
           /\ r.cmd = "SpawnNPC" /\ NoRepeats(v) /\ r.id \notin Known(v) =>
                /\ NoRepeats(Heard(v, r)) /\ Known(Heard(v, r)) = Known(v) \cup {r.id}
                /\ Heard(v, r).objects = v.objects
           /\ r.cmd = "RemoveNPC" /\ NoRepeats(v) =>
                /\ NoRepeats(Heard(v, r)) /\ Known(Heard(v, r)) = Known(v) \ {r.id}
                /\ Heard(v, r).objects = v.objects
           /\ r.cmd = "PickObject" =>
                Heard(v, r).npcs = v.npcs /\ Heard(v, r).objects = v.objects \ {r.id}
           /\ r.cmd \in {"PlaceObject", "SpawnObject"} =>
                Heard(v, r).npcs = v.npcs /\ Heard(v, r).objects = v.objects \cup {r.id}
<1> DEFINE s == v.npcs
<1>0. s \in Seq(Nat) /\ Len(s) \in Nat /\ v.objects \in SUBSET Nat /\ r.id \in Nat
      /\ r.cmd \in {"SpawnNPC", "RemoveNPC", "PlaceObject", "PickObject", "SpawnObject"}
  BY ViewsAre, LenProperties DEF Response
<1>1. CASE r.cmd = "SpawnNPC"
  <2> DEFINE t == Append(s, r.id)
  <2>1. Heard(v, r) = [v EXCEPT !.npcs = t]
    BY <1>1 DEF Heard
  <2>2. /\ t \in Seq(Nat) /\ Len(t) = Len(s) + 1 /\ t[Len(s) + 1] = r.id
        /\ \A k \in 1 .. Len(s) : t[k] = s[k]
    BY <1>0, AppendIs
  <2> HIDE DEF t
  <2>3. Heard(v, r) \in View /\ Heard(v, r).npcs = t /\ Heard(v, r).objects = v.objects
    BY <2>1, <2>2, ViewsAre
  <2>4. \A k \in 1 .. Len(t) : k \in 1 .. Len(s) \/ k = Len(s) + 1
    BY <1>0, <2>2
  <2>5. \A k \in 1 .. Len(s) : k \in 1 .. Len(t) /\ k # Len(s) + 1
    BY SMTT(30), <1>0, <2>2
  <2>6. Len(s) + 1 \in 1 .. Len(t)
    BY <1>0, <2>2
  <2>7. Known(Heard(v, r)) = Known(v) \cup {r.id}
    BY <2>2, <2>3, <2>4, <2>5, <2>6 DEF Known
  <2>8. ASSUME NoRepeats(v), r.id \notin Known(v) PROVE NoRepeats(Heard(v, r))
    <3>1. \A k \in 1 .. Len(s) : s[k] # r.id
      BY <2>8 DEF Known
    <3>2. \A a, b \in 1 .. Len(s) : s[a] = s[b] => a = b
      BY <2>8 DEF NoRepeats
    <3> HIDE DEF s
    <3>3. \A a, b \in 1 .. Len(t) : t[a] = t[b] => a = b
      BY <2>2, <2>4, <3>1, <3>2
    <3> QED
      BY <2>3, <3>3 DEF NoRepeats
  <2> QED
    BY <1>1, <2>3, <2>7, <2>8
<1>2. CASE r.cmd = "RemoveNPC"
  <2> DEFINE t == RemoveFirst(s, r.id)
  <2>1. Heard(v, r) = [v EXCEPT !.npcs = t]
    BY <1>2 DEF Heard
  <2>2. t \in Seq(Nat)
    <3>1. CASE \E i \in 1 .. Len(s) : s[i] = r.id
      <4> DEFINE I == {k \in 1 .. Len(s) : s[k] = r.id}
                 m == Min(I)
      <4>1. PICK n \in I : \A j \in I : n <= j
        <5>1. I \in SUBSET Nat /\ I # {}
          BY <1>0, <3>1
        <5> QED
          BY <5>1, LeastExists, Zenon
      <4>2. m \in I
        BY <4>1 DEF Min
      <4>3. t = RemoveAt(s, m)
        BY <3>1 DEF RemoveFirst, SelectInSeq
      <4> HIDE DEF m, t
      <4>4. m \in 1 .. Len(s)
        BY <4>2
      <4> QED
        BY <1>0, <4>3, <4>4, RemoveAtIs
    <3>2. CASE ~ \E i \in 1 .. Len(s) : s[i] = r.id
      BY <1>0, <3>2 DEF RemoveFirst
    <3> QED
      BY <3>1, <3>2
  <2>3. ASSUME NoRepeats(v)
        PROVE  /\ \A a, b \in 1 .. Len(t) : t[a] = t[b] => a = b
               /\ \A x : (\E a \in 1 .. Len(t) : t[a] = x)
                         <=> x # r.id /\ \E a \in 1 .. Len(s) : s[a] = x
    <3>1. \A a, b \in 1 .. Len(s) : s[a] = s[b] => a = b
      BY <2>3 DEF NoRepeats
    <3> QED
      BY <1>0, <3>1, FirstRemoved
  <2> HIDE DEF t
  <2>4. Heard(v, r) \in View /\ Heard(v, r).npcs = t /\ Heard(v, r).objects = v.objects
    BY <2>1, <2>2, ViewsAre
  <2>5. ASSUME NoRepeats(v)
        PROVE  NoRepeats(Heard(v, r)) /\ Known(Heard(v, r)) = Known(v) \ {r.id}
    <3>1. NoRepeats(Heard(v, r))
      BY <2>3, <2>4, <2>5 DEF NoRepeats
    <3>2. \A x : x \in Known(Heard(v, r)) <=> \E a \in 1 .. Len(t) : t[a] = x
      BY <2>4 DEF Known
    <3>3. \A x : x \in Known(v) <=> \E a \in 1 .. Len(s) : s[a] = x
      BY DEF Known
    <3> QED
      BY <2>3, <2>5, <3>1, <3>2, <3>3
  <2> QED
    BY <1>2, <2>4, <2>5
<1>3. CASE r.cmd = "PickObject"
  <2> DEFINE t == v.objects \ {r.id}
  <2>1. Heard(v, r) = [v EXCEPT !.objects = t] /\ t \in SUBSET Nat
    BY <1>0, <1>3 DEF Heard
  <2> HIDE DEF t
  <2>2. Heard(v, r) \in View /\ Heard(v, r).npcs = v.npcs /\ Heard(v, r).objects = t
    BY <2>1 DEF View
  <2> QED
    BY <1>3, <2>2 DEF t
<1>4. CASE r.cmd \in {"PlaceObject", "SpawnObject"}
  <2> DEFINE t == v.objects \cup {r.id}
  <2>1. Heard(v, r) = [v EXCEPT !.objects = t] /\ t \in SUBSET Nat
    BY <1>0, <1>4 DEF Heard
  <2> HIDE DEF t
  <2>2. Heard(v, r) \in View /\ Heard(v, r).npcs = v.npcs /\ Heard(v, r).objects = t
    BY <2>1 DEF View
  <2> QED
    BY <1>4, <2>2 DEF t
<1> QED
  BY <1>0, <1>1, <1>2, <1>3, <1>4, Zenon

OneHeard == [p \in View \X Response |-> Heard(p[1], p[2])]

LEMMA HeardAllIs ==
    ASSUME NEW v \in View, NEW rs \in Seq(Response)
    PROVE  /\ \E g \in [0 .. Len(rs) -> View] : Along(g, v, OneHeard, rs, Len(rs))
           /\ \A g : Along(g, v, OneHeard, rs, Len(rs)) => HeardAll(v, rs) = g[Len(rs)]
           /\ HeardAll(v, rs) \in View
<1>1. OneHeard \in [View \X Response -> View]
  BY HeardIs DEF OneHeard
<1>2. Len(rs) \in Nat /\ \A k \in 1 .. Len(rs) : rs[k] \in Response
  BY LenProperties, ElementOfSeq
<1>3. PICK g \in [0 .. Len(rs) -> View] : Along(g, v, OneHeard, rs, Len(rs))
  BY <1>1, AlongExists
<1> DEFINE F(h) == [n \in 0 .. Len(rs) |-> IF n = 0 THEN v ELSE Heard(h[n - 1], rs[n])]
           t == CHOOSE h : h = F(h)
<1>4. HeardAll(v, rs) = t[Len(rs)]
  BY DEF HeardAll
<1>5. g = F(g)
  <2>1. \A k \in 1 .. Len(rs) : g[k - 1] \in View
    BY <1>2
  <2>2. \A k \in 1 .. Len(rs) : g[k] = Heard(g[k - 1], rs[k])
    BY <1>2, <1>3, <2>1 DEF Along, OneHeard
  <2>3. \A k \in 0 .. Len(rs) : g[k] = F(g)[k]
    BY <1>2, <1>3, <2>2 DEF Along
  <2> QED
    BY <2>3
<1>6. t = F(t)
  BY <1>5
<1>7. /\ \A n \in 0 .. Len(rs) : t[n] = IF n = 0 THEN v ELSE Heard(t[n - 1], rs[n])
      /\ \A n \in 0 .. Len(rs) : g[n] = IF n = 0 THEN v ELSE Heard(g[n - 1], rs[n])
  <2> HIDE DEF t
  <2> QED
    BY <1>5, <1>6
<1> HIDE DEF t, F
<1>8. t[Len(rs)] = g[Len(rs)]
  <2> DEFINE bad == {k \in 0 .. Len(rs) : t[k] # g[k]}
  <2>1. CASE bad = {}
    BY <1>2, <2>1
  <2>2. CASE bad # {}
    <3>1. PICK k \in bad : \A j \in bad : k <= j
      <4>1. bad \in SUBSET Nat
        BY <1>2
      <4> QED
        BY <2>2, <4>1, LeastExists, Zenon
    <3>2. k # 0 /\ k \in 0 .. Len(rs)
      BY <1>7, <3>1
    <3>3. k - 1 \in 0 .. Len(rs) /\ k - 1 \notin bad
      BY <1>2, <3>1, <3>2
    <3>4. t[k - 1] = g[k - 1]
      BY <3>3
    <3>5. t[k] = g[k]
      BY <1>7, <3>2, <3>4
    <3> QED
      BY <3>1, <3>5
  <2> QED
    BY <2>1, <2>2
<1>9. HeardAll(v, rs) \in View
  BY <1>2, <1>4, <1>8
<1>10. \A h : Along(h, v, OneHeard, rs, Len(rs)) => h[Len(rs)] = g[Len(rs)]
  BY <1>2, <1>3, AlongUnique
<1> QED
  BY <1>3, <1>4, <1>8, <1>9, <1>10

(* Hearing nothing, one more, and more after what was heard.               *)
LEMMA HeardOn ==
    ASSUME NEW v \in View, NEW rs \in Seq(Response)
    PROVE  /\ HeardAll(v, << >>) = v
           /\ \A as \in Seq(Response) : HeardAll(v, rs \o as) = HeardAll(HeardAll(v, rs), as)
           /\ \A r \in Response : HeardAll(v, Append(rs, r)) = Heard(HeardAll(v, rs), r)
<1>1. HeardAll(v, << >>) = v
  <2> DEFINE g == [k \in {0} |-> v]
  <2>1. Along(g, v, OneHeard, << >>, 0)
    BY DEF Along
  <2>2. g[0] = v
    OBVIOUS
  <2> HIDE DEF g
  <2> QED
    BY <2>1, <2>2, EmptyHere, HeardAllIs
<1>2. ASSUME NEW as \in Seq(Response)
      PROVE  HeardAll(v, rs \o as) = HeardAll(HeardAll(v, rs), as)
  <2> DEFINE ts == rs \o as
             n == Len(rs)
             m == Len(as)
  <2>0. n \in Nat /\ m \in Nat /\ Len(rs) = n /\ Len(as) = m
    BY LenProperties
  <2>1. /\ ts \in Seq(Response) /\ Len(ts) = n + m
        /\ \A k \in 1 .. n : ts[k] = rs[k]
        /\ \A k \in 1 .. m : ts[n + k] = as[k]
    <3> HIDE DEF n, m
    <3>1. /\ ts \in Seq(Response) /\ Len(ts) = n + m
          /\ \A k \in 1 .. n + m : ts[k] = IF k <= n THEN rs[k] ELSE as[k - n]
      BY <2>0, ConcatProperties
    <3> HIDE DEF ts
    <3>2. ASSUME NEW k \in 1 .. n PROVE k \in 1 .. n + m /\ k <= n
      BY <2>0
    <3>3. ASSUME NEW k \in 1 .. m PROVE n + k \in 1 .. n + m /\ ~(n + k <= n) /\ (n + k) - n = k
      BY <2>0
    <3> QED
      BY <3>1, <3>2, <3>3
  <2> HIDE DEF ts, n, m
  <2>2. PICK g \in [0 .. n + m -> View] : Along(g, v, OneHeard, ts, n + m)
    BY <2>1, HeardAllIs
  <2>3. HeardAll(v, ts) = g[n + m]
    BY <2>1, <2>2, HeardAllIs
  <2>4. Along(g, v, OneHeard, rs, n)
    <3>1. \A k \in 1 .. n : k \in 1 .. n + m
      BY <2>0
    <3> QED
      BY <2>1, <2>2, <3>1 DEF Along
  <2>5. HeardAll(v, rs) = g[n] /\ g[n] \in View
    BY <2>0, <2>2, <2>4, HeardAllIs
  <2> DEFINE h == [k \in 0 .. m |-> g[n + k]]
  <2>6. h[0] = g[n] /\ h[m] = g[n + m]
    BY <2>0
  <2>7. \A k \in 1 .. m : h[k] = g[n + k] /\ h[k - 1] = g[n + (k - 1)]
    BY <2>0
  <2> HIDE DEF h
  <2>8. ASSUME NEW k \in 1 .. m PROVE h[k] = OneHeard[<< h[k - 1], as[k] >>]
    <3> DEFINE i == n + k
    <3>1. i \in 1 .. n + m /\ n + (k - 1) = i - 1
      BY <2>0
    <3>2. h[k] = g[i] /\ h[k - 1] = g[i - 1] /\ as[k] = ts[i]
      BY <2>1, <2>7, <3>1
    <3> HIDE DEF i
    <3>3. g[i] = OneHeard[<< g[i - 1], ts[i] >>]
      BY <2>2, <3>1 DEF Along
    <3> QED
      BY <3>2, <3>3
  <2>9. Along(h, g[n], OneHeard, as, m)
    BY <2>6, <2>8 DEF Along
  <2>10. HeardAll(g[n], as) = h[m]
    BY <2>0, <2>5, <2>9, HeardAllIs
  <2> QED
    BY <2>3, <2>5, <2>6, <2>10 DEF ts
<1>3. ASSUME NEW r \in Response
      PROVE  HeardAll(v, Append(rs, r)) = Heard(HeardAll(v, rs), r)
  <2> DEFINE ts == Append(rs, r)
             n == Len(rs)
  <2>1. /\ n \in Nat /\ ts \in Seq(Response) /\ Len(ts) = n + 1 /\ ts[n + 1] = r
        /\ \A k \in 1 .. n : ts[k] = rs[k]
    BY LenProperties, AppendIs
  <2> HIDE DEF ts
  <2>2. PICK g \in [0 .. n + 1 -> View] : Along(g, v, OneHeard, ts, n + 1)
    BY <2>1, HeardAllIs
  <2>3. HeardAll(v, ts) = g[n + 1]
    BY <2>1, <2>2, HeardAllIs
  <2>4. Along(g, v, OneHeard, rs, n)
    BY <2>1, <2>2 DEF Along
  <2>5. HeardAll(v, rs) = g[n]
    BY <2>4, HeardAllIs
  <2>6. g[n] \in View /\ g[n + 1] = OneHeard[<< g[n], r >>]
    BY <2>1, <2>2 DEF Along
  <2>7. g[n + 1] = Heard(g[n], r)
    BY <2>6 DEF OneHeard
  <2> QED
    BY <2>3, <2>5, <2>7 DEF ts
<1> QED
  BY <1>1, <1>2, <1>3

(* Hearing that NPCs are removed, also of one that is gone already.        *)
LEMMA RemovalsHeard ==
    ASSUME NEW v \in View, NoRepeats(v), NEW rs \in Seq(Response),
           \A k \in 1 .. Len(rs) : rs[k].cmd = "RemoveNPC"
    PROVE  /\ NoRepeats(HeardAll(v, rs)) /\ HeardAll(v, rs).objects = v.objects
           /\ \A x : x \in Known(HeardAll(v, rs)) <=>
                x \in Known(v) /\ \A k \in 1 .. Len(rs) : rs[k].id # x
<1> DEFINE n == Len(rs)
           Good(w, k) == /\ NoRepeats(w) /\ w.objects = v.objects
                         /\ \A x : x \in Known(w) <=>
                              x \in Known(v) /\ \A j \in 1 .. k : rs[j].id # x
<1>1. n \in Nat /\ \A k \in 1 .. n : rs[k] \in Response /\ rs[k].cmd = "RemoveNPC"
  BY LenProperties, ElementOfSeq
<1>2. PICK g \in [0 .. n -> View] : Along(g, v, OneHeard, rs, n)
  BY HeardAllIs
<1>3. HeardAll(v, rs) = g[n]
  BY <1>2, HeardAllIs
<1> HIDE DEF n
<1> DEFINE bad == {k \in 0 .. n : ~Good(g[k], k)}
<1>4. CASE bad = {}
  <2>1. Good(g[n], n)
    <3> HIDE DEF Good
    <3>1. n \in 0 .. n /\ n \notin bad
      BY <1>1, <1>4
    <3> QED
      BY <3>1
  <2> QED
    BY <1>3, <2>1 DEF n
<1>5. CASE bad # {}
  <2>1. PICK k \in bad : \A j \in bad : k <= j
    <3>1. bad \in SUBSET Nat
      BY <1>1
    <3> QED
      BY <1>5, <3>1, LeastExists, Zenon
  <2>2. k # 0 /\ k \in 0 .. n
    BY <1>2, <2>1 DEF Along
  <2>3. k - 1 \in 0 .. n /\ k - 1 \notin bad /\ k \in 1 .. n
    BY <1>1, <2>1, <2>2
  <2>4. Good(g[k - 1], k - 1) /\ g[k - 1] \in View
    BY <2>3
  <2>5. g[k] = Heard(g[k - 1], rs[k])
    BY <1>1, <1>2, <2>3, <2>4 DEF Along, OneHeard
  <2>6. /\ NoRepeats(g[k]) /\ Known(g[k]) = Known(g[k - 1]) \ {rs[k].id}
        /\ g[k].objects = g[k - 1].objects
    <3> DEFINE w == g[k - 1]
               r == rs[k]
    <3>1. w \in View /\ NoRepeats(w)
      BY <2>4
    <3>2. r \in Response /\ r.cmd = "RemoveNPC"
      BY <1>1, <2>3
    <3> HIDE DEF w, r
    <3>3. /\ NoRepeats(Heard(w, r)) /\ Known(Heard(w, r)) = Known(w) \ {r.id}
          /\ Heard(w, r).objects = w.objects
      BY <3>1, <3>2, HeardIs
    <3> QED
      BY <2>5, <3>3 DEF w, r
  <2>7. \A j \in 1 .. k : j \in 1 .. k - 1 \/ j = k
    BY <1>1, <2>3
  <2>8. k \in 1 .. k /\ \A j \in 1 .. k - 1 : j \in 1 .. k
    BY <1>1, <2>3
  <2>9. Good(g[k], k)
    BY <2>4, <2>6, <2>7, <2>8
  <2> QED
    BY <2>1, <2>9
<1> QED
  BY <1>4, <1>5

-----------------------------------------------------------------------------
(* The NPCs that are not marked, and the copies of them.  *)

Alive(ns) == {ns[k].id : k \in {j \in 1 .. Len(ns) : ~ns[j].delete_me}}
DistinctIds(ns) == \A j, k \in 1 .. Len(ns) : ns[j].id = ns[k].id => j = k
NoneMarked(ns) == \A k \in 1 .. Len(ns) : ~ns[k].delete_me

LEMMA AliveIs ==
    ASSUME NEW ns, NEW x
    PROVE  x \in Alive(ns) <=> \E k \in 1 .. Len(ns) : ns[k].id = x /\ ~ns[k].delete_me
BY DEF Alive

LEMMA RemovedAlive ==
    ASSUME NEW ns \in Seq(Npc), DistinctIds(ns)
    PROVE  /\ RemoveMarked(ns) \in Seq(Npc) /\ DistinctIds(RemoveMarked(ns))
           /\ NoneMarked(RemoveMarked(ns)) /\ Alive(RemoveMarked(ns)) = Alive(ns)
<1> DEFINE r == RemoveMarked(ns)
<1>1. /\ r \in Seq(Npc)
      /\ \A n \in 1 .. Len(r) : \E k \in 1 .. Len(ns) : r[n] = ns[k] /\ ~ns[k].delete_me
      /\ \A k \in 1 .. Len(ns) : ~ns[k].delete_me => \E n \in 1 .. Len(r) : r[n] = ns[k]
      /\ \A m, n \in 1 .. Len(r) : r[m].id = r[n].id => m = n
  BY RemovedAre DEF DistinctIds
<1> HIDE DEF r
<1>2. \A x : x \in Alive(r) <=> x \in Alive(ns)
  <2>1. ASSUME NEW x, x \in Alive(r) PROVE x \in Alive(ns)
    <3>1. PICK n \in 1 .. Len(r) : r[n].id = x
      BY <2>1, AliveIs
    <3>2. PICK k \in 1 .. Len(ns) : r[n] = ns[k] /\ ~ns[k].delete_me
      BY <1>1
    <3> QED
      BY <3>1, <3>2, AliveIs
  <2>2. ASSUME NEW x, x \in Alive(ns) PROVE x \in Alive(r)
    <3>1. PICK k \in 1 .. Len(ns) : ns[k].id = x /\ ~ns[k].delete_me
      BY <2>2, AliveIs
    <3>2. PICK n \in 1 .. Len(r) : r[n] = ns[k]
      BY <1>1, <3>1
    <3> QED
      BY <3>1, <3>2, AliveIs
  <2> QED
    BY <2>1, <2>2
<1>3. DistinctIds(r) /\ NoneMarked(r)
  BY <1>1 DEF DistinctIds, NoneMarked
<1> QED
  BY <1>1, <1>2, <1>3 DEF r

LEMMA HitAlive ==
    ASSUME NEW ns \in Seq(Npc), NEW K \in SUBSET DOMAIN ns, NEW walking \in BOOLEAN,
           DistinctIds(ns)
    PROVE  /\ DistinctIds(HitNpcs(ns, K, walking))
           /\ ~walking => NoneMarked(HitNpcs(ns, K, walking))
           /\ \A x : x \in Alive(HitNpcs(ns, K, walking)) <=>
                       x \in Alive(ns) /\ \A k \in K : ns[k].id # x
<1> DEFINE m == Marked(ns, K)
<1>1. /\ m \in Seq(Npc) /\ Len(m) = Len(ns) /\ K \subseteq 1 .. Len(ns)
      /\ \A k \in 1 .. Len(ns) : m[k].id = ns[k].id /\ (m[k].delete_me <=> k \in K \/ ns[k].delete_me)
  <2>1. DOMAIN ns = 1 .. Len(ns)
    BY LenProperties
  <2> QED
    BY <2>1, MarkedAre
<1>2. HitNpcs(ns, K, walking) = IF walking THEN m ELSE RemoveMarked(m)
  BY DEF HitNpcs
<1> HIDE DEF m
<1>3. DistinctIds(m)
  BY <1>1 DEF DistinctIds
<1>4. \A x : x \in Alive(m) <=> x \in Alive(ns) /\ \A k \in K : ns[k].id # x
  <2>1. ASSUME NEW x, x \in Alive(m) PROVE x \in Alive(ns) /\ \A k \in K : ns[k].id # x
    <3>1. PICK k \in 1 .. Len(m) : m[k].id = x /\ ~m[k].delete_me
      BY <2>1, AliveIs
    <3>2. k \notin K /\ ns[k].id = x /\ ~ns[k].delete_me
      BY <1>1, <3>1
    <3>3. ASSUME NEW j \in K PROVE ns[j].id # x
      BY <1>1, <3>1, <3>2 DEF DistinctIds
    <3> QED
      BY <1>1, <3>2, <3>3, AliveIs
  <2>2. ASSUME NEW x, x \in Alive(ns), \A k \in K : ns[k].id # x PROVE x \in Alive(m)
    <3>1. PICK k \in 1 .. Len(ns) : ns[k].id = x /\ ~ns[k].delete_me
      BY <2>2, AliveIs
    <3>2. m[k].id = x /\ ~m[k].delete_me
      BY <1>1, <2>2, <3>1
    <3> QED
      BY <1>1, <3>2, AliveIs
  <2> QED
    BY <2>1, <2>2
<1>5. /\ DistinctIds(RemoveMarked(m)) /\ NoneMarked(RemoveMarked(m))
      /\ Alive(RemoveMarked(m)) = Alive(m)
  BY <1>1, <1>3, RemovedAlive
<1> QED
  BY <1>2, <1>3, <1>4, <1>5

(* Identifiers are not shared, and an NPC is marked only while it walks or *)
(* while somebody walks through the NPCs.                                  *)
NpcsSound ==
    /\ DistinctIds(npcs)
    /\ \A k \in 1 .. Len(npcs) : npcs[k].delete_me =>
         phase.at = "collide" \/ (phase.at = "npcs" /\ k < phase.next)

LEMMA NpcsSoundIs ==
    /\ NpcsSound /\ phase.at \notin {"collide", "npcs"} => DistinctIds(npcs) /\ NoneMarked(npcs)
    /\ DistinctIds(npcs) /\ NoneMarked(npcs) => NpcsSound
BY DEF NpcsSound, NoneMarked

LEMMA NpcsStep ==
    ASSUME ThingsTyped, SeatsSound, NpcsSound, [ArenaNext]_arena
    PROVE  NpcsSound'
<1>0. npcs \in Seq(Npc) /\ DistinctIds(npcs) /\ phase.next \in Nat /\ Len(npcs) \in Nat
  BY LenProperties DEF ThingsTyped, NpcsSound, Walk
<1>1. ASSUME npcs' = npcs, phase.at \notin {"collide", "npcs"} PROVE NpcsSound'
  BY <1>1 DEF NpcsSound
<1>2. ASSUME DistinctIds(npcs'), NoneMarked(npcs') PROVE NpcsSound'
  BY <1>2 DEF NpcsSound, NoneMarked
<1>3. CASE Handlers
  <2>1. phase.at = "handlers"
    BY <1>3 DEF Handlers, Login, Sync, Logout, Spectate, AskToPlay, FireAnimation, FireFrog,
                Fires, Handling
  <2>2. CASE npcs' = npcs
    BY <1>1, <2>1, <2>2
  <2>3. ASSUME NEW i \in Ids, FireFrog(i) PROVE NpcsSound'
    <3>1. PICK n \in Npc : npcs' = Append(npcs, n) /\ n.id = FreeNpcId /\ ~n.delete_me
      BY <2>3, FrogFired
    <3>2. /\ Len(npcs') = Len(npcs) + 1 /\ npcs'[Len(npcs) + 1] = n
          /\ \A k \in 1 .. Len(npcs) : npcs'[k] = npcs[k]
      BY <1>0, <3>1, AppendIs
    <3>3. \A k \in 1 .. Len(npcs') : k \in 1 .. Len(npcs) \/ k = Len(npcs) + 1
      BY <1>0, <3>2
    <3>4. \A k \in 1 .. Len(npcs) : npcs[k].id # n.id
      BY <1>0, <3>1, FreeNpcIs
    <3>5. NoneMarked(npcs)
      BY <2>1 DEF NpcsSound, NoneMarked
    <3>6. NoneMarked(npcs')
      BY <3>1, <3>2, <3>3, <3>5 DEF NoneMarked
    <3>7. DistinctIds(npcs')
      BY <1>0, <3>2, <3>3, <3>4 DEF DistinctIds
    <3> QED
      BY <1>2, <3>6, <3>7
  <2> QED
    BY <1>3, <2>2, <2>3 DEF Handlers, Login, Sync, Logout, Spectate, AskToPlay, FireAnimation
<1>4. CASE StartPass \/ AnimsDone \/ SpawnFrog \/ Broadcast
  <2>1. npcs' = npcs /\ phase.at \in {"handlers", "anims", "frog", "send"}
    BY <1>4 DEF StartPass, AnimsDone, SpawnFrog, Broadcast, Step, At
  <2> QED
    BY <1>1, <2>1
<1>5. CASE AnimStep
  <2>1. phase.at = "anims"
    BY <1>5 DEF AnimStep
  <2>2. CASE npcs' = npcs
    BY <1>1, <2>1, <2>2
  <2>3. ASSUME NEW K \in SUBSET DOMAIN npcs, npcs' = HitNpcs(npcs, K, FALSE) PROVE NpcsSound'
    BY <1>0, <1>2, <2>3, HitAlive
  <2> QED
    BY <1>5, <2>2, <2>3 DEF AnimStep, ShotFlies, BombLies, BombExplodes
<1>6. CASE NpcStep
  <2> DEFINE k == phase.next
             n == npcs[k]
  <2>1. k \in 1 .. Len(npcs) /\ phase.at = "npcs" /\ phase' = At("npcs", 0, k + 1)
    BY <1>0, <1>6, LenProperties DEF NpcStep
  <2>2. n \in Npc
    BY <1>0, <2>1, ElementOfSeq
  <2>3. PICK owner \in {n.init_owner, 0}, dies \in BOOLEAN :
          npcs' = [npcs EXCEPT ![k] = [n EXCEPT !.init_owner = owner, !.delete_me = dies]]
    BY <1>6, <2>1 DEF NpcStep
  <2> DEFINE m == [n EXCEPT !.init_owner = owner, !.delete_me = dies]
  <2>4. m.id = n.id
    <3> HIDE DEF n
    <3> QED
      BY <2>2 DEF Npc
  <2> HIDE DEF m
  <2>5. npcs' = [npcs EXCEPT ![k] = m]
    BY <2>3 DEF m
  <2>6. /\ Len(npcs') = Len(npcs) /\ npcs'[k] = m
        /\ \A j \in 1 .. Len(npcs) : j # k => npcs'[j] = npcs[j]
    BY <1>0, <2>1, <2>5
  <2>7. DistinctIds(npcs')
    BY <1>0, <2>4, <2>6 DEF DistinctIds
  <2>8. phase'.at = "npcs" /\ phase'.next = k + 1
    BY <2>1 DEF At
  <2>9. \A j \in 1 .. Len(npcs') : npcs'[j].delete_me => j < k + 1
    <3> SUFFICES ASSUME NEW j \in 1 .. Len(npcs), npcs'[j].delete_me PROVE j < k + 1
      BY <2>6
    <3>1. CASE j = k
      BY <1>0, <3>1
    <3>2. CASE j # k
      <4>1. npcs[j].delete_me /\ j < k
        BY <2>1, <2>6, <3>2 DEF NpcsSound
      <4> QED
        BY <1>0, <4>1
    <3> QED
      BY <3>1, <3>2
  <2> QED
    BY <2>7, <2>8, <2>9 DEF NpcsSound
<1>7. ASSUME npcs' = RemoveMarked(npcs) PROVE NpcsSound'
  BY <1>0, <1>2, <1>7, RemovedAlive
<1>8. CASE NpcsDone
  BY <1>7, <1>8 DEF NpcsDone
<1>9. ASSUME NEW i \in Ids, CollideDone(i) PROVE NpcsSound'
  BY <1>7, <1>9 DEF CollideDone
<1>10. ASSUME NEW i \in Ids, \/ PlayerMoves(i) \/ PicksDone(i)
                             \/ \E o \in DOMAIN objects : PlayerPicks(i, o)
       PROVE  NpcsSound'
  <2>1. npcs' = npcs /\ phase.at \in {"players", "picks"}
    <3>1. At("players", i, 0).at = "players"
      BY DEF At
    <3> QED
      BY <1>10, <3>1 DEF PlayerMoves, PicksDone, PlayerPicks
  <2> QED
    BY <1>1, <2>1
<1>11. ASSUME NEW i \in Ids, PlayerCollides(i) PROVE NpcsSound'
  <2>1. phase'.at = "collide"
    BY <1>11 DEF PlayerCollides, At
  <2>2. DistinctIds(npcs')
    <3>1. CASE npcs' = npcs
      BY <1>0, <3>1
    <3>2. ASSUME NEW K \in SUBSET DOMAIN npcs, npcs' = HitNpcs(npcs, K, TRUE)
          PROVE  DistinctIds(npcs')
      BY <1>0, <3>2, HitAlive
    <3> QED
      BY <1>11, <3>1, <3>2 DEF PlayerCollides
  <2> QED
    BY <2>1, <2>2 DEF NpcsSound
<1>12. CASE UNCHANGED arena
  BY <1>12 DEF arena, NpcsSound
<1> QED
  BY <1>3, <1>4, <1>5, <1>6, <1>8, <1>9, <1>10, <1>11, <1>12, Zenon DEF ArenaNext, Pass

-----------------------------------------------------------------------------
(* What a client's copy will be once he has heard what waits for him.      *)

Mirrors(v, ns, os) == NoRepeats(v) /\ v.objects = Lying(os) /\ Known(v) = Alive(ns)

ViewsSound ==
    \A i \in DOMAIN views :
        /\ views[i] \in View
        /\ Mirrors(HeardAll(views[i], responses), npcs, objects)

LEMMA ViewsKept ==
    ASSUME ViewsSound, DOMAIN views' \subseteq DOMAIN views,
           \A i \in DOMAIN views' : views'[i] = views[i], responses' = responses,
           Alive(npcs') = Alive(npcs), Lying(objects') = Lying(objects)
    PROVE  ViewsSound'
BY DEF ViewsSound, Mirrors

LEMMA ViewsTold ==
    ASSUME ViewsSound, ThingsTyped, views' = views, NEW r \in Response,
           responses' = Append(responses, r),
           \A v \in View : Mirrors(v, npcs, objects) => Mirrors(Heard(v, r), npcs', objects')
    PROVE  ViewsSound'
<1> SUFFICES ASSUME NEW i \in DOMAIN views
             PROVE  /\ views[i] \in View
                    /\ Mirrors(HeardAll(views[i], responses'), npcs', objects')
  BY DEF ViewsSound
<1> DEFINE w == views[i]
           v == HeardAll(w, responses)
<1>1. w \in View /\ Mirrors(v, npcs, objects) /\ responses \in Seq(Response)
  BY DEF ViewsSound, ThingsTyped
<1> HIDE DEF w
<1>2. v \in View /\ HeardAll(w, responses') = Heard(v, r)
  BY <1>1, HeardAllIs, HeardOn
<1> HIDE DEF v
<1>3. Mirrors(Heard(v, r), npcs', objects')
  BY <1>1, <1>2
<1> QED
  BY <1>1, <1>2, <1>3 DEF w

(* NPCs are hit, by shots, bombs or NPCs that explode.                     *)
LEMMA ViewsAnnounced ==
    ASSUME ViewsSound, ThingsTyped, DistinctIds(npcs), views' = views, objects' = objects,
           NEW K \in SUBSET DOMAIN npcs, NEW walking \in BOOLEAN,
           npcs' = HitNpcs(npcs, K, walking), responses' = responses \o Announced(K)
    PROVE  ViewsSound'
<1> SUFFICES ASSUME NEW i \in DOMAIN views
             PROVE  /\ views[i] \in View
                    /\ Mirrors(HeardAll(views[i], responses'), npcs', objects)
  BY DEF ViewsSound
<1> DEFINE w == views[i]
           v == HeardAll(w, responses)
           a == Announced(K)
           c == Cardinality(K)
<1>1. w \in View /\ Mirrors(v, npcs, objects) /\ responses \in Seq(Response) /\ npcs \in Seq(Npc)
  BY DEF ViewsSound, ThingsTyped
<1>2. /\ a \in Seq(Response) /\ Len(a) = c /\ \A n \in 1 .. c : a[n].cmd = "RemoveNPC"
      /\ \A n \in 1 .. c : NthOf(K, n) \in K /\ a[n].id = npcs[NthOf(K, n)].id
      /\ \A k \in K : \E n \in 1 .. c : NthOf(K, n) = k
  BY <1>1, AnnouncedAre
<1>3. responses' = responses \o a
  OBVIOUS
<1> HIDE DEF w, a, c
<1>4. v \in View /\ HeardAll(w, responses') = HeardAll(v, a)
  BY <1>1, <1>2, <1>3, HeardAllIs, HeardOn
<1> HIDE DEF v
<1>5. NoRepeats(v) /\ v.objects = Lying(objects) /\ Known(v) = Alive(npcs)
  BY <1>1 DEF Mirrors
<1>6. /\ NoRepeats(HeardAll(v, a)) /\ HeardAll(v, a).objects = v.objects
      /\ \A x : x \in Known(HeardAll(v, a)) <=>
           x \in Known(v) /\ \A n \in 1 .. c : a[n].id # x
  <2>1. \A n \in 1 .. Len(a) : a[n].cmd = "RemoveNPC"
    BY <1>2
  <2>2. /\ NoRepeats(HeardAll(v, a)) /\ HeardAll(v, a).objects = v.objects
        /\ \A x : x \in Known(HeardAll(v, a)) <=>
             x \in Known(v) /\ \A n \in 1 .. Len(a) : a[n].id # x
    BY <1>2, <1>4, <1>5, <2>1, RemovalsHeard
  <2> QED
    BY <1>2, <2>2
<1>7. \A x : (\A n \in 1 .. c : a[n].id # x) <=> \A k \in K : npcs[k].id # x
  <2>1. ASSUME NEW x, \A k \in K : npcs[k].id # x, NEW n \in 1 .. c PROVE a[n].id # x
    BY <1>2, <2>1
  <2>2. ASSUME NEW x, \A n \in 1 .. c : a[n].id # x, NEW k \in K PROVE npcs[k].id # x
    <3>1. PICK n \in 1 .. c : NthOf(K, n) = k
      BY <1>2
    <3>2. a[n].id = npcs[k].id
      BY <1>2, <3>1
    <3> QED
      BY <2>2, <3>2
  <2> QED
    BY <2>1, <2>2
<1>8. \A x : x \in Alive(npcs') <=> x \in Alive(npcs) /\ \A k \in K : npcs[k].id # x
  BY <1>1, HitAlive
<1>9. Known(HeardAll(v, a)) = Alive(npcs')
  <2>1. ASSUME NEW x PROVE x \in Known(HeardAll(v, a)) <=> x \in Alive(npcs')
    <3>1. x \in Known(HeardAll(v, a)) <=> x \in Alive(npcs) /\ \A k \in K : npcs[k].id # x
      BY <1>5, <1>6, <1>7
    <3> QED
      BY <1>8, <3>1
  <2> QED
    BY <2>1, Zenon
<1> QED
  BY <1>1, <1>4, <1>5, <1>6, <1>9 DEF Mirrors, w

LEMMA ViewsStep ==
    ASSUME ThingsTyped, SeatsSound, NpcsSound, ViewsSound, [ArenaNext]_arena
    PROVE  ViewsSound'
<1>0. /\ npcs \in Seq(Npc) /\ DistinctIds(npcs) /\ phase.next \in Nat /\ Len(npcs) \in Nat
      /\ responses \in Seq(Response) /\ DOMAIN objects \subseteq Nat
  BY LenProperties DEF ThingsTyped, ObjectsTyped, NpcsSound, Walk
<1>1. ASSUME views' = views, responses' = responses, npcs' = npcs, objects' = objects
      PROVE  ViewsSound'
  BY <1>1, ViewsKept
<1>2. ASSUME NEW K \in SUBSET DOMAIN npcs, NEW walking \in BOOLEAN, views' = views,
             objects' = objects, npcs' = HitNpcs(npcs, K, walking),
             responses' = responses \o Announced(K)
      PROVE  ViewsSound'
  BY <1>0, <1>2, ViewsAnnounced
<1>3. ASSUME npcs' = RemoveMarked(npcs), views' = views, responses' = responses,
             objects' = objects
      PROVE  ViewsSound'
  <2>1. Alive(npcs') = Alive(npcs)
    BY <1>0, <1>3, RemovedAlive
  <2> QED
    BY <1>3, <2>1, ViewsKept
<1>4. ASSUME \/ \E p \in Persons : Login(p)
             \/ \E i \in Ids : \/ Spectate(i) \/ AskToPlay(i)
                               \/ \E w \in {"shot", "bomb"} : FireAnimation(i, w)
      PROVE  ViewsSound'
  BY <1>1, <1>4 DEF Login, Spectate, AskToPlay, FireAnimation, Fires
<1>5. ASSUME NEW i \in Ids, Logout(i) PROVE ViewsSound'
  <2>1. /\ views' = [j \in DOMAIN views \ {i} |-> views[j]] /\ responses' = responses
        /\ npcs' = npcs /\ objects' = objects
    BY <1>5 DEF Logout
  <2> QED
    BY <2>1, ViewsKept
<1>6. ASSUME NEW i \in Ids, Sync(i) PROVE ViewsSound'
  <2>1. CASE responses # << >>
    <3>1. DOMAIN views' = {}
      BY <1>6, <2>1, EmptyHere DEF Sync
    <3> QED
      BY <3>1 DEF ViewsSound
  <2>2. CASE responses = << >>
    <3> DEFINE v == SyncedView
    <3>1. /\ views' = [j \in DOMAIN views \cup {i} |-> IF j = i THEN v ELSE views[j]]
          /\ responses' = responses /\ npcs' = npcs /\ objects' = objects
          /\ phase.at = "handlers"
      BY <1>6, <2>2 DEF Sync, Handling
    <3>2. NoneMarked(npcs)
      BY <3>1, NpcsSoundIs
    <3> DEFINE s == [k \in DOMAIN npcs |-> npcs[k].id]
    <3>3. s \in Seq(Nat) /\ Len(s) = Len(npcs) /\ \A k \in 1 .. Len(npcs) : s[k] = npcs[k].id
      <4>1. DOMAIN npcs = 1 .. Len(npcs) /\ \A k \in 1 .. Len(npcs) : s[k] = npcs[k].id
        BY <1>0, LenProperties
      <4>2. \A k \in 1 .. Len(npcs) : npcs[k].id \in Nat
        BY <1>0, ElementOfSeq, NpcsAre
      <4>3. s = [k \in DOMAIN npcs |-> s[k]]
        OBVIOUS
      <4> HIDE DEF s
      <4> QED
        BY <1>0, <4>1, <4>2, <4>3, EachIs
    <3>4. v = [npcs |-> s, objects |-> Lying(objects)]
      BY DEF SyncedView
    <3> HIDE DEF s, v
    <3>5. v.npcs = s /\ v.objects = Lying(objects)
      BY <3>4
    <3>6. v \in View
      BY <1>0, <3>3, <3>4 DEF View, Lying
    <3>7. NoRepeats(v)
      BY <1>0, <3>3, <3>5 DEF NoRepeats, DistinctIds
    <3>8. \A x : x \in Known(v) <=> \E k \in 1 .. Len(npcs) : npcs[k].id = x
      BY <3>3, <3>5 DEF Known
    <3>9. \A x : x \in Known(v) <=> x \in Alive(npcs)
      BY <3>2, <3>8, AliveIs DEF NoneMarked
    <3>10. Mirrors(v, npcs, objects)
      BY <3>5, <3>7, <3>9 DEF Mirrors
    <3>11. HeardAll(v, responses) = v
      BY <1>0, <2>2, <3>6, HeardOn
    <3> QED
      BY <3>1, <3>6, <3>10, <3>11 DEF ViewsSound
  <2> QED
    BY <2>1, <2>2
<1>7. ASSUME NEW i \in Ids, FireFrog(i) PROVE ViewsSound'
  <2>1. PICK n \in Npc :
          /\ npcs' = Append(npcs, n) /\ n.id = FreeNpcId /\ ~n.delete_me
          /\ responses' = Append(responses, Say("SpawnNPC", FreeNpcId))
          /\ Say("SpawnNPC", FreeNpcId) \in Response
    BY <1>7, FrogFired
  <2> DEFINE r == Say("SpawnNPC", FreeNpcId)
  <2>2. r.cmd = "SpawnNPC" /\ r.id = n.id /\ r \in Response /\ responses' = Append(responses, r)
    BY <2>1 DEF Say
  <2> HIDE DEF r
  <2>3. views' = views /\ objects' = objects
    BY <1>7 DEF FireFrog, Fires
  <2>4. /\ Len(npcs') = Len(npcs) + 1 /\ npcs'[Len(npcs) + 1] = n
        /\ \A k \in 1 .. Len(npcs) : npcs'[k] = npcs[k]
    BY <1>0, <2>1, AppendIs
  <2>5. \A k \in 1 .. Len(npcs) : npcs[k].id # n.id
    BY <1>0, <2>1, FreeNpcIs
  <2>6. \A k : k \in 1 .. Len(npcs') <=> k \in 1 .. Len(npcs) \/ k = Len(npcs) + 1
    BY <1>0, <2>4
  <2>7. \A x : x \in Alive(npcs') <=> x \in Alive(npcs) \cup {n.id}
    <3>1. ASSUME NEW x, x \in Alive(npcs') PROVE x \in Alive(npcs) \cup {n.id}
      <4>1. PICK k \in 1 .. Len(npcs') : npcs'[k].id = x /\ ~npcs'[k].delete_me
        BY <3>1, AliveIs
      <4>2. CASE k \in 1 .. Len(npcs)
        BY <2>4, <4>1, <4>2, AliveIs
      <4>3. CASE k = Len(npcs) + 1
        BY <2>4, <4>1, <4>3
      <4> QED
        BY <2>6, <4>2, <4>3
    <3>2. ASSUME NEW x, x \in Alive(npcs) PROVE x \in Alive(npcs')
      <4>1. PICK k \in 1 .. Len(npcs) : npcs[k].id = x /\ ~npcs[k].delete_me
        BY <3>2, AliveIs
      <4>2. k \in 1 .. Len(npcs') /\ npcs'[k].id = x /\ ~npcs'[k].delete_me
        BY <2>4, <2>6, <4>1
      <4> QED
        BY <4>2, AliveIs
    <3>3. n.id \in Alive(npcs')
      <4>1. Len(npcs) + 1 \in 1 .. Len(npcs')
        BY <2>6
      <4> DEFINE k == Len(npcs) + 1
      <4>2. k \in 1 .. Len(npcs') /\ npcs'[k].id = n.id /\ ~npcs'[k].delete_me
        BY <2>1, <2>4, <4>1
      <4> HIDE DEF k
      <4>3. \E j \in 1 .. Len(npcs') : npcs'[j].id = n.id /\ ~npcs'[j].delete_me
        BY <4>2
      <4> QED
        BY <4>3, AliveIs
    <3> QED
      BY <3>1, <3>2, <3>3
  <2>8. n.id \notin Alive(npcs)
    BY <2>5, AliveIs
  <2>9. ASSUME NEW v \in View, Mirrors(v, npcs, objects)
        PROVE  Mirrors(Heard(v, r), npcs', objects')
    <3>1. /\ NoRepeats(Heard(v, r)) /\ Known(Heard(v, r)) = Known(v) \cup {r.id}
          /\ Heard(v, r).objects = v.objects
      BY <2>2, <2>8, <2>9, HeardIs DEF Mirrors
    <3>2. Known(Heard(v, r)) = Alive(npcs')
      BY <2>2, <2>7, <2>9, <3>1 DEF Mirrors
    <3> QED
      BY <2>3, <2>9, <3>1, <3>2 DEF Mirrors
  <2> QED
    BY <2>2, <2>3, <2>9, ViewsTold
<1>8. ASSUME NEW o \in Nat, NEW c \in {"PlaceObject", "SpawnObject"},
             responses' = Append(responses, Say(c, o)), views' = views, npcs' = npcs,
             Lying(objects') = Lying(objects) \cup {o}
      PROVE  ViewsSound'
  <2> DEFINE r == Say(c, o)
  <2>1. r.cmd = c /\ r.id = o /\ r \in Response /\ responses' = Append(responses, r)
    BY <1>8, SayIs
  <2> HIDE DEF r
  <2>2. ASSUME NEW v \in View, Mirrors(v, npcs, objects)
        PROVE  Mirrors(Heard(v, r), npcs', objects')
    <3>1. Heard(v, r).npcs = v.npcs /\ Heard(v, r).objects = v.objects \cup {o}
      BY <2>1, HeardIs
    <3> QED
      BY <1>8, <2>2, <3>1 DEF Mirrors, NoRepeats, Known
  <2> QED
    BY <1>8, <2>1, <2>2, ViewsTold
<1>9. CASE StartPass
  <2>1. CASE UNCHANGED <<objects, responses>>
    BY <1>1, <1>9, <2>1 DEF StartPass
  <2>2. ASSUME NEW o \in DOMAIN objects, objects[o].picked,
               objects' = [objects EXCEPT ![o].picked = FALSE],
               responses' = Append(responses, Say("PlaceObject", o))
        PROVE  ViewsSound'
    <3>1. objects[o] \in Object
      BY DEF ThingsTyped, ObjectsTyped
    <3> DEFINE u == [objects[o] EXCEPT !.picked = FALSE]
    <3>2. ~u.picked
      BY <3>1 DEF Object
    <3> HIDE DEF u
    <3>3. objects' = [objects EXCEPT ![o] = u]
      BY <2>2 DEF u
    <3>4. Lying(objects') = Lying(objects) \cup {o}
      BY <3>2, <3>3 DEF Lying
    <3> QED
      BY <1>0, <1>8, <1>9, <2>2, <3>4 DEF StartPass
  <2> QED
    BY <1>9, <2>1, <2>2 DEF StartPass
<1>10. CASE SpawnFrog
  <2>1. CASE UNCHANGED <<objects, responses>>
    BY <1>1, <1>10, <2>1 DEF SpawnFrog
  <2>2. CASE ~ UNCHANGED <<objects, responses>>
    <3> DEFINE f == FreeObjectId
    <3>1. /\ objects' = [o \in DOMAIN objects \cup {f} |->
                IF o = f THEN [kind |-> "frog", picked |-> FALSE, spawned |-> TRUE]
                ELSE objects[o]]
          /\ responses' = Append(responses, Say("SpawnObject", f))
          /\ views' = views /\ npcs' = npcs
      BY <1>10, <2>2 DEF SpawnFrog
    <3>2. f \in Nat /\ f \notin DOMAIN objects
      BY FreeObjectIs DEF ThingsTyped, ObjectsTyped
    <3> HIDE DEF f
    <3>3. Lying(objects') = Lying(objects) \cup {f}
      BY <3>1, <3>2 DEF Lying
    <3> QED
      BY <1>8, <3>1, <3>2, <3>3
  <2> QED
    BY <2>1, <2>2
<1>11. CASE AnimStep
  BY <1>1, <1>2, <1>11 DEF AnimStep, ShotFlies, BombLies, BombExplodes
<1>12. CASE NpcStep
  <2> DEFINE k == phase.next
             n == npcs[k]
  <2>1. k \in 1 .. Len(npcs) /\ phase.at = "npcs" /\ views' = views /\ objects' = objects
    BY <1>0, <1>12, LenProperties DEF NpcStep
  <2>2. n \in Npc
    BY <1>0, <2>1, ElementOfSeq
  <2>3. PICK owner \in {n.init_owner, 0}, dies \in BOOLEAN :
          /\ npcs' = [npcs EXCEPT ![k] = [n EXCEPT !.init_owner = owner, !.delete_me = dies]]
          /\ responses' = IF dies THEN Append(responses, Say("RemoveNPC", n.id)) ELSE responses
    BY <1>12, <2>1 DEF NpcStep
  <2> DEFINE m == [n EXCEPT !.init_owner = owner, !.delete_me = dies]
             r == Say("RemoveNPC", n.id)
  <2>4. m.id = n.id /\ m.delete_me = dies /\ n.id \in Nat
    <3> HIDE DEF n
    <3> QED
      BY <2>2 DEF Npc
  <2>5. r \in Response /\ r.cmd = "RemoveNPC" /\ r.id = n.id
    BY <2>4, SayIs
  <2> HIDE DEF m, r
  <2>6. npcs' = [npcs EXCEPT ![k] = m] /\ responses' = IF dies THEN Append(responses, r) ELSE responses
    BY <2>3 DEF m, r
  <2>7. /\ Len(npcs') = Len(npcs) /\ npcs'[k] = m
        /\ \A j \in 1 .. Len(npcs) : j # k => npcs'[j] = npcs[j]
    BY <1>0, <2>1, <2>6
  <2>8. ~n.delete_me
    BY <1>0, <2>1 DEF NpcsSound
  <2>9. \A j \in 1 .. Len(npcs) : j # k => npcs[j].id # n.id
    BY <1>0, <2>1 DEF DistinctIds
  <2>10. CASE ~dies
    <3>1. \A x : x \in Alive(npcs') <=> x \in Alive(npcs)
      BY <2>1, <2>4, <2>7, <2>8, <2>10, AliveIs
    <3>2. Alive(npcs') = Alive(npcs)
      BY <3>1
    <3> QED
      BY <2>1, <2>6, <2>10, <3>2, ViewsKept
  <2>11. CASE dies
    <3>1. \A x : x \in Alive(npcs') <=> x \in Alive(npcs) \ {n.id}
      <4>1. ASSUME NEW x, x \in Alive(npcs') PROVE x \in Alive(npcs) \ {n.id}
        <5>1. PICK j \in 1 .. Len(npcs) : npcs'[j].id = x /\ ~npcs'[j].delete_me
          BY <2>7, <4>1, AliveIs
        <5>2. j # k
          BY <2>4, <2>7, <2>11, <5>1
        <5>3. npcs[j].id = x /\ ~npcs[j].delete_me /\ x # n.id
          BY <2>7, <2>9, <5>1, <5>2
        <5> QED
          BY <5>3, AliveIs
      <4>2. ASSUME NEW x, x \in Alive(npcs), x # n.id PROVE x \in Alive(npcs')
        <5>1. PICK j \in 1 .. Len(npcs) : npcs[j].id = x /\ ~npcs[j].delete_me
          BY <4>2, AliveIs
        <5>2. npcs'[j].id = x /\ ~npcs'[j].delete_me
          BY <2>7, <4>2, <5>1
        <5> QED
          BY <2>7, <5>2, AliveIs
      <4> QED
        BY <4>1, <4>2
    <3>2. ASSUME NEW v \in View, Mirrors(v, npcs, objects)
          PROVE  Mirrors(Heard(v, r), npcs', objects')
      <4>1. /\ NoRepeats(Heard(v, r)) /\ Known(Heard(v, r)) = Known(v) \ {r.id}
            /\ Heard(v, r).objects = v.objects
        BY <2>5, <3>2, HeardIs DEF Mirrors
      <4>2. Known(Heard(v, r)) = Alive(npcs')
        BY <2>5, <3>1, <3>2, <4>1 DEF Mirrors
      <4> QED
        BY <2>1, <3>2, <4>1, <4>2 DEF Mirrors
    <3>3. responses' = Append(responses, r)
      BY <2>6, <2>11
    <3> QED
      BY <2>1, <2>5, <3>2, <3>3, ViewsTold
  <2> QED
    BY <2>10, <2>11
<1>13. CASE AnimsDone
  BY <1>1, <1>13 DEF AnimsDone
<1>14. CASE NpcsDone
  BY <1>3, <1>14 DEF NpcsDone
<1>15. ASSUME NEW i \in Ids, CollideDone(i) PROVE ViewsSound'
  BY <1>3, <1>15 DEF CollideDone
<1>16. ASSUME NEW i \in Ids, PlayerMoves(i) \/ PicksDone(i) PROVE ViewsSound'
  BY <1>1, <1>16 DEF PlayerMoves, PicksDone
<1>17. ASSUME NEW i \in Ids, PlayerCollides(i) PROVE ViewsSound'
  BY <1>1, <1>2, <1>17 DEF PlayerCollides
<1>18. ASSUME NEW i \in Ids, NEW o \in DOMAIN objects, PlayerPicks(i, o) PROVE ViewsSound'
  <2> DEFINE r == Say("PickObject", o)
  <2>1. o \in Nat /\ objects[o] \in Object
    BY <1>0 DEF ThingsTyped, ObjectsTyped
  <2>2. r.cmd = "PickObject" /\ r.id = o /\ r \in Response
    BY <2>1, SayIs
  <2>3. responses' = Append(responses, r) /\ views' = views /\ npcs' = npcs
    BY <1>18 DEF PlayerPicks
  <2> HIDE DEF r
  <2>4. Lying(objects') = Lying(objects) \ {o}
    <3>1. CASE objects' = [j \in DOMAIN objects \ {o} |-> objects[j]]
      BY <3>1 DEF Lying
    <3>2. CASE objects' = [objects EXCEPT ![o].picked = TRUE]
      <4> DEFINE u == [objects[o] EXCEPT !.picked = TRUE]
      <4>1. u.picked
        BY <2>1 DEF Object
      <4> HIDE DEF u
      <4>2. objects' = [objects EXCEPT ![o] = u]
        BY <3>2 DEF u
      <4> QED
        BY <4>1, <4>2 DEF Lying
    <3> QED
      BY <1>18, <3>1, <3>2 DEF PlayerPicks
  <2>5. ASSUME NEW v \in View, Mirrors(v, npcs, objects)
        PROVE  Mirrors(Heard(v, r), npcs', objects')
    <3>1. Heard(v, r).npcs = v.npcs /\ Heard(v, r).objects = v.objects \ {o}
      BY <2>2, HeardIs
    <3> QED
      BY <2>3, <2>4, <2>5, <3>1 DEF Mirrors, NoRepeats, Known
  <2> QED
    BY <2>2, <2>3, <2>5, ViewsTold
<1>19. CASE Broadcast
  <2>1. /\ views' = [i \in DOMAIN views |-> HeardAll(views[i], responses)] /\ responses' = << >>
        /\ npcs' = npcs /\ objects' = objects
    BY <1>19 DEF Broadcast
  <2>2. ASSUME NEW i \in DOMAIN views
        PROVE  /\ views'[i] \in View /\ HeardAll(views'[i], << >>) = views'[i]
               /\ Mirrors(views'[i], npcs, objects)
    <3> DEFINE w == views[i]
               v == HeardAll(w, responses)
    <3>1. w \in View /\ Mirrors(v, npcs, objects) /\ views'[i] = v
      BY <2>1 DEF ViewsSound
    <3> HIDE DEF w
    <3>2. v \in View
      BY <1>0, <3>1, HeardAllIs
    <3> HIDE DEF v
    <3>3. HeardAll(v, << >>) = v
      BY <1>0, <3>2, HeardOn
    <3> QED
      BY <3>1, <3>2, <3>3
  <2> QED
    BY <2>1, <2>2 DEF ViewsSound
<1>20. CASE UNCHANGED arena
  BY <1>1, <1>20 DEF arena
<1> QED
  BY <1>4, <1>5, <1>6, <1>7, <1>9, <1>10, <1>11, <1>12, <1>13, <1>14, <1>15, <1>16, <1>17,
     <1>18, <1>19, <1>20, Zenon DEF ArenaNext, Handlers, Pass

(* The server tells the clients of every NPC and object that comes or      *)
(* goes, so that after a broadcast each copy is what the server has; an    *)
(* identifier given again, and a removal announced twice, do not mislead.  *)
THEOREM ReplicasCorrect == ArenaSpec => []ReplicasAgree
<1>1. ArenaInit => NpcsSound /\ ViewsSound
  <2> SUFFICES ASSUME ArenaInit PROVE NpcsSound /\ ViewsSound
    OBVIOUS
  <2>1. Len(npcs) = 0 /\ DOMAIN views = {}
    BY EmptyHere DEF ArenaInit
  <2> QED
    BY <2>1 DEF NpcsSound, DistinctIds, ViewsSound
<1>2. ThingsTyped /\ SeatsSound /\ NpcsSound /\ ViewsSound /\ [ArenaNext]_arena
        => (NpcsSound /\ ViewsSound)'
  BY NpcsStep, ViewsStep
<1>3. ThingsTyped /\ NpcsSound /\ ViewsSound => ReplicasAgree
  <2> SUFFICES ASSUME ThingsTyped, NpcsSound, ViewsSound, Handling, responses = << >>,
                      NEW i \in DOMAIN views
               PROVE  /\ IsInjective(views[i].npcs)
                      /\ Range(views[i].npcs) = {npcs[k].id : k \in DOMAIN npcs}
                      /\ views[i].objects = Lying(objects)
    BY DEF ReplicasAgree
  <2> DEFINE v == views[i]
             s == v.npcs
  <2>1. v \in View /\ Mirrors(HeardAll(v, << >>), npcs, objects)
    BY DEF ViewsSound
  <2> HIDE DEF v
  <2>2. HeardAll(v, << >>) = v
    BY <2>1, EmptyHere, HeardOn
  <2>3. NoRepeats(v) /\ v.objects = Lying(objects) /\ Known(v) = Alive(npcs)
    BY <2>1, <2>2 DEF Mirrors
  <2>4. DOMAIN s = 1 .. Len(s) /\ DOMAIN npcs = 1 .. Len(npcs)
    BY <2>1, ViewsAre, LenProperties DEF ThingsTyped
  <2>5. IsInjective(s)
    BY <2>3, <2>4 DEF IsInjective, NoRepeats
  <2>6. NoneMarked(npcs)
    BY NpcsSoundIs DEF Handling
  <2>7. \A x : x \in Range(s) <=> x \in Known(v)
    BY <2>4 DEF Range, Known
  <2>8. \A x : x \in {npcs[k].id : k \in DOMAIN npcs} <=> x \in Alive(npcs)
    BY <2>4, <2>6, AliveIs DEF NoneMarked
  <2> QED
    BY <2>3, <2>5, <2>7, <2>8 DEF v
<1> QED
  BY <1>1, <1>2, <1>3, ArenaCorrect, PTL DEF ArenaSpec

(* The types of the arena: what a client knows, he knows while he has his  *)
(* seat, and identifiers stay as few as there are people.                  *)
THEOREM ArenaTypeCorrect == ArenaSpec => []ArenaTypeOK
<1> DEFINE Seated == DOMAIN views \subseteq Ids
<1>1. ArenaInit => Seated /\ NpcsSound /\ ViewsSound
  <2> SUFFICES ASSUME ArenaInit PROVE Seated /\ NpcsSound /\ ViewsSound
    OBVIOUS
  <2>1. Len(npcs) = 0 /\ DOMAIN views = {}
    BY EmptyHere DEF ArenaInit
  <2> QED
    BY <2>1 DEF NpcsSound, DistinctIds, ViewsSound
<1>2. ThingsTyped /\ SeatsSound /\ NpcsSound /\ ViewsSound /\ [ArenaNext]_arena
        => (NpcsSound /\ ViewsSound)'
  BY NpcsStep, ViewsStep
<1>3. ThingsTyped /\ SeatsSound /\ Seated /\ [ArenaNext]_arena => Seated'
  <2> SUFFICES ASSUME ThingsTyped, SeatsSound, Seated, [ArenaNext]_arena PROVE Seated'
    OBVIOUS
  <2>1. ASSUME Ids' = Ids, DOMAIN views' \subseteq DOMAIN views PROVE Seated'
    BY <2>1
  <2>2. CASE Pass
    <3>1. Ids' = Ids
      BY <2>2, PassSeats DEF ThingsTyped, SameSeats
    <3>2. DOMAIN views' \subseteq DOMAIN views
      BY <2>2 DEF Pass, StartPass, AnimStep, AnimsDone, SpawnFrog, NpcStep, NpcsDone, PlayerMoves,
                  PicksDone, PlayerPicks, PlayerCollides, CollideDone, Broadcast
    <3> QED
      BY <2>1, <3>1, <3>2
  <2>3. ASSUME NEW i \in Ids, \/ Spectate(i) \/ AskToPlay(i) \/ FireFrog(i)
                              \/ \E w \in {"shot", "bomb"} : FireAnimation(i, w)
        PROVE  Seated'
    <3>1. Ids' = Ids
      BY <2>3, HandlersSeats DEF SameSeats
    <3>2. views' = views
      BY <2>3 DEF Spectate, AskToPlay, FireFrog, FireAnimation, Fires
    <3> QED
      BY <3>1, <3>2
  <2>4. ASSUME NEW i \in Ids, Sync(i) PROVE Seated'
    <3>1. Ids' = Ids
      BY <2>4, HandlersSeats DEF SameSeats
    <3>2. DOMAIN views' \subseteq DOMAIN views \cup {i}
      BY <2>4, EmptyHere DEF Sync
    <3> QED
      BY <3>1, <3>2
  <2>5. ASSUME NEW i \in Ids, Logout(i) PROVE Seated'
    <3>1. Ids' = Ids \ {i}
      BY <2>5, LogoutSeats
    <3>2. DOMAIN views' = DOMAIN views \ {i}
      BY <2>5 DEF Logout
    <3> QED
      BY <3>1, <3>2
  <2>6. ASSUME NEW p \in Persons, Login(p) PROVE Seated'
    <3>1. Ids \subseteq Ids'
      BY <2>6, LoginSeats
    <3>2. views' = views
      BY <2>6 DEF Login
    <3> QED
      BY <3>1, <3>2
  <2>7. CASE UNCHANGED arena
    BY <2>7 DEF arena, Ids
  <2> QED
    BY <2>2, <2>3, <2>4, <2>5, <2>6, <2>7, Zenon DEF ArenaNext, Handlers
<1>4. ThingsTyped /\ SeatsSound /\ Seated /\ ViewsSound => ArenaTypeOK
  BY DEF ThingsTyped, ObjectsTyped, SeatsSound, ViewsSound, ArenaTypeOK
<1> QED
  BY <1>1, <1>2, <1>3, <1>4, ArenaCorrect, PTL DEF ArenaSpec

-----------------------------------------------------------------------------
(* How a player moves (module Physics), over maps of every kind.  What a   *)
(* one-way tile compares with is never above the place he was at: that is  *)
(* MoverSound, and with it no such tile can lift him.                      *)

Mover == [x : Int, y : Int, ax : Int, ay : Int, jump : Int, last : Int,
          falling : BOOLEAN, released : BOOLEAN, dead : BOOLEAN]
MoverSound ==
    /\ player \in Mover /\ terrain \in DOMAIN Terrains
    /\ player.ay <= YMax /\ player.jump <= 0
    /\ player.dead \/ player.last >= player.y \/ player.last = NeverFell

LEMMA MinOfTwo ==
    ASSUME NEW a \in Int, NEW b \in Int
    PROVE  /\ Min({a, b}) \in {a, b} /\ Min({a, b}) <= a /\ Min({a, b}) <= b
           /\ Max({a, b}) \in {a, b} /\ Max({a, b}) >= a /\ Max({a, b}) >= b
<1>1. \E z \in {a, b} : \A y \in {a, b} : z <= y
  OBVIOUS
<1>2. \E z \in {a, b} : \A y \in {a, b} : z >= y
  OBVIOUS
<1> QED BY <1>1, <1>2 DEF Min, Max

LEMMA NeverFellIs == NeverFell \in Nat
BY SMT DEF NeverFell

LEMMA QuotientIs ==
    ASSUME NEW n \in Int
    PROVE  /\ Quotient(n) \in Int /\ Quotient(n) * Tile \in Int
           /\ Quotient(Quotient(n) * Tile) = Quotient(n)
<1>1. Tile \in Nat /\ Tile > 0
  BY PhysicsAssumption
<1>2. \A k \in Nat : k \div Tile \in Nat /\ (k \div Tile) * Tile \in Nat /\ ((k \div Tile) * Tile) \div Tile = k \div Tile
  BY <1>1
<1>3. CASE n >= 0
  BY <1>1, <1>2, <1>3 DEF Quotient
<1>4. CASE n < 0
  <2> DEFINE q == (-n) \div Tile
  <2>1. q \in Nat /\ q * Tile \in Nat /\ (q * Tile) \div Tile = q /\ Quotient(n) = -q
    BY <1>2, <1>4 DEF Quotient
  <2> HIDE DEF q
  <2>2. (-q) * Tile = -(q * Tile) /\ -(-(q * Tile)) = q * Tile
    BY <1>1, <2>1
  <2>3. CASE q * Tile = 0
    <3>1. q = 0
      BY <1>1, <2>1, <2>3
    <3> QED BY <1>1, <2>1, <2>3, <3>1 DEF Quotient
  <2>4. CASE q * Tile > 0
    BY <2>1, <2>2, <2>4 DEF Quotient
  <2> QED BY <2>1, <2>3, <2>4
<1> QED BY <1>3, <1>4

LEMMA StepsIs ==
    ASSUME NEW length \in Nat \ {0}
    PROVE  Steps(length) \in Seq(Int)
<1>1. Tile \in Nat /\ Tile > 0
  BY PhysicsAssumption
<1> DEFINE n == (length - 1) \div Tile + 1
<1>2. n \in Nat
  BY <1>1
<1> HIDE DEF n
<1>3. \A i \in 1 .. n : (i - 1) * Tile \in Int
  BY <1>1, <1>2
<1>4. [i \in 1 .. n |-> (i - 1) * Tile] \in Seq(Int)
  BY <1>2, <1>3
<1> QED BY <1>4 DEF Steps, n

(* The points along the lower edge of the box, and their columns.          *)
Columns(x) == {x + Box.x + Steps(Box.width)[i] : i \in DOMAIN Steps(Box.width)} \cup {x + Box.x + Box.width - 1}

LEMMA EdgeIs ==
    ASSUME NEW x \in Int, NEW y \in Int
    PROVE  /\ Columns(x) \subseteq Int
           /\ Range(Edge(x, y)) = {<<h, y>> : h \in Columns(x)}
<1>1. Box.x \in Int /\ Box.width \in Nat \ {0}
  BY PhysicsAssumption
<1> DEFINE st == Steps(Box.width)
           f == [i \in DOMAIN st |-> <<x + Box.x + st[i], y>>]
           last == <<x + Box.x + Box.width - 1, y>>
<1>2. st \in Seq(Int)
  BY <1>1, StepsIs
<1>3. Edge(x, y) = Append(f, last)
  BY DEF Edge
<1>4. Columns(x) = {x + Box.x + st[i] : i \in DOMAIN st} \cup {x + Box.x + Box.width - 1}
  BY DEF Columns
<1> HIDE DEF st
<1>5. Len(st) \in Nat /\ DOMAIN st = 1 .. Len(st) /\ \A i \in 1 .. Len(st) : st[i] \in Int
  BY <1>2
<1>6. f \in Seq(Int \X Int) /\ Len(f) = Len(st) /\ last \in Int \X Int
  <2>1. \A i \in DOMAIN st : <<x + Box.x + st[i], y>> \in Int \X Int
    BY <1>1, <1>5
  <2>2. f \in [1 .. Len(st) -> Int \X Int]
    BY <1>5, <2>1
  <2> HIDE DEF f
  <2>3. f \in Seq(Int \X Int) /\ Len(f) = Len(st)
    BY <1>5, <2>2
  <2> QED BY <1>1, <2>3
<1>7. \A i \in 1 .. Len(st) : f[i] = <<x + Box.x + st[i], y>>
  BY <1>5
<1> DEFINE e == Append(f, last)
<1> HIDE DEF f, last
<1>8. /\ DOMAIN e = 1 .. Len(st) + 1 /\ e[Len(st) + 1] = last
      /\ \A i \in 1 .. Len(st) : e[i] = f[i]
  BY <1>5, <1>6
<1> HIDE DEF e
<1>9. Range(e) = {f[i] : i \in 1 .. Len(st)} \cup {last}
  <2>1. 1 .. Len(st) + 1 = 1 .. Len(st) \cup {Len(st) + 1}
    BY <1>5
  <2> QED BY <1>8, <2>1 DEF Range
<1>10. {f[i] : i \in 1 .. Len(st)} = {<<x + Box.x + st[i], y>> : i \in 1 .. Len(st)}
  BY <1>7
<1>11. Range(e) = {<<h, y>> : h \in Columns(x)}
  <2> DEFINE at == {x + Box.x + st[i] : i \in 1 .. Len(st)}
  <2>1. {<<x + Box.x + st[i], y>> : i \in 1 .. Len(st)} = {<<h, y>> : h \in at}
    OBVIOUS
  <2>2. Columns(x) = at \cup {x + Box.x + Box.width - 1}
    BY <1>4, <1>5
  <2> HIDE DEF at
  <2>3. Range(e) = {<<h, y>> : h \in at} \cup {last}
    BY <1>9, <1>10, <2>1
  <2> QED BY <2>2, <2>3 DEF last
<1>12. Columns(x) \subseteq Int
  BY <1>1, <1>4, <1>5
<1> QED BY <1>3, <1>11, <1>12 DEF e

LEMMA SpeedsTyped ==
    ASSUME NEW v \in Int, NEW n \in Nat
    PROVE  /\ Limited(v, n) \in Int /\ Slowed(v, n) \in Int
<1>1. v + n \in Int /\ v - n \in Int /\ -n \in Int /\ 0 \in Int
  OBVIOUS
<1>2. /\ Min({v + n, 0}) \in {v + n, 0} /\ Max({v - n, 0}) \in {v - n, 0}
  BY <1>1, MinOfTwo, Zenon
<1>3. Min({v + n, 0}) \in Int /\ Max({v - n, 0}) \in Int
  BY <1>1, <1>2
<1> QED BY <1>1, <1>3 DEF Limited, Slowed

LEMMA DrivenIs ==
    ASSUME NEW p \in Mover, p.ay <= YMax, p.jump <= 0, NEW in \in Inputs
    PROVE  /\ Driven(p, in) \in Mover
           /\ Driven(p, in).x = p.x /\ Driven(p, in).y = p.y /\ Driven(p, in).last = p.last
           /\ Driven(p, in).dead = p.dead
           /\ Driven(p, in).ay <= YMax /\ Driven(p, in).jump <= 0
           /\ ~Jumps(p, in) => Driven(p, in).ay >= p.ay /\ Driven(p, in).jump >= p.jump
<1>1. /\ Gravity \in Nat /\ XAccel \in Nat /\ XDecel \in Nat /\ XMax \in Nat /\ YMax \in Nat
      /\ JumpImpulse \in Nat /\ JumpDecel \in Nat /\ JumpDecelHeld \in Nat
  BY PhysicsAssumption
<1>2. in.dx \in {-1, 0, 1} /\ in.jump \in BOOLEAN
  BY DEF Inputs
<1>3. /\ p.ax \in Int /\ p.ay \in Int /\ p.jump \in Int
  BY DEF Mover
<1> DEFINE ax == Limited(p.ax + in.dx * XAccel, XMax)
           ay == Min({p.ay + Gravity, YMax})
           jump == IF Jumps(p, in) THEN -JumpImpulse ELSE p.jump
           decel == IF in.jump /\ ay + jump < 0 THEN JumpDecelHeld ELSE JumpDecel
           to == Min({0, jump + decel})
           ax2 == IF in.dx = 0 THEN Slowed(ax, XDecel) ELSE ax
<1>4. p.ax + in.dx * XAccel \in Int
  BY <1>1, <1>2, <1>3
<1>5. ax \in Int
  BY <1>1, <1>4, SpeedsTyped
<1>6. ax2 \in Int
  BY <1>1, <1>5, SpeedsTyped
<1>7. ay \in Int /\ ay <= YMax /\ (p.ay <= YMax => ay >= p.ay)
  <2>1. p.ay + Gravity \in Int /\ YMax \in Int /\ p.ay + Gravity >= p.ay
    BY <1>1, <1>3
  <2>2. ay \in {p.ay + Gravity, YMax} /\ ay <= YMax
    BY <2>1, MinOfTwo, Zenon
  <2> QED BY <1>3, <2>1, <2>2
<1>8. jump \in Int /\ (~Jumps(p, in) => jump = p.jump)
  BY <1>1, <1>3
<1>9. decel \in Nat
  BY <1>1
<1>10. Driven(p, in) = [p EXCEPT !.ax = ax2, !.ay = ay, !.jump = to, !.released = ~in.jump]
  BY DEF Driven
<1> HIDE DEF ax, ay, jump, decel, ax2
<1>11. to \in Int /\ to <= 0 /\ (~Jumps(p, in) => to >= p.jump)
  <2>1. jump + decel \in Int /\ jump + decel >= jump /\ 0 \in Int
    BY <1>8, <1>9
  <2>2. to \in {0, jump + decel} /\ to <= 0
    BY <2>1, MinOfTwo, Zenon
  <2> QED BY <1>3, <1>8, <2>1, <2>2
<1> HIDE DEF to
<1> QED BY <1>2, <1>6, <1>7, <1>10, <1>11 DEF Mover

(* Where a frame ends below or above: never above what last is then.       *)
LEMMA UprightIs ==
    ASSUME NEW d \in Mover, NEW y \in Int, NEW down \in BOOLEAN
    PROVE  LET u == Upright(d, y, down) IN
           /\ u.y \in Int /\ u.last \in Int /\ u.last >= u.y
           /\ u.rests \in BOOLEAN /\ u.ground \in Nat
<1>1. Box.y \in Nat /\ Box.height \in Nat /\ Tile \in Nat /\ Friction \in Nat
  BY PhysicsAssumption
<1>2. d.last \in Int /\ d.ay + d.jump \in Int
  BY DEF Mover
<1> DEFINE v == d.ay + d.jump
           last == IF v < 0 \/ down THEN NeverFell ELSE Min({d.last, y})
           test == IF down THEN "through" ELSE "falling"
           head == Edge(d.x, y - Box.y - Box.height)
           feet == Edge(d.x, y - Box.y)
           bumps == v < 0 /\ Blocked("normal", last, head)
           lands == v > 0 /\ Blocked(test, last, feet)
           stop == CASE bumps -> (Quotient(y - Box.y - Box.height) + 1) * Tile + Box.y + Box.height
                     [] lands -> Quotient(y - Box.y) * Tile + Box.y
                     [] OTHER -> y
<1>3. last \in Int
  <2>1. Min({d.last, y}) \in {d.last, y}
    BY <1>2, MinOfTwo, Zenon
  <2> QED BY <1>2, <2>1, NeverFellIs
<1>4. /\ Quotient(y - Box.y) * Tile \in Int
      /\ (Quotient(y - Box.y - Box.height) + 1) * Tile \in Int
  BY <1>1, QuotientIs
<1>5. stop \in Int
  BY <1>1, <1>4
<1>6. Ground(Range(feet)) \in Nat
  BY <1>1 DEF Ground
<1>7. /\ Upright(d, y, down).y = stop /\ Upright(d, y, down).last = Max({last, stop})
      /\ Upright(d, y, down).rests = (bumps \/ lands)
      /\ Upright(d, y, down).ground = IF v > 0 THEN Ground(Range(feet)) ELSE 0
  BY DEF Upright
<1>8. bumps \in BOOLEAN /\ lands \in BOOLEAN
  OBVIOUS
<1> HIDE DEF stop, last, bumps, lands, feet
<1>9. Max({last, stop}) \in Int /\ Max({last, stop}) >= stop
  BY <1>3, <1>5, MinOfTwo
<1> QED BY <1>5, <1>6, <1>7, <1>8, <1>9

(* Somebody who does not ascend is only lifted by a tile that is blocking, *)
(* or by one that does not let him descend.                                *)
LEMMA UprightLifts ==
    ASSUME NEW d \in Mover, NEW down \in BOOLEAN, d.ay + d.jump >= 0,
           d.last >= d.y \/ d.last = NeverFell, d.y <= NeverFell,
           Upright(d, d.y + d.ay + d.jump, down).y < d.y
    PROVE  LET u == Upright(d, d.y + d.ay + d.jump, down) IN
           \E p \in Range(Edge(d.x, u.y - Box.y)) :
              \/ Kind(CellOf(p)) = "blocking"
              \/ Kind(CellOf(p)) = "nodescend" /\ u.last = NeverFell
<1>1. Box.y \in Nat /\ Box.height \in Nat /\ Tile \in Nat
  BY PhysicsAssumption
<1>2. d.last \in Int /\ d.ay + d.jump \in Int /\ d.y \in Int /\ d.x \in Int /\ d.ay \in Int /\ d.jump \in Int
  BY DEF Mover
<1> DEFINE v == d.ay + d.jump
           y == d.y + d.ay + d.jump
           last == IF v < 0 \/ down THEN NeverFell ELSE Min({d.last, y})
           test == IF down THEN "through" ELSE "falling"
           feet == Edge(d.x, y - Box.y)
           lands == v > 0 /\ Blocked(test, last, feet)
           row == Quotient(y - Box.y)
           u == Upright(d, y, down)
<1>3. y \in Int /\ y = d.y + v
  BY <1>2
<1>4. /\ row \in Int /\ row * Tile \in Int /\ Quotient(row * Tile) = row
  BY <1>1, <1>3, QuotientIs
<1>5. ~(v < 0)
  BY <1>2
<1>6. u.y = (IF lands THEN row * Tile + Box.y ELSE y) /\ u.last = Max({last, u.y})
  BY <1>5 DEF Upright
<1>7. last = IF down THEN NeverFell ELSE Min({d.last, y})
  BY <1>5
<1> HIDE DEF u, row, feet, last, y, test
<1>8. u.y < d.y
  BY DEF u, y
<1>9. lands /\ u.y = row * Tile + Box.y
  BY <1>2, <1>3, <1>5, <1>6, <1>8
<1>10. PICK q \in Range(feet) : Stops(test, last, q)
  BY <1>9 DEF Blocked
<1>11. PICK h \in Columns(d.x) : q = <<h, y - Box.y>> /\ h \in Int
  BY <1>1, <1>2, <1>3, <1>10, EdgeIs DEF feet
<1> DEFINE p == <<h, u.y - Box.y>>
<1>12. p \in Range(Edge(d.x, u.y - Box.y))
  BY <1>1, <1>2, <1>4, <1>9, <1>11, EdgeIs
<1>13. CellOf(q) = <<Quotient(h), row>> /\ CellOf(p) = <<Quotient(h), row>>
  <2>1. u.y - Box.y = row * Tile
    BY <1>1, <1>4, <1>9
  <2> QED BY <1>4, <1>11, <2>1 DEF CellOf, row
<1>14. ~(test = "falling" /\ LandsOn(CellOf(q), last))
  <2> SUFFICES ASSUME test = "falling", LandsOn(CellOf(q), last) PROVE FALSE
    OBVIOUS
  <2>1. last = Min({d.last, y})
    BY <1>7 DEF test
  <2>2. last <= row * Tile
    BY <1>13 DEF LandsOn
  <2>3. last <= u.y - Box.y /\ last < d.y
    <3>1. last \in Int
      BY <1>2, <1>3, <2>1, MinOfTwo
    <3> QED BY <1>1, <1>2, <1>4, <1>8, <1>9, <2>2, <3>1
  <2>4. last = d.last \/ last = y
    BY <1>2, <1>3, <2>1, MinOfTwo
  <2>5. d.last >= d.y
    BY <1>2
  <2> QED BY <1>2, <1>3, <2>3, <2>4, <2>5
<1>15. CASE Kind(CellOf(q)) = "blocking"
  BY <1>12, <1>13, <1>15 DEF u, y
<1>16. CASE Kind(CellOf(q)) = "nodescend" /\ test = "through"
  <2>1. last = NeverFell
    BY <1>7, <1>16 DEF test
  <2>2. u.y \in Int /\ u.y < NeverFell /\ NeverFell \in Int
    BY <1>1, <1>2, <1>4, <1>8, <1>9, NeverFellIs
  <2>3. u.last = NeverFell
    <3>1. Max({NeverFell, u.y}) \in {NeverFell, u.y} /\ Max({NeverFell, u.y}) >= NeverFell
      BY <2>2, MinOfTwo, Zenon
    <3> QED BY <1>6, <2>1, <2>2, <3>1
  <2> QED BY <1>12, <1>13, <1>16, <2>3 DEF u, y
<1> QED BY <1>10, <1>14, <1>15, <1>16 DEF Stops

LEMMA SidewaysTyped ==
    ASSUME NEW x \in Int, NEW ax \in Int, NEW top, NEW lowLeft, NEW lowRight, NEW last
    PROVE  /\ Sideways(x, ax, top, lowLeft, lowRight, last, 0).x \in Int
           /\ Sideways(x, ax, top, lowLeft, lowRight, last, 0).ax \in Int
<1>1. Box.x \in Int /\ Box.width \in Nat /\ Tile \in Nat
  BY PhysicsAssumption
<1>2. Bounced(ax, 0) \in Int
  BY DEF Bounced
<1>3. /\ (Quotient(x + Box.x) + 1) * Tile \in Int /\ Quotient(x + Box.width + Box.x) * Tile \in Int
  BY <1>1, QuotientIs
<1> QED BY <1>1, <1>2, <1>3 DEF Sideways

LEMMA FrameIs ==
    ASSUME MoverSound, ~player.dead, NEW in \in Inputs
    PROVE  LET f == PlayerFrame(player, in)
               d == Driven(player, in)
               u == Upright(d, d.y + d.ay + d.jump, in.down)
           IN  /\ f \in Mover /\ f.ay <= YMax /\ f.jump <= 0
               /\ f.dead \/ f.last >= f.y
               /\ f.y = player.y \/ (f.y = u.y /\ f.last = u.last)
<1> DEFINE p == player
           d == Driven(p, in)
           y == p.y + d.ay + d.jump
           x == p.x + d.ax
           top == p.y - Box.y - Box.height
           low == p.y - Box.y - 1
           bx == Bordered(x)
           bax == IF OffBorder(x) THEN 0 ELSE d.ax
           s == Sideways(bx, bax, top, low, low, p.last, 0)
           u == Upright(d, y, in.down)
           f == PlayerFrame(p, in)
<1>1. p \in Mover /\ p.ay <= YMax /\ p.jump <= 0
  BY DEF MoverSound
<1>2. /\ d \in Mover /\ d.x = p.x /\ d.y = p.y /\ d.last = p.last /\ d.dead = p.dead
      /\ d.ay <= YMax /\ d.jump <= 0
  BY <1>1, DrivenIs
<1>3. in.dx \in {-1, 0, 1} /\ in.down \in BOOLEAN
  BY DEF Inputs
<1>4. y \in Int /\ x \in Int /\ y = d.y + d.ay + d.jump
  BY <1>1, <1>2 DEF Mover
<1>5. /\ u.y \in Int /\ u.last \in Int /\ u.last >= u.y /\ u.rests \in BOOLEAN /\ u.ground \in Nat
  BY <1>2, <1>3, <1>4, UprightIs
<1>6. bx \in Int /\ bax \in Int
  <2>1. MapWidth \in Int /\ Box.x \in Int /\ Box.width \in Int
    BY PhysicsAssumption DEF MapWidth, Land, MoverSound
  <2>2. LeftMost \in Int /\ RightMost \in Int
    BY <2>1 DEF LeftMost, RightMost
  <2> QED BY <1>2, <1>4, <2>2 DEF Bordered, Mover
<1>7. s.x \in Int /\ s.ax \in Int
  BY <1>6, SidewaysTyped
<1>8. Slowed(s.ax, u.ground) \in Int
  BY <1>5, <1>7, SpeedsTyped
<1> DEFINE moved == [d EXCEPT !.ax = s.ax, !.falling = ~u.rests, !.last = u.last,
                              !.ay = IF u.rests THEN 0 ELSE @, !.jump = IF u.rests THEN 0 ELSE @]
<1>9. \/ f = [moved EXCEPT !.dead = TRUE]
      \/ f = [moved EXCEPT !.x = s.x, !.y = u.y,
                           !.ax = IF in.dx = 0 /\ u.rests THEN Slowed(@, u.ground) ELSE @,
                           !.dead = in.server /\ ~OnScreen(u.y)]
  BY DEF PlayerFrame
<1> HIDE DEF s, u, d, f, y
<1>10. /\ moved \in Mover /\ moved.ay <= YMax /\ moved.jump <= 0 /\ moved.last = u.last
       /\ moved.y = p.y /\ moved.ax = s.ax
  <2>1. YMax \in Nat
    BY PhysicsAssumption
  <2> DEFINE a2 == IF u.rests THEN 0 ELSE d.ay
             j2 == IF u.rests THEN 0 ELSE d.jump
             up == ~u.rests
  <2>2. a2 \in Int /\ a2 <= YMax /\ j2 \in Int /\ j2 <= 0 /\ up \in BOOLEAN
    BY <1>2, <1>5, <2>1 DEF Mover
  <2>3. moved = [d EXCEPT !.ax = s.ax, !.falling = up, !.last = u.last, !.ay = a2, !.jump = j2]
    BY <1>2 DEF Mover
  <2> HIDE DEF a2, j2, up, moved
  <2> QED BY <1>2, <1>5, <1>7, <2>2, <2>3 DEF Mover
<1> HIDE DEF moved
<1>11. CASE f = [moved EXCEPT !.dead = TRUE]
  <2>1. f \in Mover /\ f.ay <= YMax /\ f.jump <= 0 /\ f.dead /\ f.y = p.y
    BY <1>10, <1>11 DEF Mover
  <2> QED BY <2>1 DEF f
<1>12. CASE f = [moved EXCEPT !.x = s.x, !.y = u.y,
                           !.ax = IF in.dx = 0 /\ u.rests THEN Slowed(@, u.ground) ELSE @,
                           !.dead = in.server /\ ~OnScreen(u.y)]
  <2>1. in.server \in BOOLEAN /\ (in.server /\ ~OnScreen(u.y)) \in BOOLEAN
    BY DEF Inputs
  <2>2. /\ f \in Mover /\ f.ay <= YMax /\ f.jump <= 0 /\ f.y = u.y /\ f.last = u.last
    BY <1>5, <1>7, <1>8, <1>10, <1>12, <2>1 DEF Mover
  <2>3. f.last >= f.y
    BY <1>5, <2>2
  <2> QED BY <1>4, <2>2, <2>3 DEF f, u, d, y
<1> QED BY <1>9, <1>11, <1>12

LEMMA MoverInit ==
    ASSUME PhysicsInit
    PROVE  MoverSound
<1>1. PICK o \in SpawnPoints : player = Spawned(o)
  BY DEF PhysicsInit
<1>2. o.x \in Int /\ o.y \in Int /\ o.width \in Nat /\ o.height \in Nat
  BY PhysicsAssumption
<1>3. Box.x \in Int /\ Box.width \in Nat /\ YMax \in Nat
  BY PhysicsAssumption
<1>4. o.x + o.width \div 2 - Box.width \div 2 - Box.x \in Int /\ o.y + o.height \in Int
  BY <1>2, <1>3
<1> QED BY <1>1, <1>3, <1>4, NeverFellIs DEF PhysicsInit, MoverSound, Mover, Spawned

LEMMA MoverNext ==
    ASSUME MoverSound, [PhysicsNext]_physics
    PROVE  MoverSound'
<1>1. ASSUME NEW in \in Inputs, PlayerGoes(in)
      PROVE  MoverSound'
  <2>1. ~player.dead /\ player' = PlayerFrame(player, in) /\ terrain' = terrain
    BY <1>1 DEF PlayerGoes
  <2> QED BY <2>1, FrameIs DEF MoverSound
<1>2. ASSUME NEW v \in Recoils, Recoil(v)
      PROVE  MoverSound'
  <2>1. v \in Int
    BY PhysicsAssumption
  <2> QED BY <1>2, <2>1 DEF Recoil, MoverSound, Mover
<1>3. ASSUME UNCHANGED <<player, terrain>>
      PROVE  MoverSound'
  BY <1>3 DEF MoverSound
<1> QED BY <1>1, <1>2, <1>3 DEF PhysicsNext, ObjectFlies, ControlSpectator, physics

(* A frame in which nobody jumps does not lift.                            *)
LEMMA FrameLifts ==
    ASSUME MoverSound, NEW in \in Inputs, PlayerGoes(in),
           \A m \in DOMAIN Terrains : Tile * Terrains[m].height + FallenBelow <= NeverFell
    PROVE  NeverLifted
<1> SUFFICES ASSUME player.ay + player.jump >= 0, player.falling \/ ~player.released, player'.y < player.y
             PROVE  \E p \in Range(Edge(player.x, player'.y - Box.y)) :
                       \/ Kind(CellOf(p)) = "blocking"
                       \/ Kind(CellOf(p)) = "nodescend" /\ player'.last = NeverFell
  BY DEF NeverLifted
<1> DEFINE d == Driven(player, in)
           u == Upright(d, d.y + d.ay + d.jump, in.down)
<1>1. ~player.dead /\ OnScreen(player.y) /\ player' = PlayerFrame(player, in)
  BY DEF PlayerGoes
<1>2. player \in Mover /\ player.ay <= YMax /\ player.jump <= 0
  BY DEF MoverSound
<1>3. ~Jumps(player, in)
  BY DEF Jumps
<1>4. /\ d \in Mover /\ d.x = player.x /\ d.y = player.y /\ d.last = player.last
      /\ d.ay >= player.ay /\ d.jump >= player.jump
  BY <1>2, <1>3, DrivenIs
<1>5. player'.y = player.y \/ (player'.y = u.y /\ player'.last = u.last)
  BY <1>1, FrameIs
<1> HIDE DEF d
<1>6. player.y \in Int /\ player.ay \in Int /\ player.jump \in Int
  BY <1>2 DEF Mover
<1>7. player'.y = u.y /\ player'.last = u.last /\ u.y < d.y
  BY <1>4, <1>5, <1>6
<1>8. d.ay + d.jump >= 0
  BY <1>2, <1>4, <1>6 DEF Mover
<1>9. d.y <= NeverFell
  <2>1. player.y - FallenBelow <= Tile * Terrains[terrain].height /\ terrain \in DOMAIN Terrains
    BY <1>1 DEF OnScreen, MapHeight, Land, MoverSound
  <2>2. FallenBelow \in Nat /\ Tile * Terrains[terrain].height \in Nat
    BY <2>1, PhysicsAssumption
  <2>3. Tile * Terrains[terrain].height + FallenBelow <= NeverFell
    BY <2>1
  <2> QED BY <1>4, <1>6, <2>1, <2>2, <2>3, NeverFellIs
<1>10. d.last >= d.y \/ d.last = NeverFell
  BY <1>1, <1>4 DEF MoverSound
<1>11. in.down \in BOOLEAN
  BY DEF Inputs
<1> QED BY <1>4, <1>7, <1>8, <1>9, <1>10, <1>11, UprightLifts

(* Whatever the map looks like, only a wall, or a tile that does not let   *)
(* him descend when he presses the key for down, moves a player upwards    *)
(* who neither ascends nor jumps: a one-way tile that he falls past, walks *)
(* into or is pushed into does not (last_falling_y_pos in tile_collision). *)
(* A map must not be so high that PlayerFallingTestMaxY lies within it.    *)
THEOREM NotLiftedCorrect ==
    ASSUME \A m \in DOMAIN Terrains : Tile * Terrains[m].height + FallenBelow <= NeverFell
    PROVE  PhysicsSpec => [][NeverLifted]_physics
<1>1. PhysicsInit => MoverSound
  BY MoverInit
<1>2. MoverSound /\ [PhysicsNext]_physics => MoverSound'
  BY MoverNext
<1>3. MoverSound /\ [PhysicsNext]_physics => [NeverLifted]_physics
  <2> SUFFICES ASSUME MoverSound, PhysicsNext PROVE NeverLifted
    BY DEF physics
  <2>1. ASSUME NEW in \in Inputs, PlayerGoes(in) PROVE NeverLifted
    BY <2>1, FrameLifts
  <2>2. ASSUME player'.y = player.y PROVE NeverLifted
    <3>1. player.y \in Int
      BY DEF MoverSound, Mover
    <3> QED BY <2>2, <3>1 DEF NeverLifted
  <2>3. ASSUME NEW v \in Recoils, Recoil(v) PROVE player'.y = player.y
    BY <2>3 DEF Recoil, MoverSound, Mover
  <2> QED BY <2>1, <2>2, <2>3 DEF PhysicsNext, ObjectFlies, ControlSpectator
<1> QED BY <1>1, <1>2, <1>3, PTL DEF PhysicsSpec
=============================================================================
