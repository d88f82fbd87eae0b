------------------------------ MODULE MCSession ------------------------------
(* A run follows what goes on beside the player: the timers of one heap of *)
(* the message layer (HeapTimers), the two threads of a client             *)
(* (ClientThreads), or the map editor and its thread (Editor).  The others *)
(* stand still, the client's session being over.                           *)
EXTENDS HeapTimers, ClientThreads, Editor
VARIABLE part

Everything == {"ack", "pong", "logout", "other"}
TwoPaks == <<[name |-> "a", chunks |-> 2], [name |-> "b", chunks |-> 1]>>
TwoSizes == {<<2, 1>>, <<2, 2>>}
PasteHere == {<<-1, 0>>, <<1, 0>>}

(* A map of this size with a light and two objects, the first of which is  *)
(* not in the resources; perhaps the tileset is not there either.          *)
ThingFound(x, look) == [at |-> <<x, 0>>, look |-> look]
MapFound(tileset) ==
    [size |-> <<2, 1>>, name |-> "a", tileset |-> tileset,
     rows |-> [r \in Layers \X {0} |-> [x \in {0, 1} |-> 0]],
     count |-> [k \in Kinds |-> IF k = "object" THEN 2 ELSE 1],
     listed |-> [k \in Kinds |-> IF k = "object" THEN <<ThingFound(0, 9), ThingFound(1, 0)>>
                                                 ELSE <<ThingFound(0, 0)>>]]
MapsFound == {<< >>} \cup {[n \in {"a"} |-> MapFound(tileset)] : tileset \in BOOLEAN}

ThreadsOver ==
    /\ wire = << >> /\ sent = << >> /\ sync = [todo |-> << >>, left |-> 0, state |-> "quit"]
    /\ link = "lost" /\ thread = "done" /\ running = FALSE /\ events = << >>
    /\ conn = FALSE /\ main = "gone" /\ file = NoFile
    /\ disk = [n \in Names |-> << >>] /\ synced = FALSE

SessionInit ==
    /\ Init /\ EditorInit
    /\ \/ part = "threads" /\ ThreadsInit
       \/ part \in {"timers", "editor"} /\ ThreadsOver
    /\ part = "editor" \/ files = << >>

TimersPart(A) == part = "timers" /\ A /\ UNCHANGED <<part, threads, editor>>
ThreadsPart(A) == part = "threads" /\ A /\ UNCHANGED <<part, vars, editor>>
EditorPart(A) == part = "editor" /\ A /\ UNCHANGED <<part, vars, threads>>

SessionNext == TimersPart(Next) \/ ThreadsPart(ThreadsNext) \/ EditorPart(EditorNext)

session == <<part, vars, threads, editor>>

(* Fairness and ThreadsFairness; the editor's properties need none.        *)
SessionFairness ==
    /\ WF_session(TimersPart(Cycle)) /\ WF_session(TimersPart(Tick))
    /\ WF_session(ThreadsPart(ProcessSyncPak)) /\ WF_session(ThreadsPart(EventData))
    /\ WF_session(ThreadsPart(ThreadEnds)) /\ WF_session(ThreadsPart(Main))
    /\ WF_session(ThreadsPart(Answered))

SessionSpec == SessionInit /\ [][SessionNext]_session /\ SessionFairness
=============================================================================
