---------------------------- MODULE ClientThreads ----------------------------
(***************************************************************************)
(* The two threads of a client from the login to the end of the session.   *)
(* The network thread runs the message layer's cycle and queues what it    *)
(* hears as events; the main thread takes them in idle(), one at a time.   *)
(* Both do so under one mutex, so a step of either is atomic here; what    *)
(* the main thread reads without the mutex (conn) it reads between them.   *)
(* The server's half is its pak synchronisation: it sends the paks the     *)
(* client lacks, a chunk for every acknowledgement.                        *)
(***************************************************************************)
EXTENDS Integers, Sequences, SequencesExt, TLC

CONSTANTS
    Paks,          \* the paks the client lacks: sequence of [name, chunks]
    MaxQueue       \* bound: messages in flight, and events in the queue

Names == {Paks[k].name : k \in DOMAIN Paks}
None == "none"      \* no file, as the code's null pointer or empty name

ASSUME ClientThreadsAssumption ==
    /\ Paks \in Seq([name : STRING, chunks : Nat \ {0}]) /\ MaxQueue \in Nat \ {0}
    /\ None \notin Names
    /\ \A j, k \in DOMAIN Paks : Paks[j].name = Paks[k].name => j = k

VARIABLES
    wire,       \* messages of the server on their way to the client, in order
    sent,       \* messages of the client on their way to the server, in order
    sync,       \* server: paks still to send, chunks left of the open one
    link,       \* message layer of the client: "asking", "live" or "lost"
    thread,     \* network thread: "running" or "done"
    running,    \* flag that keeps the network thread in its loop
    events,     \* server_events
    conn,       \* whether the client's conn points to a connection
    main,       \* where the main thread is
    file,       \* the pak that is being received
    disk,       \* from names of paks to the chunks on disk, in order
    synced      \* the client has handled GPCReady

threads == <<wire, sent, sync, link, thread, running, events, conn, main, file, disk, synced>>

Chunk(n, k) == [cmd |-> "chunk", pak |-> n, at |-> k]
Say(c) == [cmd |-> c, pak |-> None, at |-> 0]
Whole(p) == [k \in 1 .. p.chunks |-> Chunk(p.name, k)]
PakOf(n) == Paks[CHOOSE k \in DOMAIN Paks : Paks[k].name = n]
NoFile == [open |-> None, remaining |-> 0, current |-> None]

ThreadsInit ==
    /\ wire = << >> /\ sent = << >> /\ sync = [todo |-> Paks, left |-> 0, state |-> "hashes"]
    /\ link = "asking" /\ thread = "running" /\ running = TRUE /\ events = << >>
    /\ conn = FALSE /\ main = "idle" /\ file = NoFile
    /\ disk = [n \in Names |-> << >>] /\ synced = FALSE

-----------------------------------------------------------------------------
(* The server.  sync_client or the next pieces of a pak; a pak that it     *)
(* cannot open makes it turn the client out.                               *)

Pieces(p) ==
    LET at == p.chunks - sync.left + 1
        header == [cmd |-> "header", pak |-> p.name, at |-> p.chunks]
    IN  IF sync.left = 0 THEN <<header, Chunk(p.name, 1)>> ELSE <<Chunk(p.name, at)>>

SendPiece ==
    LET p == Head(sync.todo)
        left == (IF sync.left = 0 THEN p.chunks ELSE sync.left) - 1
    IN  /\ sync' = [sync EXCEPT !.left = left,
                                !.todo = IF left = 0 THEN Tail(@) ELSE @]
        /\ wire' = wire \o Pieces(p)

TurnOut ==
    /\ sync.left = 0
    /\ wire' = Append(wire, Say("quit"))
    /\ sync' = [sync EXCEPT !.state = "quit"]

ProcessSyncPak ==
    /\ sent # << >> /\ sync.state = "hashes"
    /\ Len(wire) + 2 <= MaxQueue
    /\ sent' = Tail(sent)
    /\ \/ sync.todo # << >> /\ (SendPiece \/ TurnOut)
       \/ /\ sync.todo = << >>
          /\ wire' = Append(wire, Say("ready"))
          /\ sync' = [sync EXCEPT !.state = "synced"]
    /\ UNCHANGED <<link, thread, running, events, conn, main, file, disk, synced>>

(* An administrator's command turns a player out.                          *)
Kick ==
    /\ sync.state = "synced" /\ Len(wire) < MaxQueue
    /\ wire' = Append(wire, Say("quit")) /\ sync' = [sync EXCEPT !.state = "quit"]
    /\ UNCHANGED <<sent, link, thread, running, events, conn, main, file, disk, synced>>

-----------------------------------------------------------------------------
(* The network thread.                                                     *)

Event(e, m) == [event |-> e, msg |-> m]
Queue(e, m) == /\ Len(events) < MaxQueue
               /\ events' = Append(events, Event(e, m))
Idle == UNCHANGED <<sent, sync, running, main, file, disk, synced>>

(* Status is repeated until the login; one in the queue stands for all.    *)
(* A server of another version is an AccessDenied of the client's making.  *)
EventStatus ==
    /\ thread = "running" /\ link = "asking" /\ events = << >>
    /\ \E e \in {"Status", "AccessDenied"} : Queue(e, Say("status"))
    /\ UNCHANGED <<wire, link, thread, conn>> /\ Idle

EventAccessDenied ==
    /\ thread = "running" /\ link = "asking"
    /\ Queue("AccessDenied", Say("refused"))
    /\ link' = "lost"
    /\ UNCHANGED <<wire, thread, conn>> /\ Idle

EventLogin ==
    /\ thread = "running" /\ link = "asking"
    /\ Queue("Login", Say("login"))
    /\ link' = "live" /\ conn' = TRUE
    /\ UNCHANGED <<wire, thread>> /\ Idle

EventData ==
    /\ thread = "running" /\ link = "live" /\ wire # << >>
    /\ Queue("Data", Head(wire))
    /\ wire' = Tail(wire)
    /\ UNCHANGED <<link, thread, conn>> /\ Idle

(* No answer to pings or resends: the connection is deleted at once, conn  *)
(* is reset only when the main thread takes the event.                     *)
EventLogout ==
    /\ thread = "running" /\ link \in {"asking", "live"}
    /\ Queue("Logout", Say("logout"))
    /\ link' = "lost"
    /\ UNCHANGED <<wire, thread, conn>> /\ Idle

(* The loop has ended: logout, the last cycles, end of the thread.         *)
ThreadEnds ==
    /\ thread = "running" /\ ~running
    /\ thread' = "done"
    /\ UNCHANGED <<wire, link, events, conn>> /\ Idle

Network == EventStatus \/ EventAccessDenied \/ EventLogin \/ EventData
           \/ EventLogout \/ ThreadEnds

-----------------------------------------------------------------------------
(* The main thread: idle() takes events while the queue was not empty at   *)
(* the last take; then the frame.  An exception leaves run().              *)

(* Mutant: stop_thread forgets the flag.                                   *)
NotStopped == UNCHANGED running

StopThread == running' = FALSE
AfterTake == main' = IF Len(events) = 1 THEN "frame" ELSE "idle"

TakeStatus ==
    /\ Head(events).event = "Status" /\ AfterTake
    /\ UNCHANGED <<sent, running, conn, file, disk, synced>>

TakeDenied ==
    /\ Head(events).event = "AccessDenied"
    /\ StopThread /\ main' = "stopping"
    /\ UNCHANGED <<sent, conn, file, disk, synced>>

(* The hashes of the paks; a pak whose name is too long ends the session.  *)
TakeLogin ==
    /\ Head(events).event = "Login"
    /\ \/ Len(sent) < MaxQueue /\ sent' = Append(sent, "hashes") /\ AfterTake
       \/ main' = "thrown" /\ UNCHANGED sent
    /\ UNCHANGED <<running, conn, file, disk, synced>>

TakeLogout ==
    /\ Head(events).event = "Logout"
    /\ StopThread /\ conn' = FALSE /\ main' = "stopping"
    /\ UNCHANGED <<sent, file, disk, synced>>

(* A header while a file is open is only reported.                         *)
XferHeader(m) ==
    IF file.open # None THEN UNCHANGED <<file, disk>>
    ELSE \/ /\ file' = [open |-> m.pak, remaining |-> m.at, current |-> m.pak]
            /\ disk' = [disk EXCEPT ![m.pak] = << >>]
         \/ file' = [file EXCEPT !.current = m.pak] /\ UNCHANGED disk

XferDataChunk(m) ==
    IF file.open = None THEN UNCHANGED <<file, disk>>
    ELSE /\ disk' = [disk EXCEPT ![file.open] = Append(@, m)]
         /\ file' = IF file.remaining > 1 THEN [file EXCEPT !.remaining = @ - 1] ELSE NoFile

(* Mutant: only chunks that are written are acknowledged.                  *)
Acknowledged == IF file.open = None THEN sent ELSE Append(sent, "ack")

Acks == Append(sent, "ack")

TakeData ==
    LET m == Head(events).msg
    IN  /\ Head(events).event = "Data"
        /\ \/ m.cmd = "header" /\ XferHeader(m) /\ AfterTake /\ UNCHANGED <<sent, synced>>
           \/ /\ m.cmd = "chunk" /\ XferDataChunk(m) /\ AfterTake
              /\ sent' = Acks /\ UNCHANGED synced
           \/ /\ m.cmd = "ready" /\ synced' = TRUE /\ AfterTake
              /\ UNCHANGED <<sent, file, disk>>
           \/ m.cmd = "quit" /\ main' = "thrown" /\ UNCHANGED <<sent, file, disk, synced>>
        /\ UNCHANGED <<running, conn>>

Take ==
    /\ main = "idle" /\ events # << >>
    /\ TakeStatus \/ TakeDenied \/ TakeLogin \/ TakeLogout \/ TakeData
    /\ events' = Tail(events)
    /\ UNCHANGED <<wire, sync, link, thread>>

(* idle() reads conn->ping_time here, without the mutex.                   *)
Frame ==
    /\ main = "frame"
    /\ main' = "idle"
    /\ UNCHANGED <<wire, sent, sync, link, thread, running, events, conn, file, disk, synced>>

(* Back to the menu: the loop of the GUI ends.                             *)
Leave ==
    /\ main = "idle"
    /\ main' = "thrown"
    /\ UNCHANGED <<wire, sent, sync, link, thread, running, events, conn, file, disk, synced>>

(* thread_join returns, and idle() throws.                                 *)
Joined ==
    /\ main = "stopping" /\ thread = "done"
    /\ main' = "thrown"
    /\ UNCHANGED <<wire, sent, sync, link, thread, running, events, conn, file, disk, synced>>

(* Mutant: the destructor does not wait for the thread.                    *)
DestructAtOnce ==
    /\ main = "thrown"
    /\ StopThread /\ main' = "cleanup"
    /\ UNCHANGED <<wire, sent, sync, link, thread, events, conn, file, disk, synced>>

(* ~Client, first half: stop the thread if it is running.                  *)
Destruct ==
    /\ main = "thrown"
    /\ IF running THEN StopThread /\ main' = "joining" ELSE main' = "cleanup" /\ UNCHANGED running
    /\ UNCHANGED <<wire, sent, sync, link, thread, events, conn, file, disk, synced>>

DestructJoined ==
    /\ main = "joining" /\ thread = "done"
    /\ main' = "cleanup"
    /\ UNCHANGED <<wire, sent, sync, link, thread, running, events, conn, file, disk, synced>>

(* Mutant: what was received of a pak is left on the disk.                 *)
CleanupKeepsPart ==
    /\ main = "cleanup"
    /\ main' = "gone" /\ events' = << >> /\ file' = NoFile
    /\ UNCHANGED <<wire, sent, sync, link, thread, running, conn, disk, synced>>

(* ~Client, second half: events, players and the open file; a pak that is  *)
(* not complete is deleted.                                                *)
Cleanup ==
    /\ main = "cleanup"
    /\ main' = "gone" /\ events' = << >> /\ file' = NoFile
    /\ disk' = IF file.current = None THEN disk ELSE [disk EXCEPT ![file.current] = << >>]
    /\ UNCHANGED <<wire, sent, sync, link, thread, running, conn, synced>>

Main == Take \/ Frame \/ Joined \/ Destruct \/ DestructJoined \/ Cleanup

ThreadsNext == ProcessSyncPak \/ Kick \/ Network \/ Main \/ Leave

(* Both threads and the server go on; a login is answered or given up.  A  *)
(* connection that stands need not break.                                  *)
Answered == link = "asking" /\ (EventLogin \/ EventAccessDenied \/ EventLogout)
ThreadsFairness ==
    /\ WF_threads(ProcessSyncPak) /\ WF_threads(EventData) /\ WF_threads(ThreadEnds)
    /\ WF_threads(Answered) /\ WF_threads(Main)

ThreadsSpec == ThreadsInit /\ [][ThreadsNext]_threads /\ ThreadsFairness

-----------------------------------------------------------------------------
(* Types of the two queues, of the threads' states and of the download: a  *)
(* file is open exactly while chunks of it are missing.                    *)
ThreadsTypeOK ==
    /\ \A k \in DOMAIN events :
          events[k].event \in {"Status", "AccessDenied", "Login", "Logout", "Data"}
    /\ Len(events) <= MaxQueue /\ Len(wire) <= MaxQueue /\ Len(sent) <= MaxQueue
    /\ link \in {"asking", "live", "lost"} /\ thread \in {"running", "done"}
    /\ main \in {"idle", "frame", "stopping", "thrown", "joining", "cleanup", "gone"}
    /\ {running, conn, synced} \subseteq BOOLEAN
    /\ file.open \in Names \cup {None} /\ file.current \in Names \cup {None}
    /\ IF file.open = None THEN file.remaining = 0
       ELSE file.current = file.open /\ file.remaining \in 1 .. PakOf(file.open).chunks
    /\ sync.state \in {"hashes", "synced", "quit"} /\ sync.left \in Nat
    /\ DOMAIN disk = Names

(* What both threads use is destroyed only after the network thread has    *)
(* ended, however the session ends: refused, kicked, timed out or left.    *)
ThreadEndsFirst == main \in {"cleanup", "gone"} => thread = "done"

(* While conn points to a connection that the network thread has deleted,  *)
(* the event that resets it is in the queue or the session is being ended: *)
(* no second frame can use it.                                             *)
StaleConnAnnounced ==
    conn /\ link = "lost" =>
       \/ main \notin {"idle", "frame"}
       \/ \E k \in DOMAIN events : events[k].event = "Logout"

(* Neither thread works on what the other has destroyed.                   *)
NothingStale == ThreadEndsFirst /\ StaleConnAnnounced

(* A pak on disk is never a mixture, one that is complete stays, and after *)
(* the session there is no part of a pak that would be taken for a pak.    *)
DownloadsKept ==
    \A n \in Names :
       /\ IsPrefix(disk[n], Whole(PakOf(n)))
       /\ main = "gone" => disk[n] \in {<< >>, Whole(PakOf(n))}

(* What was received in full is not deleted or overwritten later, neither  *)
(* by the end of the session nor by the next pak.                          *)
CompletePaksStay ==
    \A n \in Names : disk[n] = Whole(PakOf(n)) => disk'[n] = disk[n]

(* The paks on the disk are whole, and stay.                               *)
PaksWhole == [][DownloadsKept' /\ CompletePaksStay]_threads

(* A login ends: the client is synchronised or the session is over; a pak  *)
(* that the client cannot write to its disk does not stop the server.      *)
LoginEnds == <>(synced \/ main = "gone")

(* A session that is told to end does end: no thread waits for the other.  *)
SessionEnds == main \in {"stopping", "thrown"} ~> main = "gone"

(* No login and no session hangs.                                          *)
LoginAndSessionEnd == LoginEnds /\ SessionEnds
=============================================================================
