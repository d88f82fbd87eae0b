# Goat Attack: verification project

TLA+ models, TLC runs and TLAPS proofs for the network game Goat Attack (C++,
`src/` of the repository; paths below are relative to `src/src/`).

1. [Inventory](#1-inventory)
2. [How the parts interact](#2-how-the-parts-interact)
3. [Plan](#3-plan)
4. [Modules and the code](#4-modules-and-the-code)
5. [Runs](#5-runs)
6. [Proofs](#6-proofs)
7. [What the models show about the code](#7-what-the-models-show-about-the-code)
8. [Not modelled](#8-not-modelled)

## 1. Inventory

| component | files | state | operations | hard behaviour |
|---|---|---|---|---|
| Message layer | `Engine/src/MessageSequencer.cpp` | one `SequencerHeap` per peer: queues, sequence numbers, ping and resend counters, kill marker | `login`, `logout`, `push`, `broadcast`, `kill`, `cycle` | UDP loses, repeats and reorders; a heap ends by logout, timeout, resend limit, kill or refusal |
| Game protocol layer | `Engine/src/ClientServer.cpp` | one transport buffer: a stack of packets | `send_data`, `broadcast_data`, `stacked_*`, `flush_*` | one buffer for all callers; only synchronised clients get game broadcasts |
| Game server | `Engine/src/Server.cpp`, `Player.cpp` | players, pak lists, tournament, held scores, map rotation | `event_login`, `event_data`, `event_logout`, the main loop | callbacks out of `cycle()` change what the loop works on |
| Server administration | `Engine/src/ServerAdmin.cpp` | admin flag of a player, properties | `/op`, `/kick`, `/next`, `/map`, `/set`, `/reload` | takes the tournament away between two frames; settings half applied when a step throws |
| Client | `Engine/src/Client.cpp`, `ClientEvent.cpp` | connection pointer, event queue, downloads, keys, windows, a copy of the tournament | `thread` (network), `idle` (main thread), `event_*`, keys | two threads and one mutex; windows of the network over those of the player; requests, answers and new tournaments that cross |
| Tournaments | `Engine/src/Tournament*.cpp` | players, objects, shots, NPCs, scores, and the clients' copies of them | `integrate`, `pick_item`, `player_died`, `player_removed`, the state responses, ... | a fact is kept twice; lists change while they are walked; identifiers are used again |
| Server browser | `Engine/src/MasterQuery*.cpp`, `LANBroadcaster.cpp`, `GameserverInformation.cpp`, `MainMenu.cpp` | list of servers, listbox, selection | query thread, menu thread | the list is shared, sorted and emptied by both |
| Master server | `MasterServer/src/MasterServer.cpp` | records with a time stamp | heartbeat, expiry, query | expiry, doubled records |
| GUI, menus, drawing | `shared/src/Gui*.cpp`, `Engine/src/*Menu.cpp` | stack of windows, pointers to the active, hovered and focused object | mouse, keys, `push_window`, `pop_window`, message boxes | windows go while their objects are pointed at; message boxes run loops of their own |
| Map editor | `MapEditor/src` | a map in memory, its entries, the selection | drawing, paste, resize, load, save, light map | a thread reads the map; what was saved before has to go from the entries |
| Cargo and archives | `Cargo`, `shared/src` | files | conversion | none: sequential input and output |
| Platform, resources | `shared/src` | - | wrappers over SDL, sockets, pthreads | see section 8 |

What makes each of them correct:

- *Message layer*: a reliable stream is delivered in order, without gap or
  repeat; nothing is acknowledged before it is delivered; every heap ends with
  exactly one `event_logout`; a silent peer goes, a living one does not.
- *Protocol layer*: every client reads the packets meant for it and no others.
- *Game server*: identifiers are unique and every client's list of players is
  the server's; a client plays with all paks and knows the running tournament;
  held points go to one player; the lobby and the warmup lead where they should.
- *Client*: neither thread works on what the other destroys; a login ends in a
  game or an error; the game moves on the keys that are held; a request is
  answered once.
- *Tournaments*: a flag is carried by one living player or can be picked up;
  what the clients keep is what the server keeps; frags, points and records are
  credited to those who earned them; nobody moves into a wall.
- *Browser, master server*: a server is recorded and listed once, the list is in
  the order and has the selection the player made, and what is read through it
  was not deleted.
- *GUI*: no pointer outlives its window; a question gets its own answer.
- *Editor*: what counts as saved is on the disk, and loads as it was.

## 2. How the parts interact

The server is **one thread**: `Server::thread` calls `cycle()`, which handles at
most one datagram and visits one heap, and in it calls back `event_login`,
`event_data` and `event_logout` of the same object. Then it runs a frame of the
tournament every 1/60 s (`CalcCycleNS`). So a handler is atomic with respect to the loop, and
what can interleave are *handlers and frames*, not statements: a login between
the end of a tournament and the next, a `/next` before a `GPSSpectate` of the
same pass. Each model therefore makes one handler or one pass of the loop one
step, and composes them in every order. Where a pass walks a list that its own
callees change (`Arena`), it is a sequence of steps, one per element.

The network in between is UDP. `MessageSequencer` turns it into two streams per
connection and guarantees what `ReliableChannel` says; the modules above
(`GameServer`, `Wearables`, `ClientThreads`, `ClientPlay`, the copies in `Arena`
and `Scoring`) rely on that and let what is pushed arrive in order.

The client has **two threads** and one mutex: the network thread cycles the
message layer and queues what it hears, the main thread takes the events in
`idle()` and draws. Each holds the mutex while it does so, so a step of either
is atomic; what the main thread reads without it (`conn`) is read between the
two. The server browser and the light map of the editor have a thread each,
with a mutex and with a window over the editor in the way.

## 3. Plan

In the order of importance; 1 to 11 are done.

1. `MessageSequencer` with the abstract `ReliableChannel`.
2. `HeapTimers`: the clock that `MessageSequencer` abstracts, with liveness.
3. `GameServer`: the server's handlers and loop over the message layer.
4. `StackedSend`: the shared buffer under the server's broadcasts.
5. `Wearables`: flags and coin, through handlers and physics passes.
6. `Arena`, `Scoring`, `Physics`: the rest of the tournaments.
7. `ClientThreads`, `ClientPlay`: the client.
8. `Browser` over `Listbox`, with the master server; `Desk`: windows.
9. `Editor`.
10. The theorems of section 6: both directions of the stream and the
    refinement of `ReliableChannel`, all safety properties of `GameServer`,
    `Wearables`, `ClientThreads`, `ClientPlay`, `Desk`, `Scoring` and `Arena`
    that a run checks, and the safety property of `HeapTimers`.
11. The safety properties of `StackedSend`, `Editor` and `Browser` with
    `Listbox`, the half of `MovesTrue` of `Physics` that does not depend on the
    map, and the lemmas about sequences that their proofs share.

Left:

12. The other half of `MovesTrue` (section 6 says what it takes), and an
    abstract specification of the server's membership (who is a player, who is
    told) that `GameServer` implements.
13. What section 8 lists as left out, where it has state worth checking: text
    boxes, the object selector and the tileset properties of the editor, chat.

## 4. Modules and the code

| module | models | a state is | a step is |
|---|---|---|---|
| `MessageSequencer` | `cycle()`, `push()`, `kill()`, `login()`, `logout()`, both roles | heaps of both ends, all datagrams ever sent, the applications' life | one visit of `cycle()`, or a call of an application |
| `ReliableChannel` | what it promises | sent, confirmed and received messages | send, confirm, open, deliver, close |
| `HeapTimers` | the clock in `cycle()` | one heap with its counters in units of 25 ms | a cycle, a tick, a push, a kill |
| `StackedSend` | `ClientServer`'s sending functions, called in the sequences the handlers call them | buffer, `pb`, `packet_len`, what was meant and read | a call |
| `GameServer` | `Server`, `ServerAdmin` | players, paks, tournament, rotation, held scores, and what each client has been told | a handler, a command, a pass of the loop |
| `Wearables` | `TournamentCTF`, `TournamentCTC` and the handlers that reach them | players' flags, the flag or coin objects, `times_of_players` | a handler, or a pass of `Tournament::integrate` |
| `Arena` | shots, bombs, frogs, pickups and deaths of a deathmatch | players, animations, NPCs, objects, state responses, the clients' copies, the place in the pass | one element of a list that the pass walks, or a handler between passes |
| `Scoring` | frags, team points, the hill, laps | scores, holder of the hill, `times_of_players`, state responses, the clients' copies | a handler, a death, a lap, a pass of the hill, a broadcast |
| `Physics` | how a player, a thrown thing and a spectator's view move | position, speed and flags over a map of tiles | a frame |
| `ClientThreads` | `Client::thread`, `Client::idle`, login, downloads, end of the session | messages under way, event queue, `conn`, the open file and the disk | a step of either thread, or of the server's pak synchronisation |
| `ClientPlay` | keys, windows and requests of one player | server's and client's view of the player, messages both ways, windows, keys | a key, a message, a frame of either side |
| `Listbox` | `GuiListbox` with its scroll bar | a record | (operators only) |
| `Places` | what is left of a vector whose elements are erased one by one (`Arena`, `Browser`) | - | (operators only) |
| `Browser` | `LANBroadcaster`, `MasterQuery`, `MasterServer`, the lists of `MainMenu` | heartbeats, hosts, listbox, selection | an answer taken by the thread, a frame or a click of the menu |
| `Desk` | `Gui` and the windows of a running game | window stack, pointers into it, nested idle loops | a mouse or key event, a window of the network, an answer |
| `Editor` | `MapEditor`, `EditableMap`, the light map | the map, `KeyValue`'s entries, the disk, the selection, the thread | an operation of the user, or the thread's reading or writing |

`MC*.tla` name the model values and small sets of the runs. Four of them compose
modules that share nothing, so that one run answers the questions of all: a
variable `part` is chosen at the start, the modules of that part move and the
others stand still. `MCMessages` is `MessageSequencer` (several clients),
`StackedSend` and `Physics`; `MCSession` is `HeapTimers`, `ClientThreads` and
`Editor`; `MCMatches` is `Arena` and `Scoring`; `MCMenus` is `Browser` and
`Desk`. The proofs are in the modules `*_proofs`, one for each of these four and
for `GameServer`, `Wearables` and `ClientPlay` (what is proved of `Physics` is in
`Matches_proofs`, beside the rest of the tournaments); the lemmas that several of them
need are in `Sequence_lemmas`.

**MessageSequencer.** The network is the *set of all datagrams ever sent*, which
never shrinks: receiving leaves the datagram there. That is loss (it is never
taken), delay and reordering (it is taken later) and duplication (it is taken
again) at once, also after the heap that sent it is gone. The code's
`cycle()` receives one datagram, visits the heap (deferred kill, then the head
of `in_queue`) and then resends or pings; the model lets receiving-and-visiting,
resending and pinging be three steps, because each is guarded by its own timer
and time is abstract here. `TooManyResends` and `PingTimeout` may therefore
strike at any time once the counters allow it, which covers every timing.
Message content is the pair of the sender's session and the number of the push.
`given` and `pushed` are histories.

**HeapTimers** puts the clock back, for one heap and a peer that answers what it
likes. Time moves in ticks of 25 ms, the smallest of the code's constants, and
`cycle()` runs at least once per tick.

**GameServer.** Connections are those the message layer has a heap for. A client
that loads may send any of the server's hashes again and may fail again; each
wrong one tells it to quit once more, with the whole countdown before it, which
is why `QuitClientGoes` is about clients that are not told again and again
(`ToldAgain`). What a client knows (`view`, `told`, `files`) is what it has been sent, because the
layer below delivers in order. The order inside `event_logout` (hold, broadcast,
erase, close the tournament) and inside a frame (respawns, end of tournament,
reset, announcement, countdown of the clients to quit) is the code's. Points are
abstracted to the tournament they were made in and the login they began with.
Undefined behaviour (a null tournament, an index behind the rotation's end, a
dangling configuration) sets `fault`, and the server does nothing after it.

**StackedSend.** A packet is a number; sizes are in units of a header. The
receiver is the loop of `event_data`: it follows `TransportFlagMorePackets`, and
would read whatever lies behind a packet that claims to be followed.

**Wearables.** A pass of the physics is one step: explosions and shots may kill
any players, things may fall out of the map, flags may be thrown (fire), refused
players are forgiven, and then a living player runs over his base, a killing
tile, any of the things, and off the map, in the code's order. Several players
in one pass are several passes in which no time goes by. Where a thing is, is
reduced to what the code asks: at its origin, away, below the map. A flag has no
respawn time of its own (the object files in `data/free/objects` set none), so
the respawning of picked objects does not touch it.

**Arena.** Geometry is abstract: what touches what is chosen freely among what
the code lets touch. A pass of `integrate` goes through animations, NPCs, and
players with what each of them meets, in the code's order, one element per
step; what a step adds at the end of a list is met later in the same pass, and
what it marks is removed where the code removes it. State responses wait in
`responses` until the server broadcasts them, and each synchronised client
applies them to its copy (`Hear`); a client that is synchronised in between gets
the state as `sync_client` sends it.

**Scoring** does the same for scores. In Goat of the hill the holder is a player
id, with 0 for a null pointer. In the speed race the server keeps the list of
times sorted by best lap, because the first entry is the record.

**Physics.** Positions are whole pixels and a frame is one unit of time, with
speeds in pixels per frame; the tests of tiles, their points and their order are
those of the code, including what it does with a frame that moves both ways.

**ClientThreads.** The message layer of the client is reduced to whether it is
asking, live or lost. Files have a name, a length in chunks, and what of them is
on the disk. `Answered` is the assumption that a server either goes on or goes.

**ClientPlay.** Reliable messages arrive once and in order; the unreliable
state update, which carries the player's mode, may be late or lost. The variable
`crossed` records that a request got lost because it came late for its
tournament, was dropped, or was of no use when it came; the properties about
requests are about all others.

**Browser.** A host of the list is an object at an address, and a row of the
listbox keeps the address. An address is free again when its object is deleted,
and the next object may get it; `leaked` are those that `LANBroadcaster` takes
from its list and never deletes. The master looks for the record of a server only
if its port is one (`Recorded`); of any other each heartbeat makes a record
(bound: `MaxRecords`), and the list of who asks the master has it as often.
`stale` holds from a refresh to the next frame, in which the rows have addresses
of deleted objects; `late` says that the selected row was clicked then. What the
code does to the list without the mutex (`play_lan_sort_click`, the removal of
old servers, and whoever uses the list meanwhile) has a second outcome,
`undefined`, after which nothing is said; it ends the behaviour. `std::sort` is
not stable, so `Sorted` is every order in which no host comes before one that is
less. `Filled` is the loop of `MainMenu::idle` that fills the listbox anew, row by
row, and finds the selected server again by its address.

**Desk.** An object is a window's identity, the generation of the window's
content (the options window is filled anew) and a name. A message box runs its
idle loop inside the callback that opened it, so loops nest; all boxes leave
their answer in one place (`response`). `surprised` records that a window came or
went under a held button, or came over the window to choose a team. What the
menus believe, and which answer a question returns, is stated as long as that has
not happened; what pointers point to always. `outrun` marks a question that was
answered, but has not returned, when another one is asked.

**Editor.** Two layers of tiles, two lists of things, the entries of `KeyValue`
that a map is saved to, and the file on the disk. Draw mode, layer, mirroring
and kind are inputs of each operation. Things are vectors, whose loops replace
the first one at a place and erase what a smaller map leaves outside; a paste
goes through the cells that were copied, and draws those that fall on the map.
`SaveMap` has the three outcomes of `KeyValue::save`: the file is not opened (an
exception, the map stays modified), it is written, or it is opened and its
writing fails, which the code does not notice (`Cut`). `Found` is what lies in
`maps/` at the start; its maps may have objects that are not in the resources
(`Unknown`) and are skipped when they are loaded. A cut file is not loaded again.

## 5. Runs

| run | module, cfg | checks | shows |
|---|---|---|---|
| `stream` | `MCMessageSequencer`, `MCStream` | `TypeOK`, `ClientStreamInOrder`, `ServerStreamSound`, `AckedByServerIsDelivered`, `InQueueDrained`, `ImplementsChannel` | both streams in order, acknowledgements not early, queues drained, and `ReliableChannel` implemented |
| `players` | `MCGameServer`, `MCPlayers` | `PlayersAgree` | unique identifiers and equal lists, three connections coming and going |
| `lobby` | `MCGameServer`, `MCLobby` | `TournamentShared`, `LobbyLeftTogether`, `WarmupThenGame` | synchronisation against tournament changes, lobby, warmup, `/next`, `/map`, `/set`, `/kick` in every order |
| `sync` | `MCGameServer`, `MCSync` | `SyncedHavePaks`, `NoDoubleScore`, `QuitClientGoes` | paks, held points, clients told to quit |
| `flags` | `MCWearables`, `MCFlags` | `CarriedOnce`, `CarriersPlay` | no flag or coin is lost or doubled |
| `matches` | `MCMatches`, `MCMatches` | `ReplicasAgree`, `FragsToShooter`, `DeadTakeNothing`; `HillHolderPlays`, `BoardAgrees`, `ScoresEarned` | what server and clients keep of a match stays together; frags, points and records go to the right players |
| `messages` | `MCMessages`, `MCMessages` | `OnePlayerPerHeap`; `PacketsWhole`; `MovesTrue` | three clients for one place; every client reads exactly the packets meant for it; nobody gets into a wall or is lifted by a platform |
| `session` | `MCSession`, `MCSession` | `NeverPingedOutEarly`, `EveryMessageSettled`, `DoomedHeapGoes`; `NothingStale`, `PaksWhole`, `LoginAndSessionEnd`; `EditorSound`, `LightmapTrue` | timeouts neither early nor late; the threads of a client; the editor and its thread |
| `play` | `MCClientPlay`, `MCPlay` | `KeysHeld`, `JoinWindowLive`, `RequestsSettled` | keys, windows and requests agree with what the server makes of them |
| `menus` | `MCMenus`, `MCMenus` | `ListAgrees`, `ConnectReadsLive`; `PointersLive`, `WindowsMatch`, `NoStaleAnswer` | the list of servers, and the windows of a running game |
| `overwritten` | `MCStackedSend`, `MCOverwritten` | `GameplayStateSent` (violated) | section 7 |
| `join` | `MCClientPlay`, `MCJoin` | `JoinAnswered` (violated) | section 7 |

**Bounds, and why they are enough for the questions asked.**

- `stream`: one client, since heaps of different addresses share nothing but the
  number of heaps (the subject of `messages`). Three reliable pushes per end is a
  Login, a message and a Logout, or a message waiting behind another, which
  stop-and-wait needs; two sessions let a late Login open a second one;
  `MaxUnrel` 2 gives each heap two datagrams besides (acknowledgements, pings
  and pongs compete for them), and one more of each kind was tried without
  finding anything else. `MaxQueue` 2 is one more than an honest `in_queue`
  ever holds in one session. `Unsolicited` restricts which side sends pings or
  state updates of its own accord.
- `players`, `lobby`, `sync`: three connections where identifiers and lists
  matter, two elsewhere (a property about a player and the others needs one
  other); logins are bounded by 5, 2 and 3, so connections come back; two
  tournaments, so that there is a change of tournament. `lobby` has one map in
  its rotation and the temporary maps of `/map`; `sync` has one pak that must not
  differ and one that is downloaded, holds scores and refuses to join.
- `flags`: two players, one per team or both in one, three logins, so one comes
  back; two tournaments; `DropTime` 2, so a flag can be picked up, and returned,
  after some time on the ground.
- `matches`: two players, three bodies being no different from two for what one
  does to another, health and damage 1, so that every hit kills and the order of
  deaths matters most; four settings that give each of shots, bombs and frogs a
  small number at a time, with and without warmup. Two passes make a point on
  the hill, two lap times make better and equal laps, and responses are
  broadcast before the next handler adds to them.
- `messages`: one place for two clients with the right password and one without;
  a buffer of four units and packets of one to three, so that every relation of
  a packet to the rest of the buffer occurs, in three handlers after one another
  with up to three packets each; a room with a platform and a ledge, and a pit with a
  tile of each other kind,
  in tiles of 4 pixels instead of 16 with the speeds in proportion, and recoils
  in every direction.
- `session`: the timers are shortened in proportion (a ping interval of 3
  ticks, two intervals to the timeout, 1 + 2 resends with throttling) so that
  every counter reaches its limit together with every other. Two paks, one of
  two chunks, so that a download can break off in the middle and another follow.
  The editor has a map of two sizes, one layer and both kinds of things, three changes
  or saves, pastes over either edge (`PasteAt`), and finds either nothing or a map
  with an object that is not in the resources.
- `play`: two tournaments and one message each way ahead of another: a request
  or an answer and a change of the tournament can cross in every order. The jump
  key is the one the code treats apart.
- `menus`: one visible row for two servers, so the list scrolls, one of which
  announces no valid port; two records, so that it is recorded twice or beside
  the other; two addresses, so that one is freed and given again (three of each
  were run once, ten million states, without finding anything else); the title
  that sorts, either way, and the last, which reads behind the sorters. Four windows: options, settings, a question, and one of the
  network's.

Symmetry is used where the elements are interchangeable and only safety is
checked (`players`, `flags`, `messages`, and the persons of `matches`).

Every property of a passing run is broken by at least one change of the model
that a plausible mistake in the code would make; those changes are kept as
operators marked "Mutant" beside the definitions they would replace. They are
not part of the specifications.

**Deadlock** is not checked: all bounded runs stop when their bounds are used up,
and a real server with nobody connected does nothing.

**Fairness.** Safety runs assume none. `session` assumes that `cycle()` runs and
time passes (`WF` of `Cycle` and of `Tick`): the loops of server and client call
`cycle()` in every iteration and sleep one millisecond, unconditionally; that
both threads of the client go on (`EventData`, `ThreadEnds`, `Main`), that the
server's pak synchronisation goes on (`ProcessSyncPak`), and that a login is
answered or given up (`Answered`): the timers of the message layer see to that. A connection
that stands need not break, and a player need not leave. `sync` assumes that the
main loop goes on (`WF` of a pass or a frame) and that the message layer raises
`event_logout` of a killed connection: `cycle()` looks at `deferred_kill` first
whenever it visits the heap, and visits all in turn. Nothing is assumed of the
network, the clients or the administrators.

**State spaces** (two workers): from some hundred thousand to six million
distinct states, one to two and a half minutes each.

## 6. Proofs

TLAPS proves, for every value of the constants that meets the named assumptions:

| theorem | module | says |
|---|---|---|
| `TypeCorrect` | `Messages_proofs` | `TypeOK` |
| `StreamCorrect` | `Messages_proofs` | the inductive invariant `StreamInv` |
| `ClientStreamCorrect` | `Messages_proofs` | the server receives exactly a prefix of what the client pushed |
| `AckedByServerCorrect` | `Messages_proofs` | what the client has dropped, the server application has |
| `PlayersCorrect` | `Messages_proofs` | one Player per heap |
| `ChannelCorrect` | `Messages_proofs` | every step of the message layer is a step of `ReliableChannel` or a stutter |
| `ReturnCorrect` | `Messages_proofs` | the inductive invariant `ReturnInv` of the way back |
| `ServerStreamCorrect` | `Messages_proofs` | the client receives every number once, in order, from sessions that never fall back |
| `DrainedCorrect` | `Messages_proofs` | no message waits in an `in_queue` between two cycles |
| `PacketsArriveWhole` | `Messages_proofs` | however handlers stack, flush and send, each client reads exactly the packets meant for it |
| `PingTimeoutCorrect` | `Session_proofs` | no ping timeout before the time |
| `ThreadsCorrect` | `Session_proofs` | nothing is used after the other thread has destroyed it |
| `DownloadsCorrect` | `Session_proofs` | what is written of a pak is its beginning; complete paks stay, parts do not |
| `EditorIsSound` | `Session_proofs` | a map that is not marked as modified is on the disk as it is, but for an unnoticed failure to write it and for unknown objects; no two things of a kind are at one place, the marked picture is on the page that is shown |
| `LightmapIsTrue` | `Session_proofs` | a light map that is written is that of the map as it is (an action property) |
| `TypeCorrect` | `GameServer_proofs` | types, and that the search for a free identifier finds one |
| `AgreeCorrect` | `GameServer_proofs` | `PlayersAgree`: distinct identifiers, equal lists |
| `PaksCorrect` | `GameServer_proofs` | who is synchronised has every pak |
| `ScoresCorrect` | `GameServer_proofs` | the points of a login are held once or owned by one player |
| `TournamentCorrect` | `GameServer_proofs` | who is synchronised knows the tournament |
| `LobbyCorrect`, `WarmupCorrect` | `GameServer_proofs` | the action properties about lobby and warmup |
| `NeverDoubled` | `Wearables_proofs` | a flag or the coin is carried by one player or lies in the map |
| `OnlyPlayersCarry` | `Wearables_proofs` | the dead, spectators and players who load carry nothing (with `HoldScores` and `LateJoin` false) |
| `PlayTypeCorrect` | `ClientPlay_proofs` | types |
| `KeysCorrect` | `ClientPlay_proofs` | the game moves on held keys, or a `GPCReady` lets go of them |
| `WindowCorrect` | `ClientPlay_proofs` | the team window is that of the tournament that is played, and the only one |
| `RequestsCorrect` | `ClientPlay_proofs` | no request is lost or made twice |
| `DeskTypeCorrect`, `PointersCorrect` | `Menus_proofs` | types; every pointer is to an object of an open window |
| `MatchCorrect` | `Menus_proofs` | as long as `surprised` is false: the options menu and the tournament know whether their window is open |
| `AnswersCorrect` | `Menus_proofs` | as long as `surprised` is false and the program does not quit: a question returns its own answer, or a later one's if it is `outrun` (an action property) |
| `ListCorrect` | `Menus_proofs` | every server with a valid port, and every server of a LAN, is listed once; the list is in the order of the present sorter; the selection stays with its server unless it was made `late` |
| `ConnectCorrect` | `Menus_proofs` | what "connect" reads was not deleted, unless the list is `stale` and the row was selected `late` |
| `ScoreTypeCorrect`, `BoardListsCorrect` | `Matches_proofs` | types; the board lists everybody once |
| `HillCorrect` | `Matches_proofs` | the holder of the hill is alive and plays |
| `EarnedCorrect` | `Matches_proofs` | points and records are earned (an action property) |
| `BoardCorrect` | `Matches_proofs` | the clients' scores, goat and laps are the server's |
| `ArenaTypeCorrect` | `Matches_proofs` | types, and no more identifiers than people |
| `FragsCorrect` | `Matches_proofs` | whoever gets the frags of a shot has fired it |
| `DeadTakeCorrect` | `Matches_proofs` | a player whom his own step has killed takes nothing (an action property) |
| `ReplicasCorrect` | `Matches_proofs` | the clients' NPCs and objects are the server's |
| `NotLiftedCorrect` | `Matches_proofs` | `NeverLifted`: no one-way tile lifts a player to its top, in any map |

**Assumptions.** `ConstAssumption` and `NoHeapAssumption` of `MessageSequencer`
(the set of clients is finite, limits are natural numbers, a null pointer is not
a heap), `TimerAssumption` of `HeapTimers` (natural numbers, a positive ping
interval, a resend delay not above its maximum, and a history that counts far
enough to tell), `ServerAssumption` (there are names and maps, the checked paks
are paks), `WearablesAssumption` (the kinds are CTF and CTC, the drop time is
positive), `ClientThreadsAssumption` (paks have distinct names and at least one
chunk, and none is called like the null pointer), `ClientPlayAssumption` (there
is a jump key and bounds are positive), `DeskAssumption`, `ScoringAssumption`
(finitely many identifiers above 0, positive lap times), `ArenaAssumption`
(finitely many people, positive health and damage), `StackAssumption` (a packet
fits a message), `EditorAssumption`, `BrowserAssumption` and `PhysicsAssumption`
(positive speeds, a player with a size, maps with a size). TLC evaluates them
in every run. The theorems about `Wearables` assume `HoldScores = FALSE` and
`LateJoin = FALSE` besides, because the code does not keep `CarriedOnce` without
them (section 7), and `PacketsArriveWhole` assumes `~(Config /\ Gaps)`: that no
client is synchronised between two tournaments with a configuration left of the
first, which is the case in which `sync_client` sends over its own stack (run
`overwritten`). `NotLiftedCorrect` assumes that no map is so high that the
999999 pixels of `PlayerFallingTestMaxY` lie within it: the code takes that
number for "not falling". `GameServer` and `HeapTimers` are proved for the
specifications without fairness, of which the others are a part.

**The stream.** "In order, no gap, no repeat" is not inductive: it has to be
known that a *late copy* in the network cannot be taken for the message that is
due. `StreamInv` says of every client: its `out_queue` holds its last pushes,
numbered without a gap (`SentInv`), and those it holds no more are in `given` of
the server (`AckedInv`); every message in an `in_queue` or on its way to the
server is *genuine*, i.e. its sequence number is the number of its push, in the
client's only session (`Genuine`, `NetInv`); every acknowledgement on its way to
the client names a message the server application has been given (`Harmless`);
a server heap has delivered 1 .. `last_recv_rel` (`ReceivedInv`). A step that
receives adds to `in_queue` what was genuine in the network; a delivery takes
the genuine message with the next number, which is the next push; an
acknowledgement pops a message that was given.

*The refinement.* `ReliableChannel` is reached by the mapping that
`ImplementsChannel` names: what the sender regards as confirmed is what it has
pushed less what its `out_queue` holds, what the receiver has got is the history
`delivered` of its heap. One lemma per kind of heap update says which of the
channel's steps it is (`Send`, `Confirm`, `Open`, `Deliver`, `Close`, or none),
and `ChannelCorrect` puts one case per action on top.

*The way back* is weaker, because a second session of the server starts counting
at one and its messages meet acknowledgements of the first. It rests on
*stop-and-wait*: whatever order datagrams arrive in, a message is sent only when
all before it had arrived, of whichever session (`InTurn`, `InClientsTurn`,
`Backed` for every datagram under way). With it, a server heap holds the last
pushes of its session (`Numbered`) and has let go only of numbers the client has
(`SendsBack`, `Has`), the client has delivered one message of each number from
sessions that never fall back (`Orderly`, `HearsBack`), and a heap of the first
session has received all that was ever received from the address (`CaughtUp`,
`FirstSession`), which makes the first session's acknowledgements true.

**The stacked packets.** `BufferSound` says what lies in the buffer while packets
are stacked: a *chain*, that is, offsets from 0 to `pb` at each of which a packet
begins that claims to be followed and ends where the next begins, up to the last,
which does not and ends at `packet_len`. What a client would read is a function
that follows the flags; over a chain it reads one packet per link and stops
(`Read...` lemmas, by least counterexample), and stacking a packet appends one
link without touching what is read before it. `Missing` are the clients that have not
read the chain yet, and it is for the next call that it waits: the handlers'
sequences of calls are *orderly*, so whatever opens a stack is continued for the
same clients until it is flushed, and a send in between finds the buffer empty.

**The timers.** `NeverPingedOutEarly` follows from `TimerInv`: a heap with *n*
unanswered pings has been silent for *n* - 1 whole intervals and the time since
the last ping. The proof needs multiplication of unknowns, and so a lemma that
it is monotone.

**Threads and downloads.** `ThreadsSound` has three parts beside the types. What
each thread's place says of the other's (`Lives`): the network thread ends only
after its flag was cleared, and the main thread destroys only after it has ended.
And how far the download is (`Downloading`): the event queue, the messages under
way and the acknowledgements together stand for one position <<pak, chunk>> in
the list, and the disk holds every pak before it whole or not at all, and of the
present one the chunks before the position.

**The game server.** Types already need that a smallest free identifier exists
among *n* + 1 candidates, by counting. `PlayersAgree` is inductive with the types.
`PaksSynced` adds that what is not missing is in the client's files, also while
he loads; `StatsFresh` that points are numbered by the login they began with and
no number is used twice; `TournamentSound` that a lobby has not run out and a
temporary map waits only while nothing is played. Most handlers change nothing
of each of these, and one lemma per invariant (`Calm`, `SameAll`) dismisses them
together.

**Flags and coins.** `CarriedOnce` alone is not inductive: a handler that resets
a player keeps it only if it knows that the player carries nothing by then.
`CarryInv` adds that carriers play, that players who play are synchronised, so
that the tournament is told of everybody who leaves with a flag, and that nobody
brings a flag into a lobby, where teams change freely. Between two tournaments
the things are fresh while players still have their flags, so the invariant says
nothing of the things then, and the next tournament takes the flags away. A world
[players, things] is `Whole` if what is picked is what exactly one player
carries. Nearly every step only takes things from a set of players and releases
them, and `LoseKeeps` proves once that this keeps a world whole; picking is the
one step that gives, and `PickedWhole` shows that nobody carries what is not
picked. `Integrate` composes these lemmas in the order of the pass.

**Keys, windows, requests.** `PlaySound` is a conjunction of six parts, each
inductive only with others. *Windows*: the team window is on top, and what it
covers is the chat or the options, with which the client takes the player to be
writing. *Keys*: keys that are not held, or that a window would not see released,
are let go of at the next `GPCReady`, and every reset on its way is followed by
one. *Tournaments*: the maps on their way rise to the server's tournament, and an
answer precedes any map. *Requests*: there is one request to join in the
responses, on its way, or one answer, never two of the three. *Settled*: who
waits has one of them, or a window.

**Windows of the game.** `DeskSound` says that windows are stacked in the order
they were opened and no identity is used twice, that every pointer is to an
object of a window on the stack, and, as long as no window has surprised the
player, how the windows lie on each other (`Layout`), whose button is held
(`Holding`) and which questions are still open (`Asking`): all but the last are
`outrun`, and the last has its box on the stack or its answer in `response`.

**The list of servers.** `BrowserSound` follows an address wherever it is kept.
No two objects have the same address (`Apart`), every row of the listbox is of an
object unless the list is stale (`RowsLive`), and the selected entry is the
address of an object of the server that the player selected, unless he selected
it late (`EntryLive`, `SelectionKept`). After a refresh nothing is selected until
the next click (`Unclicked`), and that click is late. All that happens to the list
of hosts is one of four things: it is shuffled (a sort, an ageing, by one lemma:
the objects stay the same), a host is taken out and its object stays, one is added
at an address nobody uses, or all are deleted and the list starts anew. That the
order survives what happens between two sorts (time passes, hosts are removed)
has to be shown for every sorter, and that a filled listbox has rows of hosts
only, for every number of steps of the loop that fills it.

**The map editor.** `EditorInv` says that the map, the copied part, the entries
and every file on the disk have their types, with no two things of a kind at one
place, that a map not marked as modified is on the disk, whole and with nothing left
over, or its file is cut (`CleanIsSaved`; `Known` is what loading leaves of its objects), that the marked picture is on its page, and what the
light map's thread has computed: the light of the first lights *of the map as it
is*, because nothing else is possible while its window is open (`CompileSound`).
Most of the work is in `CleanIsSaved` for `save`: entries of an earlier, larger
map are still in `KeyValue`, and it has to be shown that exactly those the map
has are left.

**Scores.** `ScoreSound` adds to the types that the board lists everybody once
*and in the order of the best laps*: only so is the first entry's best lap the
record that `EarnedCorrect` needs. `BoardCorrect` is about copies and needs
`ToldSound`: not what a client's copy is, but *what it will be once it has heard
the outbox*, agrees with the server. A handler that changes the server and queues
the response keeps that, a broadcast makes it the copy. What a client hears is a
function over the sequence of responses, and the lemmas `AlongExists`,
`AlongUnique` and those after them say, by least counterexample, what it yields
on an appended response and that it is blind to what concerns another player.

**The deathmatch.** People are distinct, so identifiers never exceed their
number (`SeatsSound`). `Owned`: owners of shots are synchronised, and only from
synchronised players are the shots taken when they leave; without it a shot
would outlive its owner and credit whoever gets the identifier next. `Picking`:
whose turn it is to take is alive. `ReplicasAgree` needs two invariants:
`NpcsSound`, that no two NPCs share an identifier and one is marked for removal
only while the NPCs walk or somebody walks through them, and `ViewsSound`, that
each copy, once it has heard the waiting responses, mirrors the unmarked NPCs and
the objects that lie there. A removal that is announced twice is heard twice and
changes nothing the second time; that too is a lemma.

**Falling players.** What decides whether a one-way tile stops a player is not
where he is but `last_falling_y_pos`, the place he has fallen to, which the code
compares with the tile's top, moves along after every test, and sets to 999999
whenever he ascends or the key for down is held. `MoverSound` says of a living
player that it is never above the place he is at. The top of a tile that is to
lift him is above that place, so the comparison in `tile_collision` lets him
through.

**Induction over data.** The library's induction theorems take an operator as a
parameter and cannot be used; where a proof needs one, it takes the least
counterexample of a set of natural numbers instead (`LeastExists`, from the
well-foundedness of `<`). `Sequence_lemmas` has what the proofs share: what is
computed step by step exists, is determined, and stays where every step stays
(`StepsExist`, `StepsStay`), and what is left of a sequence of which elements are
erased (`NthIs`, `OnlyIs`). That was enough for what is heard along a sequence of
responses, for the packets along a chain, for the loops of the editor and of the
listbox, for the smallest free identifier and for the n-th element that is
present.

**What the proofs changed.** `KeyOf` of `Browser` had a `CASE` whose guards
overlapped, and its sort was the community modules' `SortSeq`, which is not
defined for equal keys; loops that were written as folds are recursive functions
now, or say what they yield. `NeverLifted` of `Physics` was true only
in a map where a certain tile could not be entered (section 7).

**Left to TLC**, and why:

- liveness (`EveryMessageSettled`, `DoomedHeapGoes`, `LoginAndSessionEnd`,
  `QuitClientGoes`) and anything with `ENABLED`: out of the prover's reach;
- the half `InsideWalls` of `MovesTrue` (the other half, `NeverLifted`, is proved
  for every map): the tests look at the corners and at points a tile
  apart of where the box will be in *one* direction and is in the other, so a
  corner of the box may be in a tile after a frame that moves both ways. Whether
  it gets further in, and then behind a wall, depends on the tiles around it: an
  invariant would have to say, for every map, which corners may be in which
  tiles. The run checks it in two maps;
- the type invariants of `Wearables` and `Physics`, of which the proofs need parts
  only.

## 7. What the models show about the code

Two runs end in a violation, each of a sentence the repository says of the code:

- `overwritten`: `sync_client()` without a tournament stacks the map state and
  overwrites it with the Ready message (`Server.cpp:1151`, `ClientServer.cpp:133`).
  The packet length stays behind for whoever stacks next (`Server.cpp:1152`).
- `join`: a client that asked to join and gets a new tournament instead of an
  answer waits for good: `Tournament::reopen_join_window` does nothing in a
  tournament without teams (`Tournament.cpp:618`, `ClientEvent.cpp:205`).

The models state more, for which there is no run of its own. Of the server:

- After `/reload` or `/set map_count` with fewer maps, `select_map()` reads
  `map_configs` behind its end (`Server.cpp:1088`; `MapPicked` of `GameServer`).
- A player who loads while a coin tournament begins stays in `times_of_players`
  after he has left (`TournamentCTC.cpp:64`; `ListedArePlayers` of `Wearables`).
  The speed race (`TournamentSR.cpp`) builds its list in the same way.
- With `hold_disconnected_player`, a flag carrier's flags are stored before the
  flag is taken from him, and restored when he comes back (`Server.cpp:984`;
  `CarriedOnce` with `HoldScores = TRUE`).
- `GPSSpectate` after `/next` and before the next frame uses a tournament that is
  gone (`Server.cpp:915`). In `GameServer`: `fault` becomes `null_tournament`.
- A respawn request that arrives between two tournaments survives
  `Player::reset()` and spawns its player in the next lobby (`Server.cpp:210`).
- A player who reconnects with held points and still loads when the next
  tournament begins keeps the points of the last (`Server.cpp:300`).
- `quit_client()` begins the countdown anew whenever it is called
  (`Server.cpp:1119-1123`), and a client that is loading is told again by each wrong
  hash (843-868) and each failing acknowledgement (881-890): one that goes on like
  that is never thrown out. `QuitClientGoes` is about all others.
- NPCs keep their owner when he leaves (`TournamentNPC.cpp:384`;
  `Tournament::player_removed` looks at animations only), so whoever gets his
  identifier is credited with what they kill. `FragsToShooter` is about shots and
  bombs.
- A join request of a player who is alive changes his team, and what he carries
  is then the other flag; his own is lost for the rest of the tournament
  (`TournamentTeam.cpp:387`). In `Wearables`: the constant `LateJoin`.
- State responses that wait for the next broadcast when a client is synchronised
  go to that client alone and are deleted (`sync_client`, `Server.cpp:1151`): all
  the others miss them, so `EveryoneTold` of `Arena` does not hold. In the speed
  race, moreover, `create_generic_data` chains one lap of all and forgets the
  others, and laps that wait reach clients whose list was just emptied
  (`NobodyLeftOut` of `Scoring`). The properties about copies are therefore about
  the clients that have missed nothing.
- The ranks of a coin tournament: the client sorts in descending order, so
  `last_total < total` never holds and everybody has rank 1; the server does not
  sort its list for the log at all.

Of the message layer:

- A client that quits while an earlier reliable message is unacknowledged never
  sends its Logout (`Client.cpp:611`); the server keeps the player until the
  ping timeout. In `MessageSequencer`: `Logout`, then `Stop`.
- The resends of a message nobody acknowledges go on for 2450 ms, not for the
  2100 ms of the comment at `MessageSequencer.cpp:37`, and only a Pong ends the
  silence of the comment at line 385.
- A refusal (sequence number 0) is accepted in every state of a client, so one
  that is delayed ends an established connection (`MessageSequencer.cpp:245`).

Of the client and the menus:

- When the file of a download cannot be opened, `current_download_filename` stays
  set although nothing is written (`ClientEvent.cpp:717`), and the end of the
  session removes what has that name (`Client.cpp:110`).
- The list of servers has five titles but four sorters
  (`GameserverInformation.cpp:98`): the second title sorts by the third, and the
  last reads behind the table (`SortedByTitle` of `Browser`); `clear` of the
  listbox keeps the range of its scroll bar.
- The click on a title sorts without the list's mutex (`MainMenu.cpp:437-465`), and
  `LANBroadcaster` erases hosts without it, one by one (`LANBroadcaster.cpp:110-126`):
  menu and thread may change the list at a time (`undefined` of `Browser`).
  `MasterQuery` sorts while it walks the list (`cycle`, through `event_status`), and
  takes a truncated answer for a whole one.
- A refresh deletes all hosts, and the rows of the listbox point to them until the
  next frame. The query blocks meanwhile (`MasterQuery.cpp:62-103`), and all input
  that was queued is handled before the next `idle()` (`Gui.cpp:464-597`): a click
  on a row and one on "connect" read a host that is gone (`MainMenu.cpp:532-545`).
  In `Browser`: `stale` and `late`, and `undefined` after `ConnectClick`.
- The master looks for the record of a server only if its port lies between 0 and
  65536 (`MasterServer.cpp:87`); every other heartbeat makes a record of its own
  (98-100), so a server that announces such a port is listed once per heartbeat
  of the last 30 seconds. `ServersOnce` excepts it on the list of the master.
- `refresh_options()` removes the objects of the options window
  (`OptionsMenu.cpp:47-49`) without asking whether one of them is active, under
  the mouse or shows a tooltip: those pointers dangle (`PointersLive` excepts the
  options window; `broken` of `Desk` is what follows).
- `pop_window()` takes whatever is on top. When a window came or went under a held
  button, or came over the window to choose a team, the next close takes the wrong
  one; a question may lose its box that way, unanswered, and returns what an older
  one was answered (`Gui.cpp:407-409`). In `Desk`: `surprised`.
- All boxes leave their answer in `last_response`. A question that was answered
  returns only when its loop looks at the stack again (`Gui.cpp:448`), after all
  queued input: if that asks another question, the first returns the answer to the
  second. In `Desk`: `outrun`.

Of the physics:

- A frame that moves both ways can enter a convex corner, and the next lifts the
  player onto the ledge; the first descending frame after an ascent can pass a
  platform; a bump of the head clears the falling flag; a killing tile counts
  only if it is the last one tested.
- Who presses the key for down inside a tile that does not let him descend is
  lifted to its top, wherever he came from: `tile_collision` does not compare
  with the last height there (`TournamentStates.cpp:947`), as it does for a
  player who falls. `NeverLifted` makes the exception; the pit of the run has
  such a tile.
- A spectator's view alternates between two places if it is larger than the map.

Of the map editor:

- After the map was made smaller, a copy reads outside its arrays; what is pasted
  outside the map cannot be erased; `Map::get_map_tile` allows `x <= width`.
- A release of Shift or Control is missed while a window is open, and so is that
  of the mouse button.
- When the light map cannot be written, its window stays, and its Cancel uses a
  thread that is gone; leaving the program during the computation deletes the map
  under the thread and loses unsaved work without asking.
- `KeyValue::save` does not notice a write that fails after the file was opened,
  and clears `modified` (`KeyValue.cpp:157-170`): the editor takes for saved what is
  cut off on the disk.
- Loading skips an object that is not in the resources with a warning
  (`EditableMap.cpp:52-58`), and the map counts as unmodified although the file has
  more than the map; the next save drops it there, too. A tileset that is not there
  leaves the map without one (131-141).
- The selected tile outlives a change of the tileset.

## 8. Not modelled

- *Vendored code* (`shared/zlib`), tables of translated text, and generated data.
- *Drawing, sounds, pictures, text boxes*: they read the state that is modelled
  and change none of it that a property here is about.
- *Cargo and the archives*: sequential conversion of files.
- *Platform*: wrappers over SDL, sockets and pthreads. The socket appears as the
  network of `MessageSequencer`, threads and mutexes as the atomicity of
  `ClientThreads`, `Browser` and `Editor`.
- *Floating point*: `Physics` moves in whole pixels; elsewhere the results of
  geometry (somebody dies, something is touched) are inputs of the models.
- *Prediction* of the client's own player between two updates, and its score
  board.
- *Sockets that fail*: a `send` that throws out of `cycle()` or of a flush
  leaves the heap or the buffer in the middle of its work.
- *Sequence numbers* are natural numbers; the code's are 32 bits wide and are
  not expected to wrap within a session.
- *Stateless status requests* of the message layer, the output-only commands
  of the administrator (`list`, `maps`, `get`, `stats`), chat, statistics, and
  the external interface of the server.
- *Of the editor*: packing, the tileset's own properties, the object selector,
  options. *Of the menus*: the settings windows and the parsing of addresses.
