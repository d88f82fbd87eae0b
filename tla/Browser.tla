------------------------------- MODULE Browser -------------------------------
(***************************************************************************)
(* Game servers announce themselves to the master server; the menu of a    *)
(* player lists the servers of the LAN or those of the master, which       *)
(* answer requests for their status.  A thread takes the answers under a   *)
(* mutex; the menu rebuilds its listbox under the same mutex in every      *)
(* frame, and connects to the server that is selected.                     *)
(***************************************************************************)
EXTENDS Listbox, FiniteSets, Places

CONSTANTS
    Servers,       \* game servers: [name, locked, free, compatible, valid_port]
    Columns,       \* columns of the list whose titles are clicked, from 0
    Pings,         \* bound: ping times
    MaxRecords,    \* bound: records of the master server
    MaxInfos,      \* bound: objects GameserverInformation at a time
    MaxSilence     \* time after which a server is forgotten

ASSUME BrowserAssumption ==
    /\ Servers \subseteq [name : Nat, locked : BOOLEAN, free : Nat, compatible : BOOLEAN,
                           valid_port : BOOLEAN]
    /\ Columns \subseteq 0 .. 4 /\ Pings \subseteq Nat
    /\ {MaxRecords, MaxInfos, MaxSilence} \subseteq Nat

VARIABLES
    records,    \* master server: servers and the age of their heartbeats
    kind,       \* the list on screen: "lan" or "wan"
    hosts,      \* ServerList::hosts, in order; each host has an address
    leaked,     \* objects that are in no list any more and never deleted
    sorting,    \* column and direction that the list is sorted by
    list,       \* the listbox
    entry,      \* lan_list_selected_entry or wan_list_selected_entry, 0: none
    picked,     \* the server that the player selected last, if any
    only,       \* compatible servers only
    box,        \* the row that a password is asked for, if any
    playing,    \* a client runs: the menu and the thread stand still
    stale,      \* no frame has passed since the last refresh
    late,       \* the row selected last was clicked while the list was stale
    undefined   \* a deleted object or the end of the sorters' table was read,
                \* or two threads have changed the list at a time

found == <<hosts, leaked>>
view == <<list, entry, picked, stale, late>>
choice == <<kind, sorting, only>>
flow == <<box, playing, undefined>>
browser == <<records, found, view, choice, flow>>

Sorters == <<"name", "locked", "free", "ping">>
Titles == <<"name", "protocol", "locked", "free", "ping">>
Info(id, s, ping, received) == [id |-> id, of |-> s, ping |-> ping, received |-> received, age |-> 0]

BrowserInit ==
    /\ records = << >> /\ kind \in {"lan", "wan"} /\ hosts = << >> /\ leaked = {}
    /\ sorting = [column |-> 0, up |-> TRUE] /\ list = NewList /\ entry = 0 /\ picked = {}
    /\ only \in BOOLEAN /\ box = {} /\ playing = FALSE
    /\ stale = FALSE /\ late = FALSE /\ undefined = FALSE

Old(x) == x.age > MaxSilence
Recent(seq) == Only(seq, {k \in DOMAIN seq : ~Old(seq[k])})

(* The objects there are, by address and server.  A new one gets any       *)
(* address that is not in use, also one that was in use before.            *)
Row(h) == [id |-> h.id, of |-> h.of]
Objects == {Row(hosts[k]) : k \in DOMAIN hosts} \cup leaked
Unused(objects) == 1 .. MaxInfos \ {o.id : o \in objects}

-----------------------------------------------------------------------------
(* The master server.                                                      *)

(* A server is looked for only if its port is one (a server on port 0 has  *)
(* none); every other heartbeat makes a record of its own.                 *)
Recorded(s) == s.valid_port /\ \E k \in DOMAIN records : records[k].of = s
Record(s) ==
    IF Recorded(s)
    THEN [k \in DOMAIN records |-> IF records[k].of = s THEN [of |-> s, age |-> 0] ELSE records[k]]
    ELSE Append(records, [of |-> s, age |-> 0])

Heartbeat(s) ==
    /\ Recorded(s) \/ Len(records) < MaxRecords
    /\ records' = Record(s) /\ UNCHANGED <<found, view, choice, flow>>

Known == Recent(records)
DeleteOldEntries == records' = Known /\ records' # records /\ UNCHANGED <<found, view, choice, flow>>

Older(seq) == [k \in DOMAIN seq |-> IF Old(seq[k]) THEN seq[k] ELSE [seq[k] EXCEPT !.age = @ + 1]]

TimePasses ==
    /\ records' = Older(records) /\ hosts' = Older(hosts) /\ <<records, hosts>>' # <<records, hosts>>
    /\ UNCHANGED <<leaked, view, choice, flow>>

-----------------------------------------------------------------------------
(* The thread of LANBroadcaster or MasterQuery.                            *)

Thread == ~playing /\ ~undefined /\ UNCHANGED <<records, view, choice, flow>>

(* A client of the master's list that has not answered has no attributes.  *)
KeyOf(h, attribute) ==
    IF ~h.received THEN 0
    ELSE CASE attribute = "ping" -> h.ping
           [] attribute = "name" -> h.of.name
           [] attribute = "locked" -> IF h.of.locked THEN 1 ELSE 0
           [] OTHER -> h.of.free  \* "free"
Before(order, g, h) ==
    LET a == Sorters[order.column + 1]
    IN  IF order.up THEN KeyOf(g, a) < KeyOf(h, a) ELSE KeyOf(g, a) > KeyOf(h, a)

(* std::sort: hosts that are equal to the sorter come in any order.        *)
Orders(seq, order) ==
    {p \in [DOMAIN seq -> DOMAIN seq] :
       \A j, k \in DOMAIN seq : j < k => p[j] # p[k] /\ ~Before(order, seq[p[k]], seq[p[j]])}
Sorted(seq, order) == {[k \in DOMAIN seq |-> seq[p[k]]] : p \in Orders(seq, order)}

At(s) == {k \in DOMAIN hosts : hosts[k].of = s}

(* A server of the master's list that announces no port is asked in vain.  *)
HostAnswers(s, ping) ==
    /\ Thread /\ (kind = "lan" \/ s.valid_port)
    /\ \/ \E k \in At(s) :
            hosts' \in Sorted([hosts EXCEPT ![k] = Info(hosts[k].id, s, ping, TRUE)], sorting)
       \/ /\ At(s) = {} /\ kind = "lan"
          /\ \E id \in Unused(Objects) : hosts' \in Sorted(Append(hosts, Info(id, s, ping, TRUE)), sorting)
    /\ UNCHANGED leaked

(* The first old server of the LAN is removed from the list.               *)
FirstOld(k) == k \in DOMAIN hosts /\ Old(hosts[k]) /\ \A j \in 1 .. k - 1 : ~Old(hosts[j])
Erased(k) == hosts' = Only(hosts, DOMAIN hosts \ {k})

(* Mutant: what is removed from the list is deleted, too.                  *)
RemoveAndDelete ==
    /\ Thread /\ kind = "lan"
    /\ \E k \in DOMAIN hosts : FirstOld(k) /\ Erased(k)
    /\ UNCHANGED leaked

(* The objects of old servers are never deleted.  They are removed one by  *)
(* one, without the mutex.                                                 *)
RemoveOld ==
    /\ Thread /\ kind = "lan"
    /\ \E k \in DOMAIN hosts : FirstOld(k) /\ Erased(k) /\ leaked' = leaked \cup {Row(hosts[k])}

(* Whoever reads or changes the list meanwhile may find it half done.      *)
Removing == kind = "lan" /\ \E k \in DOMAIN hosts : Old(hosts[k])

-----------------------------------------------------------------------------
(* The menu.  idle() fills the listbox anew and finds the selected server  *)
(* by the address of its object.                                           *)

Frames == ~playing /\ ~undefined
Shown(h) == h.received /\ (only => h.of.compatible)

Filled ==
    LET filled[n \in 0 .. Len(hosts)] ==
          IF n = 0 THEN Clear(list)
          ELSE IF Shown(hosts[n]) THEN AddEntry(filled[n - 1], Row(hosts[n]))
          ELSE filled[n - 1]
    IN  filled[Len(hosts)]

(* Mutant: the selection is kept by its row.                               *)
RowKept(filled) == Select(filled, list.selected)

Reselected(filled) ==
    LET at == {k \in DOMAIN filled.entries : filled.entries[k].id = entry}
    IN  IF at = {} THEN filled ELSE Select(filled, (CHOOSE k \in at : TRUE) - 1)

MenuIdle ==
    /\ Frames
    /\ LET marked == Reselected(Filled)
       IN  /\ list' = SetTop(marked, list.top)
           /\ entry' = IF kind = "lan" /\ marked.selected = -1 THEN 0 ELSE entry
    /\ stale' = FALSE /\ <<list, entry, stale>>' # <<list, entry, stale>>
    /\ undefined' \in {FALSE, Removing}
    /\ UNCHANGED <<records, found, picked, late, choice, box, playing>>

(* The password box is modal; on_item_selected reports a new row only.     *)
Clicks == Frames /\ box = {} /\ UNCHANGED <<records, kind, flow>>
Chooses(lb) ==
    /\ list' = lb
    /\ IF lb.selected # list.selected /\ lb.selected >= 0
       THEN entry' = Chosen(lb).id /\ picked' = {Chosen(lb).of} /\ late' = stale
       ELSE UNCHANGED <<entry, picked, late>>
    /\ UNCHANGED <<found, stale, choice>>

EntryClick(row) == Clicks /\ Chooses(ClickRow(list, row))
EntryWheel(step) == Clicks /\ Chooses(Wheel(list, step))
Scroll(v) == Clicks /\ Chooses(ScrollTo(list, v))

(* The column of the listbox is taken for the index of the sorter, which   *)
(* is read without a check of the table's end; and the list is sorted      *)
(* without the mutex, perhaps while the thread sorts it or removes from it.*)
SortClick(column) ==
    /\ Frames /\ box = {}
    /\ sorting' = [column |-> column, up |-> ~(column = sorting.column /\ sorting.up)]
    /\ undefined' \in IF column \in 0 .. Len(Sorters) - 1 THEN {FALSE, hosts # << >>} ELSE {TRUE}
    /\ IF undefined' THEN hosts' = hosts ELSE hosts' \in Sorted(hosts, sorting')
    /\ UNCHANGED <<records, leaked, view, kind, only, box, playing>>

(* All objects of the list are deleted; the WAN list starts with what the  *)
(* master knows or with the part of it that arrived.                       *)
Emptied(n) ==
    /\ \E ids \in [1 .. n -> Unused(leaked)] :
         /\ \A j, k \in 1 .. n : j # k => ids[j] # ids[k]
         /\ hosts' = [k \in 1 .. n |-> Info(ids[k], Known[k].of, 0, FALSE)]
    /\ records' = Known /\ UNCHANGED leaked

(* The rows stay until the next frame, with the addresses of the deleted   *)
(* objects.  The answer of the master is awaited in between, and clicks    *)
(* that were made meanwhile come before the frame.                         *)
RefreshClick(n) ==
    /\ Frames /\ box = {} /\ n \in IF kind = "lan" THEN {0} ELSE 0 .. Len(Known)
    /\ Emptied(n)
    /\ entry' = 0 /\ list' = Select(list, -1) /\ stale' = TRUE /\ late' = FALSE
    /\ undefined' \in {FALSE, Removing}
    /\ UNCHANGED <<picked, choice, box, playing>>

CompatibleClick ==
    /\ Clicks /\ only' = ~only /\ UNCHANGED <<found, view, sorting>>

(* Close or escape; the locator that the window opens with is the LAN's,   *)
(* the other is made when its tab is clicked: here a window has one.       *)
PlayClose(k) ==
    /\ Frames /\ box = {} /\ kind' = k
    /\ \E n \in IF k = "lan" THEN {0} ELSE 0 .. Len(Known) : Emptied(n)
    /\ sorting' = [column |-> 0, up |-> TRUE]
    /\ list' = NewList /\ entry' = 0 /\ picked' = {} /\ stale' = FALSE /\ late' = FALSE
    /\ UNCHANGED <<only, flow>>

(* An index within both lists, then the object of the row.                 *)
MayConnect == list.selected >= 0 /\ list.selected < Len(hosts)
Connecting == UNCHANGED <<records, found, view, choice>>

ConnectClick ==
    /\ Frames /\ box = {} /\ MayConnect
    /\ LET read == {o \in Objects : o.id = Chosen(list).id}
       IN  /\ undefined' = (read = {})
           /\ box' = {info \in read : info.of.locked}
           /\ playing' = \E info \in read : ~info.of.locked /\ info.of.compatible
    /\ Connecting

PasswordEntered(yes) ==
    /\ Frames /\ box # {} /\ box' = {}
    /\ playing' = (yes /\ \A info \in box : info.of.compatible)
    /\ UNCHANGED undefined /\ Connecting

ClientEnds == playing /\ playing' = FALSE /\ UNCHANGED <<box, undefined>> /\ Connecting

BrowserNext ==
    \/ \E s \in Servers : Heartbeat(s) \/ \E ping \in Pings : HostAnswers(s, ping)
    \/ DeleteOldEntries \/ TimePasses \/ RemoveOld \/ MenuIdle
    \/ \E row \in 0 .. Rows - 1 : EntryClick(row)
    \/ \E step \in {-1, 1} : EntryWheel(step)
    \/ \E v \in {list.value - 1, list.value + 1} : Scroll(v)
    \/ \E column \in Columns : SortClick(column)
    \/ \E n \in 0 .. MaxRecords : RefreshClick(n)
    \/ \E k \in {"lan", "wan"} : PlayClose(k)
    \/ CompatibleClick \/ ConnectClick \/ ClientEnds
    \/ \E yes \in BOOLEAN : PasswordEntered(yes)

BrowserSpec == BrowserInit /\ [][BrowserNext]_browser

-----------------------------------------------------------------------------
(* Types, and a listbox that agrees with its scroll bar.                   *)
BrowserTypeOK ==
    /\ \A k \in DOMAIN hosts : hosts[k].of \in Servers
    /\ \A k \in DOMAIN records : records[k].of \in Servers
    /\ \A o \in Objects : o.id \in 1 .. MaxInfos
    /\ kind \in {"lan", "wan"} /\ Cardinality(box) <= 1
    /\ {only, playing, stale, late, undefined} \subseteq BOOLEAN /\ ViewOK(list)

(* A server is listed once, by the master and by the players, however      *)
(* often it announces itself or answers.  Only a server that announces no  *)
(* valid port is recorded, and listed by those who ask the master, as      *)
(* often as its heartbeats have come of late.                              *)
ServersOnce ==
    /\ \A j, k \in DOMAIN hosts :
         hosts[j].of = hosts[k].of /\ (kind = "lan" \/ hosts[k].of.valid_port) => j = k
    /\ \A j, k \in DOMAIN records :
         records[j].of = records[k].of /\ records[k].of.valid_port => j = k

(* What a click on "connect" would read is the object of the row that is   *)
(* selected, and what is read when the password has been entered is that   *)
(* of the server that asked for it: the thread removes servers meanwhile,  *)
(* but deletes none, so that their addresses are not given to others, and  *)
(* a refresh forgets the selection.  What the code does not prevent: after *)
(* a refresh, and before the next frame, a row of the old list is selected *)
(* again.                                                                  *)
ConnectReadsLive ==
    /\ MayConnect => Chosen(list) \in Objects \/ (stale /\ late)
    /\ box \subseteq Objects

(* The selected row shows the server that the player selected, however the *)
(* list is sorted, filtered, filled or scrolled since, and whatever other  *)
(* servers have come; unless a row of a stale list was selected, whose     *)
(* address another server may have got.                                    *)
SelectionKept == list.selected >= 0 /\ ~late => Chosen(list).of \in picked

(* The list is in the order of the present sorter.                         *)
HostsSorted ==
    ~undefined =>
       \A k \in 1 .. Len(hosts) - 1 : ~Before(sorting, hosts[k + 1], hosts[k])

(* The list is what the player made of it.                                 *)
ListAgrees == ServersOnce /\ SelectionKept /\ HostsSorted

(* A click on a title sorts by the column below it (the change log:        *)
(* "servers listbox, sorting bug fixed").                                  *)
SortedByTitle ==
    /\ sorting.column + 1 \in DOMAIN Sorters
    /\ Sorters[sorting.column + 1] = Titles[sorting.column + 1]
=============================================================================
