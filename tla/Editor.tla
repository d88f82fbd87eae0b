------------------------------- MODULE Editor -------------------------------
(***************************************************************************)
(* The map editor: one map in memory, drawn on by hand, copied from and    *)
(* pasted to, resized, loaded and saved, while a thread may compute the    *)
(* light map from it.  A map has two layers of tiles and two lists of      *)
(* things, objects and lights.  Which draw mode, layer, mirroring and kind *)
(* of thing a key or window has chosen is an input of each operation: they *)
(* can be changed at any time between two of them.                         *)
(***************************************************************************)
EXTENDS Integers, Sequences, SequencesExt, FiniteSetsExt, Functions, Places

CONSTANTS
    Layers,       \* layers that are drawn on, among "map" and "decoration"
    Kinds,        \* lists of things that are used, among "object" and "light"
    MapNames,     \* names that a map is given
    MapSizes,     \* sizes of maps: <<width, height>>; the width is even
    TileCount,    \* tiles of a tileset
    ButtonsOnPage,\* tiles on a page of the tile selector
    Looks,        \* values of an object or a light
    Unknown,      \* objects that are not in the resources
    Found,        \* what is in maps/ at the start: a choice of functions
    PasteAt,      \* bound: where the mouse is when a copy is pasted
    MaxEdits      \* bound: changes to the map, saves and light maps in a run

ASSUME EditorAssumption ==
    /\ Layers \subseteq {"map", "decoration"} /\ Kinds \subseteq {"object", "light"}
    /\ MapSizes # {} /\ MapSizes \subseteq (Nat \ {0}) \X (Nat \ {0})
    /\ \A s \in MapSizes : s[1] % 2 = 0
    /\ TileCount \in Nat \ {0} /\ ButtonsOnPage \in Nat \ {0}
    /\ PasteAt \subseteq Int \X Int
    /\ 0 \in Looks /\ Looks \cap Unknown = {} /\ MaxEdits \in Nat /\ "" \notin MapNames

VARIABLES
    wmap,       \* the map: name, size, whether it has a tileset, layers, things
    modified,   \* KeyValue::modified
    kv,         \* KeyValue::entries
    files,      \* maps/*.map: the entries that were saved, or Cut
    lmps,       \* maps/*.lmp: the light maps that were computed
    selecting,  \* is_selecting
    point,      \* the first point of the selection, if one is chosen
    copied,     \* what was copied last
    shown,      \* the window over the editor: "none", "tiles" or "compile"
    pages,      \* tile selector: selected_tile_index, page, first tile, ts_picture
    compile,    \* the thread
    edits,      \* changes, saves and light maps so far
    crashed     \* memory was used that does not exist

mapVars == <<wmap, modified, kv>>
diskVars == <<files, lmps>>
selVars == <<selecting, point, copied>>
guiVars == <<shown, pages>>
editor == <<mapVars, diskVars, selVars, guiVars, compile, edits, crashed>>

NoName == ""
NoPoint == << >>
Nothing == -1
Cells(w, h) == (0 .. w - 1) \X (0 .. h - 1)
Empty(w, h) == [l \in Layers |-> [c \in Cells(w, h) |-> Nothing]]
NoThings == [k \in Kinds |-> << >>]
Smallest == CHOOSE s \in MapSizes : \A t \in MapSizes : s[1] * s[2] <= t[1] * t[2]
Fresh == [name |-> NoName, size |-> Smallest, tileset |-> FALSE,
          layer |-> Empty(Smallest[1], Smallest[2]), things |-> NoThings]
NoEntries == [size |-> <<0, 0>>, name |-> NoName, tileset |-> FALSE, rows |-> << >>,
              count |-> [k \in Kinds |-> 0], listed |-> [k \in Kinds |-> << >>]]
(* What is left of a file that was opened and could not be written: what   *)
(* there is of it is not told apart, and it is not loaded again.           *)
Cut == NoEntries
NoThread == [state |-> "none", next |-> 0, light |-> << >>, lights |-> 0]
NoPages == [selected |-> 0, page |-> 0, start |-> 0, picture |-> Nothing]
InMap(m, c) == c \in Cells(m.size[1], m.size[2])

EditorInit ==
    /\ wmap = Fresh /\ modified = FALSE /\ kv = NoEntries
    /\ files \in Found /\ lmps = << >>
    /\ selecting = FALSE /\ point = NoPoint
    /\ copied = [size |-> <<0, 0>>, layer |-> Empty(0, 0), things |-> NoThings]
    /\ shown = "none" /\ pages = NoPages /\ compile = NoThread /\ edits = 0 /\ crashed = FALSE

-----------------------------------------------------------------------------
(* Operations on a map.  Those on things change it only if there is one to *)
(* erase, or none where one is set.                                        *)

Holding(s, c) == {i \in DOMAIN s : s[i].at = c}
FirstAt(s, c) == CHOOSE i \in Holding(s, c) : \A j \in Holding(s, c) : i <= j
EraseThing(s, c) == IF Holding(s, c) = {} THEN s ELSE RemoveAt(s, FirstAt(s, c))
(* Mutant: what is there is not looked for.                                *)
SetAnother(s, c, look) == Append(s, [at |-> c, look |-> look])
SetThing(s, c, look) == IF Holding(s, c) = {} THEN Append(s, [at |-> c, look |-> look]) ELSE s
(* Lights are set with the look 0 first.                                   *)
SetLook(k, look) == IF k = "light" THEN 0 ELSE look
PutLook(s, c, look) == [i \in DOMAIN s |-> IF i \in Holding(s, c) THEN [s[i] EXCEPT !.look = look] ELSE s[i]]

SetTile(m, l, c, t) == IF InMap(m, c) THEN [m EXCEPT !.layer[l][c] = t] ELSE m
Mirror(m, c) == <<m.size[1] - c[1] - 1, c[2]>>

(* Things that are not in the map any more are erased one by one.          *)
Outside(t, size) == t.at[1] >= size[1] \/ t.at[2] >= size[2]
Within(s, size) ==
    LET rest[i \in 0 .. Len(s)] ==
          IF i = 0 THEN s
          ELSE IF Outside(s[i], size) THEN EraseThing(rest[i - 1], s[i].at) ELSE rest[i - 1]
    IN  rest[Len(s)]
Resized(m, size) ==
    [m EXCEPT !.size = size,
              !.layer = [l \in Layers |-> [c \in Cells(size[1], size[2]) |->
                            IF InMap(m, c) THEN m.layer[l][c] ELSE Nothing]],
              !.things = [k \in Kinds |-> Within(m.things[k], size)]]

-----------------------------------------------------------------------------
(* Files.  save() removes the rows and things that were saved before and   *)
(* writes those of the map into the entries; the file is the entries.      *)

MapRows(m) == [r \in Layers \X (0 .. m.size[2] - 1) |->
               [x \in 0 .. m.size[1] - 1 |-> m.layer[r[1]][<<x, r[2]>>]]]
(* Mutant: what was saved before is not removed.                           *)
KeptAsSaved(e) == e
Dropped(e) ==
    [e EXCEPT !.rows = Restrict(@, {r \in DOMAIN @ : r[2] >= e.size[2]}),
              !.listed = [k \in Kinds |-> Restrict(@[k], {i \in DOMAIN @[k] : i > e.count[k]})]]
Entries(e, m) ==
    LET old == Dropped(e)
    IN  [size |-> m.size, name |-> m.name, tileset |-> m.tileset,
         rows |-> [r \in DOMAIN MapRows(m) \cup DOMAIN old.rows |->
                      IF r \in DOMAIN MapRows(m) THEN MapRows(m)[r] ELSE old.rows[r]],
         count |-> [k \in Kinds |-> Len(m.things[k])],
         listed |-> [k \in Kinds |-> [i \in DOMAIN m.things[k] \cup DOMAIN old.listed[k] |->
                      IF i \in DOMAIN m.things[k] THEN m.things[k][i] ELSE old.listed[k][i]]]]
(* A map has the objects that are in the resources; the others are skipped *)
(* with a warning.  A tileset that is not there leaves it without one.     *)
Known(k, s) == Only(s, {i \in DOMAIN s : k = "object" => s[i].look \notin Unknown})
Loaded(e) ==
    [name |-> e.name, size |-> e.size, tileset |-> e.tileset,
     layer |-> [l \in Layers |-> [c \in Cells(e.size[1], e.size[2]) |-> e.rows[<<l, c[2]>>][c[1]]]],
     things |-> [k \in Kinds |-> Known(k, [i \in 1 .. e.count[k] |-> e.listed[k][i]])]]

With(f, n, v) == [x \in DOMAIN f \cup {n} |-> IF x = n THEN v ELSE f[x]]

(* The files there are at the start were saved by this editor, but perhaps *)
(* with other resources.                                                   *)
Apart(s) == \A i, j \in DOMAIN s : s[i].at = s[j].at => i = j
MapFile(e) ==
    /\ e = [size |-> e.size, name |-> e.name, tileset |-> e.tileset, rows |-> e.rows,
            count |-> e.count, listed |-> e.listed]
    /\ e.size \in MapSizes /\ e.name \in MapNames /\ e.tileset \in BOOLEAN
    /\ e.rows \in [Layers \X (0 .. e.size[2] - 1) -> [0 .. e.size[1] - 1 -> Int]]
    /\ e.count = [k \in Kinds |-> Len(e.listed[k])]
    /\ e.listed \in [Kinds -> Seq([at : Int \X Int, look : Looks \cup Unknown])]
    /\ \A k \in Kinds : Apart(e.listed[k])
    /\ \A k \in Kinds \ {"object"} : \A i \in DOMAIN e.listed[k] : e.listed[k][i].look \in Looks

ASSUME FoundAssumption ==
    \A fs \in Found : \A n \in DOMAIN fs : MapFile(fs[n]) /\ fs[n].name = n

-----------------------------------------------------------------------------
(* The editor takes input of its own and clicks on its toolbox only while  *)
(* no other window is open (get_stack_count() == 1).                       *)

OnCanvas == shown = "none" /\ ~crashed
Editable == OnCanvas /\ wmap.tileset

(* Bounds: what is counted, and that more than n of it may follow.         *)
Counts == edits < MaxEdits /\ edits' = edits + 1
ToCome(n) == edits + n < MaxEdits
Edited(m) == wmap' = m /\ Counts
Touched(m) == Edited(m) /\ modified' = TRUE /\ UNCHANGED kv
OnMap == Cells(wmap.size[1], wmap.size[2])

(* hand_draw: with a button down, over a cell of the map.                  *)
PlaceTile(l, c, erasing, mirrored) ==
    LET t == IF erasing THEN Nothing ELSE pages.selected
        m == SetTile(wmap, l, c, t)
    IN  /\ Editable /\ ~selecting
        /\ Touched(IF mirrored THEN SetTile(m, l, Mirror(wmap, c), t) ELSE m)
        /\ UNCHANGED <<diskVars, selVars, guiVars, compile, crashed>>

PlaceThing(k, c, look, erasing, mirrored) ==
    LET Draw(s, d) == IF erasing THEN EraseThing(s, d) ELSE SetThing(s, d, SetLook(k, look))
        s == Draw(wmap.things[k], c)
        all == IF mirrored THEN Draw(s, Mirror(wmap, c)) ELSE s
    IN  /\ Editable /\ ~selecting
        /\ Edited([wmap EXCEPT !.things[k] = all])
        /\ modified' = (modified \/ all # wmap.things[k])
        /\ UNCHANGED <<kv, diskVars, selVars, guiVars, compile, crashed>>

HandDraw ==
    \E c \in OnMap, erasing, mirrored \in BOOLEAN :
        \/ \E l \in Layers : PlaceTile(l, c, erasing, mirrored)
        \/ \E k \in Kinds, look \in Looks : PlaceThing(k, c, look, erasing, mirrored)

(* The properties of a light, and the button "ok".                         *)
LightEdited(c, look) ==
    /\ ~selecting /\ "light" \in Kinds /\ Holding(wmap.things["light"], c) # {}
    /\ Touched([wmap EXCEPT !.things["light"] = PutLook(@, c, look)])
    /\ UNCHANGED <<diskVars, selVars, guiVars, compile, crashed>>
(* Mutant: also while the light map is computed.                           *)
EditLightAnyTime(c, look) == shown \in {"none", "compile"} /\ ~crashed /\ LightEdited(c, look)
EditLight(c, look) == Editable /\ LightEdited(c, look)

(* Shift begins a selection, unless its release has been missed because a  *)
(* window was open; the second click copies what lies between.             *)
ShiftDown ==
    /\ OnCanvas /\ ~selecting /\ ToCome(1)
    /\ selecting' = TRUE /\ point' = NoPoint
    /\ UNCHANGED <<mapVars, diskVars, copied, guiVars, compile, edits, crashed>>

ShiftUp ==
    /\ OnCanvas /\ selecting
    /\ selecting' = FALSE /\ point' = NoPoint    \* the code forgets it at the next shift
    /\ UNCHANGED <<mapVars, diskVars, copied, guiVars, compile, edits, crashed>>

Less(i, j) == IF i < j THEN i ELSE j
Between(c, d) ==
    [from |-> <<Less(c[1], d[1]), Less(c[2], d[2])>>,
     size |-> <<c[1] + d[1] - 2 * Less(c[1], d[1]) + 1, c[2] + d[2] - 2 * Less(c[2], d[2]) + 1>>]
Shift(c, d) == <<c[1] + d[1], c[2] + d[2]>>
CopyOf(r) ==
    LET area == Cells(r.size[1], r.size[2])
        From(c) == Shift(c, r.from)
        Here(k) == {c \in area : Holding(wmap.things[k], From(c)) # {}}
    IN  [size |-> r.size,
         layer |-> [l \in Layers |-> [c \in area |-> wmap.layer[l][From(c)]]],
         things |-> [k \in Kinds |-> [c \in Here(k) |->
                       wmap.things[k][FirstAt(wmap.things[k], From(c))].look]]]

SelectPoint(c) ==
    /\ OnCanvas /\ selecting /\ wmap.tileset /\ ToCome(1)
    /\ IF point = NoPoint THEN point' = c /\ UNCHANGED <<copied, crashed>>
       ELSE /\ point' = NoPoint
            /\ IF InMap(wmap, point)
               THEN copied' = CopyOf(Between(point, c)) /\ UNCHANGED crashed
               ELSE crashed' = TRUE /\ UNCHANGED copied
    /\ UNCHANGED <<mapVars, diskVars, selecting, guiVars, compile, edits>>

(* Control pastes at the mouse: tiles within the map, things anywhere.     *)
PasteTiles(l, c) ==
    LET d == copied.layer[l]
        Source(x) == <<x[1] - c[1], x[2] - c[2]>>
    IN  /\ Editable
        /\ Touched([wmap EXCEPT !.layer[l] = [x \in DOMAIN @ |->
              IF Source(x) \in DOMAIN d /\ d[Source(x)] > Nothing THEN d[Source(x)] ELSE @[x]]])
        /\ UNCHANGED <<diskVars, selVars, guiVars, compile, crashed>>

(* The things of a copy, row by row of its cells.                          *)
CellNo(n, width) == <<(n - 1) % width, (n - 1) \div width>>
Put(s, c, look) == PutLook(SetThing(EraseThing(s, c), c, look), c, look)
Pasted(s, looks, size, c) ==
    LET cells == size[1] * size[2]
        all[n \in 0 .. cells] ==
          IF n = 0 THEN s
          ELSE IF CellNo(n, size[1]) \notin DOMAIN looks THEN all[n - 1]
          ELSE Put(all[n - 1], Shift(CellNo(n, size[1]), c), looks[CellNo(n, size[1])])
    IN  all[cells]
PasteThings(k, c) ==
    /\ Editable
    /\ Edited([wmap EXCEPT !.things[k] = Pasted(@, copied.things[k], copied.size, c)])
    /\ modified' = (modified \/ DOMAIN copied.things[k] # {})
    /\ UNCHANGED <<kv, diskVars, selVars, guiVars, compile, crashed>>

InsertSelection ==
    \E c \in PasteAt : (\E l \in Layers : PasteTiles(l, c)) \/ (\E k \in Kinds : PasteThings(k, c))

(* The toolbox: the left half is copied to the right, mirrored.            *)
HCopy ==
    /\ Editable
    /\ Touched([wmap EXCEPT !.layer = [l \in Layers |-> [c \in DOMAIN @[l] |->
                  IF 2 * c[1] >= wmap.size[1] THEN @[l][Mirror(wmap, c)] ELSE @[l][c]]]])
    /\ UNCHANGED <<diskVars, selVars, guiVars, compile, crashed>>

(* The map's properties, and the button "ok".                              *)
MapProperties(n, size) ==
    /\ OnCanvas
    /\ Touched([Resized(wmap, size) EXCEPT !.name = n, !.tileset = TRUE])
    /\ pages' = [pages EXCEPT !.page = 0]
    /\ UNCHANGED <<diskVars, selVars, shown, compile, crashed>>

(* The player has answered that unsaved changes may go.                    *)
NewMap(m, e) == wmap' = m /\ modified' = FALSE /\ kv' = e /\ pages' = [pages EXCEPT !.page = 0]
LoadMap(n) ==
    /\ OnCanvas /\ n \in DOMAIN files /\ files[n] # Cut
    /\ NewMap(Loaded(files[n]), files[n])
    /\ UNCHANGED <<diskVars, selVars, shown, compile, edits, crashed>>
Zap ==
    /\ OnCanvas /\ NewMap(Fresh, NoEntries)
    /\ UNCHANGED <<diskVars, selVars, shown, compile, edits, crashed>>

(* The entries change even if the file cannot be opened.  Once it is open  *)
(* it is empty, and whether the entries can be written is not asked: a     *)
(* full disk leaves a part of the file, and a map that counts as saved.    *)
SaveMap(opened, written) ==
    /\ OnCanvas /\ wmap.name # NoName /\ Counts
    /\ kv' = Entries(kv, wmap)
    /\ files' = IF opened THEN With(files, wmap.name, IF written THEN kv' ELSE Cut) ELSE files
    /\ modified' = ~opened
    /\ UNCHANGED <<wmap, lmps, selVars, guiVars, compile, crashed>>

-----------------------------------------------------------------------------
(* The tile selector keeps its page, but shows it only after it has been   *)
(* turned over to from the first.                                          *)

OnPage(start) == {t \in 0 .. TileCount - 1 : t >= start /\ t < start + ButtonsOnPage}
(* Mutant: the picture of the page before is kept.                         *)
AddButtonsOnly(p, start) ==
    [p EXCEPT !.start = start, !.picture = IF p.selected \in OnPage(start) THEN p.selected ELSE @]
AddButtons(p, start) ==
    [p EXCEPT !.start = start,
              !.picture = IF p.selected \in OnPage(start) THEN p.selected ELSE Nothing]
TurnNext(p) ==
    IF p.start + ButtonsOnPage < TileCount
    THEN [AddButtons(p, p.start + ButtonsOnPage) EXCEPT !.page = @ + 1] ELSE p

Reopened(p) ==
    LET first == [AddButtons(p, 0) EXCEPT !.page = 0]
        turn[n \in 0 .. p.page] == IF n = 0 THEN first ELSE TurnNext(turn[n - 1])
    IN  turn[p.page]
Shows(p) == pages' = p /\ UNCHANGED <<mapVars, diskVars, selVars, compile, edits, crashed>>

TileSelector == OnCanvas /\ wmap.tileset /\ ToCome(2) /\ shown' = "tiles" /\ Shows(Reopened(pages))
InTiles == shown = "tiles" /\ ~crashed
TsNext == InTiles /\ UNCHANGED shown /\ Shows(TurnNext(pages))
TsPrevious ==
    LET start == IF pages.start > ButtonsOnPage THEN pages.start - ButtonsOnPage ELSE 0
    IN  /\ InTiles /\ UNCHANGED shown
        /\ Shows([AddButtons(pages, start) EXCEPT !.page = IF @ > 0 THEN @ - 1 ELSE 0])
TsTile(t) ==
    /\ InTiles /\ t \in OnPage(pages.start) /\ UNCHANGED shown
    /\ Shows([pages EXCEPT !.selected = t, !.picture = t])
(* ts_start_index is set anew when the window is opened again.             *)
TsClose == InTiles /\ shown' = "none" /\ Shows([pages EXCEPT !.picture = Nothing, !.start = 0])

-----------------------------------------------------------------------------
(* The light map: a thread reads the map, light after light, while its     *)
(* window is open; what it has computed is written when it has finished.   *)

Lights(m) == IF "light" \in Kinds THEN m.things["light"] ELSE << >>
Ground(m) == IF "decoration" \in Layers THEN m.layer["decoration"] ELSE << >>
Solid(m) == IF "map" \in Layers THEN m.layer["map"] ELSE << >>
Ray(m, i) == [light |-> Lights(m)[i], solid |-> Solid(m)]
LightMap(m) == <<Ground(m), [i \in DOMAIN Lights(m) |-> Ray(m, i)]>>

CalculateLight ==
    /\ OnCanvas /\ wmap.tileset /\ wmap.name # NoName /\ Lights(wmap) # << >> /\ Counts
    /\ compile' = [state |-> "running", next |-> 1, light |-> <<Ground(wmap), << >> >>,
                   lights |-> Len(Lights(wmap))]
    /\ shown' = "compile"
    /\ UNCHANGED <<mapVars, diskVars, selVars, pages, crashed>>

Compiling == compile.state \in {"running", "cancelled"} /\ ~crashed
(* One light, or the end after the last one or when it was cancelled.      *)
CompileThread ==
    /\ Compiling
    /\ compile' =
          IF compile.state = "cancelled" \/ compile.next > compile.lights
          THEN [compile EXCEPT !.state = IF @ = "cancelled" THEN "thrown" ELSE "finished"]
          ELSE [compile EXCEPT !.next = @ + 1, !.light[2] = Append(@, Ray(wmap, compile.next))]
    /\ UNCHANGED <<mapVars, diskVars, selVars, guiVars, edits, crashed>>

(* The window whose light map could not be written has no thread any more. *)
CancelCompilation ==
    /\ shown = "compile" /\ ~crashed
    /\ crashed' = (compile = NoThread)
    /\ compile' = IF compile = NoThread THEN compile
                  ELSE [compile EXCEPT !.state = CASE @ = "running" -> "cancelled"
                                                   [] @ = "finished" -> "thrown"
                                                   [] OTHER -> @]
    /\ UNCHANGED <<mapVars, diskVars, selVars, guiVars, edits>>

FinaliseLightmap(writable) ==
    /\ compile.state \in {"finished", "thrown"} /\ ~crashed
    /\ writable \/ compile.state = "finished"
    /\ lmps' = IF compile.state = "finished" /\ writable THEN With(lmps, wmap.name, compile.light) ELSE lmps
    /\ shown' = IF writable THEN "none" ELSE shown
    /\ compile' = NoThread
    /\ UNCHANGED <<mapVars, files, selVars, pages, edits, crashed>>

(* The program is told to end: ~MapEditor deletes the map, but neither     *)
(* ends nor waits for the thread.                                          *)
QuitEditor ==
    /\ compile.state \in {"running", "cancelled"} /\ ~crashed /\ crashed' = TRUE
    /\ UNCHANGED <<mapVars, diskVars, selVars, guiVars, compile, edits>>

EditorNext ==
    \/ HandDraw \/ InsertSelection \/ HCopy \/ ShiftDown \/ ShiftUp
    \/ \E c \in OnMap : SelectPoint(c)
    \/ \E c \in OnMap, look \in Looks : EditLight(c, look)
    \/ \E n \in MapNames : LoadMap(n)
    \/ \E n \in MapNames, size \in MapSizes : MapProperties(n, size)
    \/ \E opened, written \in BOOLEAN : SaveMap(opened, written)
    \/ Zap
    \/ TileSelector \/ TsNext \/ TsPrevious \/ TsClose
    \/ \E t \in 0 .. TileCount - 1 : TsTile(t)
    \/ CalculateLight \/ CompileThread \/ CancelCompilation
    \/ \E writable \in BOOLEAN : FinaliseLightmap(writable)
    \/ QuitEditor

EditorSpec == EditorInit /\ [][EditorNext]_editor

-----------------------------------------------------------------------------
SavedWhole(e, m) ==
    /\ e.size = m.size /\ e.name = m.name /\ e.tileset = m.tileset /\ e.rows = MapRows(m)
    /\ \A k \in Kinds : DOMAIN e.listed[k] = 1 .. e.count[k] /\ m.things[k] = Known(k, e.listed[k])

(* A map that counts as saved (KeyValue::modified) is on the disk, whole   *)
(* and with nothing of an earlier size or list left over, whatever was     *)
(* resized, renamed, erased or loaded in between and whatever save could   *)
(* not open its file.  Two exceptions the code makes: a write that fails   *)
(* after the file was opened is taken for a save, and leaves the file cut; *)
(* and objects that are not in the resources are on the disk only, until   *)
(* the next save drops them there too.                                     *)
CleanIsSaved ==
    ~modified /\ wmap # Fresh =>
        /\ wmap.name \in DOMAIN files
        /\ \/ files[wmap.name] = Cut
           \/ SavedWhole(files[wmap.name], wmap) /\ kv = files[wmap.name]

(* No cell has two objects or two lights: the second could neither be      *)
(* edited nor told from the first.                                         *)
ThingsApart == \A k \in Kinds : Apart(wmap.things[k])

(* The marked picture is one of the page that is shown, and none when the  *)
(* window has gone with its buttons (add_buttons, ts_close_click).         *)
PictureLive ==
    pages.picture # Nothing => shown = "tiles" /\ pages.picture \in OnPage(pages.start)

EditorSound == CleanIsSaved /\ ThingsApart /\ PictureLive

(* A light map that is written is that of the map as it is, although it    *)
(* was read from the map light by light while the program went on.         *)
LightmapTrue == [][lmps' # lmps => lmps' = With(lmps, wmap.name, LightMap(wmap))]_editor
=============================================================================
