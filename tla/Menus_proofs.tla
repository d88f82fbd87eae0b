----------------------------- MODULE Menus_proofs -----------------------------
(***************************************************************************)
(* The menus.  First the windows of a running game, for any number of      *)
(* them: the pointers of Gui stay at objects that exist, and as long as no *)
(* window surprises the player the menus know which windows are open and   *)
(* every question returns with its own answer, unless another one was      *)
(* asked between this answer and the return.  Then the                     *)
(* list of servers, for any servers, ping times and clicks: it is in the   *)
(* order and has the selection that the player made, and what a click on   *)
(* "connect" reads has not been deleted.                                   *)
(***************************************************************************)
EXTENDS Desk, Browser, Sequence_lemmas

Kinds == {"options", "settings", "box", "team", "message"}
ObjectNames == {"", "frame", "player", "close", "ask", "ok", "answer", "red"}
Object == [id : Nat, gen : {0, 1}, name : ObjectNames]
Window == [id : Nat, gen : {0, 1}, kind : Kinds, focus : Object]
Loop == [counter : Nat, box : Nat, outrun : BOOLEAN]

(* An object of an open window, and of its present content unless the      *)
(* window is that of the options.                                          *)
Live(o) ==
    \E k \in 1 .. Len(windows) :
       /\ windows[k].id = o.id /\ o.name \in Parts(windows[k])
       /\ windows[k].kind # "options" => windows[k].gen = o.gen

(* Windows are stacked in the order they were opened; the identity of a    *)
(* window is never used again, and its focus is one of its own objects.    *)
WindowsOK ==
    /\ windows \in Seq(Window) /\ opened \in Nat /\ opened <= MaxOpened
    /\ \A k \in 1 .. Len(windows) : windows[k].id \in 1 .. opened
    /\ \A j, k \in 1 .. Len(windows) : j < k => windows[j].id < windows[k].id
    /\ \A k \in 1 .. Len(windows) : windows[k].focus # NoObject =>
          windows[k].focus.id = windows[k].id /\ windows[k].focus.gen = windows[k].gen

OptionsOK ==
    /\ options \in 0 .. opened
    /\ \A k \in 1 .. Len(windows) : windows[k].id = options => windows[k].kind = "options"

(* The nested loops are stacked in the order of their boxes.               *)
LoopsOK ==
    /\ idling \in Seq(Loop) /\ response \in 0 .. opened
    /\ \A k \in 1 .. Len(idling) : idling[k].box \in 1 .. opened
    /\ \A j, k \in 1 .. Len(idling) : j < k => idling[j].box < idling[k].box

PointersOK ==
    /\ active \in Object /\ tip \in Object
    /\ active # NoObject => Live(active)
    /\ tip # NoObject => Live(tip)

FlagsOK ==
    /\ pressed \subseteq {"left", "right"}
    /\ down \in BOOLEAN /\ inside \in BOOLEAN /\ tipShown \in BOOLEAN /\ guiRunning \in BOOLEAN
    /\ choosing \in BOOLEAN /\ surprised \in BOOLEAN /\ broken \in BOOLEAN

DeskBase == WindowsOK /\ OptionsOK /\ LoopsOK /\ PointersOK /\ FlagsOK

(* Without surprises: the options window is at the bottom, the settings    *)
(* lie on it and a question on those; the window to choose a team is on    *)
(* top of all.  OptionsMenu and the tournament know of theirs.             *)
Layout ==
    /\ \A k \in 1 .. Len(windows) :
          /\ windows[k].kind = "options" => k = 1 /\ windows[k].id = options
          /\ windows[k].kind = "settings" => k = 2 /\ windows[1].kind = "options"
          /\ windows[k].kind = "box" => k = 3 /\ windows[2].kind = "settings"
          /\ windows[k].kind = "team" => k = Len(windows) /\ choosing
    /\ options # 0 => IsOpen /\ windows[1].id = options
    /\ choosing => IsOpen /\ DeskTop.kind = "team"

(* A button that is held is one of the window on top, or that of a         *)
(* question that was asked with the left button.                           *)
Holding ==
    active # NoObject =>
       active.id = DeskTop.id \/ (active.name = "ask" /\ "left" \notin pressed)

(* What the question of a loop is to return.                               *)
Answered(loop) == IF loop.outrun THEN response > loop.box ELSE response = loop.box

(* All questions but the last are outrun.  The last one's window is open,  *)
(* or it was answered; no other window is a question's.                    *)
Asking ==
    /\ \A k \in 1 .. Len(idling) : k < Len(idling) => idling[k].outrun
    /\ idling # << >> /\ ~Answered(Last(idling)) =>
          \E k \in 1 .. Len(windows) : windows[k].kind = "box"
    /\ \A k \in 1 .. Len(windows) : windows[k].kind = "box" =>
          /\ idling # << >> /\ windows[k].id = Last(idling).box
          /\ k > Last(idling).counter /\ ~Last(idling).outrun

Calm ==
    /\ active # NoObject => down
    /\ ~surprised => Layout /\ Holding /\ (guiRunning => Asking)

DeskSound == DeskBase /\ Calm

-----------------------------------------------------------------------------
(* Stacks.  *)
LEMMA Pushed ==
    ASSUME NEW S, NEW s \in Seq(S), NEW e \in S, NEW t, t = Append(s, e)
    PROVE  /\ t \in Seq(S) /\ Len(t) = Len(s) + 1 /\ t[Len(t)] = e
           /\ \A k \in 1 .. Len(s) : t[k] = s[k]
           /\ \A k \in 1 .. Len(t) : k \in 1 .. Len(s) \/ k = Len(t)
BY AppendProperties, LenProperties

LEMMA Popped ==
    ASSUME NEW S, NEW s \in Seq(S), s # << >>, NEW t, t = Front(s)
    PROVE  /\ t \in Seq(S) /\ Len(t) = Len(s) - 1 /\ Len(s) \in Nat \ {0}
           /\ \A k \in 1 .. Len(t) : t[k] = s[k]
           /\ \A k \in 1 .. Len(s) : k \in 1 .. Len(t) \/ k = Len(s)
<1>1. Len(s) \in Nat \ {0}
  BY EmptySeq, LenProperties
<1>2. t = SubSeq(s, 1, Len(s) - 1)
  BY DEF Front
<1>3. \A k \in 1 .. Len(s) - 1 : s[k] \in S
  BY <1>1, ElementOfSeq
<1>4. /\ t \in Seq(S) /\ Len(t) = Len(s) - 1
      /\ \A k \in 1 .. Len(s) - 1 : t[k] = s[k]
  <2> DEFINE n == Len(s) - 1
  <2>1. n \in Int /\ \A k \in 1 .. n : s[k] \in S
    BY <1>1, <1>3
  <2> HIDE DEF n
  <2>2. /\ SubSeq(s, 1, n) \in Seq(S)
        /\ Len(SubSeq(s, 1, n)) = IF 1 <= n THEN n - 1 + 1 ELSE 0
        /\ \A k \in 1 .. n - 1 + 1 : SubSeq(s, 1, n)[k] = s[1 + k - 1]
    BY <2>1, SubSeqProperties
  <2>3. t = SubSeq(s, 1, n) /\ n \in Nat
    BY <1>1, <1>2 DEF n
  <2>4. t \in Seq(S) /\ Len(t) = IF 1 <= n THEN n - 1 + 1 ELSE 0
    BY <2>2, <2>3, Zenon
  <2>5. \A k \in 1 .. n - 1 + 1 : t[k] = s[1 + k - 1]
    BY <2>2, <2>3, Zenon
  <2>6. \A k \in 1 .. n : t[k] = s[k]
    BY <2>3, <2>5
  <2>7. Len(t) = n
    BY <2>3, <2>4
  <2> QED
    BY <2>4, <2>6, <2>7, Zenon DEF n
<1> QED
  BY <1>1, <1>4

LEMMA TopIs ==
    ASSUME WindowsOK, IsOpen
    PROVE  /\ DeskTop = windows[Len(windows)] /\ DeskTop \in Window
           /\ Len(windows) \in Nat \ {0} /\ Len(windows) \in 1 .. Len(windows)
<1>1. Len(windows) \in Nat \ {0}
  BY EmptySeq, LenProperties DEF WindowsOK, IsOpen
<1> QED
  BY <1>1, ElementOfSeq DEF WindowsOK, DeskTop, Last

(* What is pushed: a window with a new identity.  *)
NewWindow(sort) == [id |-> opened + 1, gen |-> 0, kind |-> sort, focus |-> NoObject]

LEMMA PushIs ==
    ASSUME WindowsOK, NEW sort \in Kinds, PushWindow(sort)
    PROVE  /\ opened' = opened + 1 /\ opened' <= MaxOpened
           /\ windows' \in Seq(Window) /\ Len(windows') = Len(windows) + 1
           /\ Len(windows) \in Nat
           /\ windows'[Len(windows')] = NewWindow(sort)
           /\ \A k \in 1 .. Len(windows) : windows'[k] = windows[k]
           /\ \A k \in 1 .. Len(windows') : k \in 1 .. Len(windows) \/ k = Len(windows')
           /\ tip' = NoObject /\ tipShown' = FALSE
<1>1. NoObject \in Object
  BY DEF NoObject, Object, ObjectNames
<1>2. NewWindow(sort) \in Window
  BY <1>1 DEF NewWindow, Window, WindowsOK
<1>3. windows' = Append(windows, NewWindow(sort)) /\ opened' = opened + 1 /\ opened' <= MaxOpened
  BY DeskAssumption DEF PushWindow, NewWindow, WindowsOK
<1>4. windows \in Seq(Window)
  BY DEF WindowsOK
<1> HIDE DEF NewWindow
<1> QED
  BY <1>2, <1>3, <1>4, Pushed, LenProperties DEF PushWindow, Tipless

LEMMA PopIs ==
    ASSUME WindowsOK, IsOpen, NEW now, PopWindow(now)
    PROVE  /\ windows' \in Seq(Window) /\ Len(windows') = Len(windows) - 1
           /\ Len(windows) \in Nat \ {0}
           /\ \A k \in 1 .. Len(windows') : windows'[k] = windows[k]
           /\ \A k \in 1 .. Len(windows) : k \in 1 .. Len(windows') \/ k = Len(windows)
           /\ active' = NoObject /\ tip' = NoObject /\ tipShown' = FALSE
<1>1. windows' = Front(windows) /\ windows \in Seq(Window) /\ windows # << >>
  BY DEF PopWindow, IsOpen, WindowsOK
<1> QED
  BY <1>1, Popped DEF PopWindow, Tipless

(* The ways a click on an object goes.  *)
LEMMA ClickedIs ==
    ASSUME NEW o, Clicked(o)
    PROVE  \/ o.name = "player" /\ Opens("settings") /\ active' = NoObject
           \/ o.name = "close" /\ CloseOptions(NoObject)
           \/ o.name = "ask" /\ ShowBox /\ UNCHANGED active
           \/ o.name = "ok" /\ Closes(NoObject) /\ UNCHANGED <<options, choosing, response>>
           \/ o.name = "answer" /\ AnswerBox(o, NoObject)
           \/ o.name = "red" /\ ChooseTeam(NoObject)
           \/ /\ active' = NoObject
              /\ UNCHANGED <<windows, opened, tip, tipShown, options, choosing, idling, response>>
BY DEF Clicked

-----------------------------------------------------------------------------
(* Windows pushed and popped, and what that leaves of the rest.  *)
LEMMA NoObjectIs ==
    NoObject \in Object /\ NoObject.id = 0 /\ NoObject.gen = 0 /\ NoObject.name = ""
BY DEF NoObject, Object, ObjectNames

LEMMA PushKeeps ==
    ASSUME DeskBase, NEW sort \in Kinds, PushWindow(sort)
    PROVE  /\ WindowsOK' /\ \A o : Live(o) => Live(o)'
           /\ options' = options => OptionsOK'
           /\ options' = opened' /\ sort = "options" => OptionsOK'
           /\ UNCHANGED <<idling, response>> => LoopsOK'
           /\ active' = active \/ active' = NoObject => PointersOK'
<1> DEFINE n == Len(windows)
<1>1. /\ opened' = opened + 1 /\ opened' <= MaxOpened
      /\ windows' \in Seq(Window) /\ Len(windows') = n + 1 /\ n \in Nat
      /\ windows'[n + 1] = NewWindow(sort)
      /\ \A k \in 1 .. n : windows'[k] = windows[k]
      /\ \A k \in 1 .. n + 1 : k \in 1 .. n \/ k = n + 1
      /\ tip' = NoObject
  BY PushIs DEF DeskBase
<1>2. NewWindow(sort).id = opened + 1 /\ NewWindow(sort).kind = sort
      /\ NewWindow(sort).focus = NoObject
  BY DEF NewWindow
<1> HIDE DEF n
<1>3. opened \in Nat /\ options \in 0 .. opened /\ options \in 0 .. opened + 1
  BY DEF DeskBase, WindowsOK, OptionsOK
<1>4. WindowsOK'
  <2>1. \A k \in 1 .. n + 1 : windows'[k].id \in 1 .. opened + 1
    BY <1>1, <1>2, <1>3 DEF DeskBase, WindowsOK, n
  <2>2. \A j, k \in 1 .. n + 1 : j < k => windows'[j].id < windows'[k].id
    <3> SUFFICES ASSUME NEW j \in 1 .. n + 1, NEW k \in 1 .. n + 1, j < k
                 PROVE  windows'[j].id < windows'[k].id
      OBVIOUS
    <3>1. j \in 1 .. n
      BY <1>1
    <3>2. windows'[j] = windows[j] /\ windows[j].id \in 1 .. opened
      BY <1>1, <3>1 DEF DeskBase, WindowsOK, n
    <3>3. CASE k = n + 1
      BY <1>1, <1>2, <1>3, <3>2, <3>3
    <3>4. CASE k \in 1 .. n
      BY <1>1, <3>1, <3>4 DEF DeskBase, WindowsOK, n
    <3> QED
      BY <1>1, <3>3, <3>4
  <2>3. \A k \in 1 .. n + 1 : windows'[k].focus # NoObject =>
          windows'[k].focus.id = windows'[k].id /\ windows'[k].focus.gen = windows'[k].gen
    BY <1>1, <1>2 DEF DeskBase, WindowsOK, n
  <2> QED
    BY <1>1, <1>3, <2>1, <2>2, <2>3 DEF WindowsOK
<1>5. \A o : Live(o) => Live(o)'
  BY <1>1 DEF Live, n
<1>6. ASSUME options' = options PROVE OptionsOK'
  BY <1>1, <1>2, <1>3, <1>6 DEF DeskBase, OptionsOK, n
<1>7. ASSUME options' = opened', sort = "options" PROVE OptionsOK'
  <2>1. \A k \in 1 .. n : windows[k].id # opened + 1
    BY <1>3 DEF DeskBase, WindowsOK, n
  <2> QED
    BY <1>1, <1>2, <1>3, <1>7, <2>1 DEF OptionsOK
<1>8. ASSUME UNCHANGED <<idling, response>> PROVE LoopsOK'
  BY <1>1, <1>3, <1>8 DEF DeskBase, LoopsOK
<1>9. ASSUME active' = active \/ active' = NoObject PROVE PointersOK'
  BY <1>1, <1>5, <1>9, NoObjectIs DEF DeskBase, PointersOK
<1> QED
  BY <1>4, <1>5, <1>6, <1>7, <1>8, <1>9

LEMMA PopKeeps ==
    ASSUME DeskBase, IsOpen, NEW now, PopWindow(now), opened' = opened
    PROVE  /\ WindowsOK' /\ PointersOK'
           /\ options' \in {options, 0} => OptionsOK'
<1>1. /\ windows' \in Seq(Window) /\ Len(windows') = Len(windows) - 1
      /\ Len(windows) \in Nat \ {0}
      /\ \A k \in 1 .. Len(windows') : windows'[k] = windows[k]
      /\ active' = NoObject /\ tip' = NoObject
  BY PopIs DEF DeskBase
<1>2. \A k \in 1 .. Len(windows') : k \in 1 .. Len(windows)
  BY <1>1
<1>3. WindowsOK'
  BY <1>1, <1>2 DEF DeskBase, WindowsOK
<1>4. PointersOK'
  BY <1>1, NoObjectIs DEF PointersOK
<1>5. ASSUME options' \in {options, 0} PROVE OptionsOK'
  BY <1>1, <1>2, <1>5 DEF DeskBase, WindowsOK, OptionsOK
<1> QED
  BY <1>3, <1>4, <1>5

LEMMA LoopsKeep ==
    ASSUME DeskBase, opened' = opened, idling' = idling, response' \in 0 .. opened
    PROVE  LoopsOK'
BY DEF DeskBase, LoopsOK

(* What lies under the pointer.  *)
Under(name) == IF IsOpen THEN ObjectOf(DeskTop, name) ELSE NoObject

LEMMA ContentsAre ==
    /\ Contents["options"] = {"player", "close"} /\ Contents["settings"] = {"ask", "ok"}
    /\ Contents["box"] = {"answer"} /\ Contents["team"] = {"red"} /\ Contents["message"] = {"ok"}
BY DEF Contents

LEMMA UnderIs ==
    ASSUME DeskBase, NEW name \in Spots
    PROVE  /\ Under(name) \in Object
           /\ Under(name) # NoObject =>
                /\ IsOpen /\ Under(name).id = DeskTop.id /\ Under(name).gen = DeskTop.gen
                /\ Under(name).name = name /\ name \in Parts(DeskTop)
                /\ Live(Under(name))
<1>1. CASE ~IsOpen \/ name = ""
  BY <1>1, NoObjectIs DEF Under, ObjectOf
<1>2. CASE IsOpen /\ name # ""
  <2>1. /\ DeskTop = windows[Len(windows)] /\ DeskTop \in Window
        /\ Len(windows) \in 1 .. Len(windows)
    BY <1>2, TopIs DEF DeskBase
  <2>2. name \in Parts(DeskTop)
    BY <1>2 DEF Spots
  <2>3. name \in ObjectNames
    <3>1. DeskTop.kind \in Kinds
      BY <2>1 DEF Window
    <3>2. name \in Contents[DeskTop.kind] \cup {"frame"}
      BY <2>2 DEF Parts
    <3> QED
      BY <3>1, <3>2, ContentsAre DEF ObjectNames, Kinds
  <2>4. Under(name) = [id |-> DeskTop.id, gen |-> DeskTop.gen, name |-> name]
    BY <1>2 DEF Under, ObjectOf
  <2>5. Under(name) \in Object
    BY <2>1, <2>3, <2>4 DEF Window, Object
  <2>6. Live(Under(name))
    BY <2>1, <2>2, <2>4 DEF Live
  <2>7. /\ Under(name).id = DeskTop.id /\ Under(name).gen = DeskTop.gen
        /\ Under(name).name = name
    BY <2>4
  <2> QED
    BY <1>2, <2>2, <2>5, <2>6, <2>7
<1> QED
  BY <1>1, <1>2

-----------------------------------------------------------------------------
(* Every step keeps the pointers at objects that exist.  *)
LEMMA PopBase ==
    ASSUME DeskBase, NEW now \in {NoObject, active}, PopWindow(now), opened' = opened,
           options' \in {options, 0}
    PROVE  WindowsOK' /\ PointersOK' /\ OptionsOK'
<1>1. CASE IsOpen
  BY <1>1, PopKeeps
<1>2. CASE ~IsOpen
  <2>1. UNCHANGED <<windows, tip>> /\ active' \in {NoObject, active}
    BY <1>2 DEF PopWindow
  <2>2. PointersOK'
    BY <2>1, NoObjectIs DEF DeskBase, PointersOK, Live
  <2> QED
    BY <2>1, <2>2 DEF DeskBase, WindowsOK, OptionsOK
<1> QED
  BY <1>1, <1>2

LEMMA CloseOptionsBase ==
    ASSUME DeskBase, NEW now \in {NoObject, active}, CloseOptions(now)
    PROVE  WindowsOK' /\ PointersOK' /\ OptionsOK' /\ LoopsOK' /\ UNCHANGED choosing
<1>1. CASE options # 0
  <2>1. PopWindow(now) /\ UNCHANGED <<opened, idling, response, choosing>> /\ options' = 0
    BY <1>1 DEF CloseOptions, Closes
  <2> QED
    BY <2>1, PopBase, LoopsKeep DEF DeskBase, LoopsOK
<1>2. CASE options = 0
  <2>1. /\ active' = now /\ options' = 0
        /\ UNCHANGED <<windows, opened, tip, idling, choosing, response>>
    BY <1>2 DEF CloseOptions
  <2>2. PointersOK'
    BY <2>1, NoObjectIs DEF DeskBase, PointersOK, Live
  <2> QED
    BY <1>2, <2>1, <2>2 DEF DeskBase, WindowsOK, OptionsOK, LoopsOK
<1> QED
  BY <1>1, <1>2

(* The loops when another question is asked.  *)
LEMMA OutrunIs ==
    ASSUME DeskBase
    PROVE  /\ Outrun \in Seq(Loop) /\ Len(Outrun) = Len(idling) /\ Len(idling) \in Nat
           /\ \A k \in 1 .. Len(idling) :
                 /\ Outrun[k].box = idling[k].box
                 /\ ~Asks(idling[k]) => Outrun[k].outrun
<1>1. idling \in Seq(Loop) /\ Len(idling) \in Nat /\ DOMAIN idling = 1 .. Len(idling)
  BY LenProperties DEF DeskBase, LoopsOK
<1> DEFINE e(k) == [idling[k] EXCEPT !.outrun = @ \/ ~Asks(idling[k])]
<1>2. \A k \in 1 .. Len(idling) :
         e(k) \in Loop /\ e(k).box = idling[k].box /\ (~Asks(idling[k]) => e(k).outrun)
  <2> TAKE k \in 1 .. Len(idling)
  <2>1. PICK a : a = Asks(idling[k])
    OBVIOUS
  <2>2. idling[k] \in Loop /\ a \in BOOLEAN
    BY <1>1, <2>1, ElementOfSeq DEF Asks
  <2>3. PICK b \in BOOLEAN : b = (idling[k].outrun \/ ~a)
    BY <2>2
  <2>4. e(k) = [idling[k] EXCEPT !.outrun = b]
    BY <2>1, <2>3, Zenon
  <2>5. [idling[k] EXCEPT !.outrun = b] \in Loop
        /\ [idling[k] EXCEPT !.outrun = b].box = idling[k].box
        /\ [idling[k] EXCEPT !.outrun = b].outrun = b
    BY <2>2 DEF Loop
  <2>6. ~Asks(idling[k]) => b
    BY <2>1, <2>3
  <2> QED
    BY <2>4, <2>5, <2>6, Zenon
<1>3. Outrun = [k \in 1 .. Len(idling) |-> e(k)]
  BY <1>1 DEF Outrun
<1> HIDE DEF e
<1> QED
  BY <1>1, <1>2, <1>3, SeqDef

LEMMA ShowBoxBase ==
    ASSUME DeskBase, ShowBox, UNCHANGED active
    PROVE  WindowsOK' /\ PointersOK' /\ OptionsOK' /\ LoopsOK' /\ UNCHANGED choosing
<1>1. PushWindow("box") /\ "box" \in Kinds /\ UNCHANGED <<options, choosing, response>>
  BY DEF ShowBox, Kinds
<1>2. WindowsOK' /\ PointersOK' /\ OptionsOK'
  BY <1>1, PushKeeps
<1>3. opened' = opened + 1 /\ opened \in Nat /\ Len(windows) \in Nat
  BY <1>1, PushIs DEF DeskBase, WindowsOK
<1>4. LoopsOK'
  <2> DEFINE e == [counter |-> Len(windows), box |-> opened + 1, outrun |-> FALSE]
             n == Len(idling)
  <2>1. e \in Loop /\ e.box = opened + 1
    BY <1>3 DEF Loop
  <2>2. idling' = Append(Outrun, e) /\ Outrun \in Seq(Loop)
    BY <1>3, OutrunIs DEF ShowBox
  <2> HIDE DEF e
  <2>3. /\ idling' \in Seq(Loop) /\ Len(idling') = n + 1 /\ n \in Nat /\ idling'[n + 1] = e
        /\ \A k \in 1 .. n : idling'[k].box = idling[k].box
        /\ \A k \in 1 .. n + 1 : k \in 1 .. n \/ k = n + 1
    BY <2>1, <2>2, Pushed, OutrunIs
  <2> HIDE DEF n
  <2>4. \A k \in 1 .. n : idling[k].box \in 1 .. opened
    BY DEF DeskBase, LoopsOK, n
  <2>5. \A k \in 1 .. n + 1 : idling'[k].box \in 1 .. opened + 1
    BY <1>3, <2>1, <2>3, <2>4
  <2>6. \A j, k \in 1 .. n + 1 : j < k => idling'[j].box < idling'[k].box
    <3> SUFFICES ASSUME NEW j \in 1 .. n + 1, NEW k \in 1 .. n + 1, j < k
                 PROVE  idling'[j].box < idling'[k].box
      OBVIOUS
    <3>1. j \in 1 .. n /\ idling'[j].box = idling[j].box
      BY <2>3
    <3>2. CASE k = n + 1
      BY <1>3, <2>1, <2>3, <2>4, <3>1, <3>2
    <3>3. CASE k \in 1 .. n
      BY <2>3, <3>1, <3>3 DEF DeskBase, LoopsOK, n
    <3> QED
      BY <2>3, <3>2, <3>3
  <2>7. response' \in 0 .. opened'
    BY <1>1, <1>3 DEF DeskBase, LoopsOK
  <2> QED
    BY <1>3, <2>3, <2>5, <2>6, <2>7 DEF LoopsOK
<1> QED
  BY <1>1, <1>2, <1>4

LEMMA LiveIs ==
    ASSUME DeskBase, NEW o, Live(o)
    PROVE  IsOpen /\ o.id \in 1 .. opened
BY DEF DeskBase, WindowsOK, Live, IsOpen

LEMMA ClickedBase ==
    ASSUME DeskBase, NEW o \in Object, Live(o), Clicked(o)
    PROVE  WindowsOK' /\ PointersOK' /\ OptionsOK' /\ LoopsOK' /\ choosing' \in BOOLEAN
<1>0. NoObject \in {NoObject, active} /\ "settings" \in Kinds /\ choosing \in BOOLEAN
      /\ o.id \in 0 .. opened /\ options \in {options, 0} /\ response \in 0 .. opened
  BY LiveIs DEF Kinds, DeskBase, FlagsOK, LoopsOK
<1>1. CASE Opens("settings") /\ active' = NoObject
  BY <1>0, <1>1, PushKeeps DEF Opens
<1>2. CASE CloseOptions(NoObject)
  BY <1>0, <1>2, CloseOptionsBase
<1>3. CASE ShowBox /\ UNCHANGED active
  BY <1>0, <1>3, ShowBoxBase
<1>4. CASE Closes(NoObject) /\ UNCHANGED <<options, choosing, response>>
  BY <1>0, <1>4, PopBase, LoopsKeep DEF Closes
<1>5. CASE AnswerBox(o, NoObject)
  BY <1>0, <1>5, PopBase, LoopsKeep DEF AnswerBox, Closes
<1>6. CASE ChooseTeam(NoObject)
  BY <1>0, <1>6, PopBase, LoopsKeep DEF ChooseTeam, Closes
<1>7. CASE /\ active' = NoObject
           /\ UNCHANGED <<windows, opened, tip, tipShown, options, choosing, idling, response>>
  <2>1. PointersOK'
    BY <1>7, NoObjectIs DEF DeskBase, PointersOK, Live
  <2> QED
    BY <1>0, <1>7, <2>1 DEF DeskBase, WindowsOK, OptionsOK, LoopsOK
<1> QED
  BY <1>1, <1>2, <1>3, <1>4, <1>5, <1>6, <1>7, ClickedIs

LEMMA MouseMoveBase ==
    ASSUME DeskBase, NEW name \in Spots, NEW within \in BOOLEAN, MouseMove(name, within)
    PROVE  DeskBase'
<1>1. /\ UNCHANGED <<windows, opened, idling, response, options, choosing, pressed, active, down,
                     surprised, guiRunning>>
  BY DEF MouseMove, Listens, Elsewhere
<1>2. inside' \in BOOLEAN /\ broken' \in BOOLEAN /\ tipShown' \in BOOLEAN
  BY DEF MouseMove, Listens, DeskBase, FlagsOK
<1>3. tip' = tip \/ tip' = Under(name)
  BY DEF MouseMove, Under
<1>4. PointersOK'
  BY <1>1, <1>3, UnderIs DEF DeskBase, PointersOK, Live
<1> QED
  BY <1>1, <1>2, <1>4 DEF DeskBase, WindowsOK, OptionsOK, LoopsOK, FlagsOK

(* Nothing but the focus changes in a window that is clicked.  *)
LEMMA MouseDownBase ==
    ASSUME DeskBase, NEW name \in Spots, NEW button \in {"left", "right"},
           MouseDown(button, name)
    PROVE  /\ DeskBase'
           /\ Len(windows') = Len(windows)
           /\ \A k \in 1 .. Len(windows) :
                 windows'[k].id = windows[k].id /\ windows'[k].kind = windows[k].kind
           /\ active' = IF IsOpen THEN Under(name) ELSE active
<1>1. /\ UNCHANGED <<tipShown, opened, idling, response, options, choosing, surprised, broken,
                     guiRunning>>
      /\ down' = TRUE /\ pressed' = pressed \cup {button}
  BY DEF MouseDown, Listens
<1>2. CASE ~IsOpen
  <2>1. UNCHANGED <<active, windows, inside, tip>>
    BY <1>2 DEF MouseDown
  <2> QED
    BY <1>1, <1>2, <2>1
    DEF DeskBase, WindowsOK, OptionsOK, LoopsOK, PointersOK, FlagsOK, Live
<1>3. CASE IsOpen
  <2> DEFINE o == Under(name)
             n == Len(windows)
  <2>1. /\ active' = o /\ tip' \in {tip, NoObject}
        /\ inside' \in BOOLEAN
        /\ windows' = windows \/ windows' = [windows EXCEPT ![n].focus = o]
    BY <1>3 DEF MouseDown, Under
  <2>2. o \in Object /\ (o # NoObject => o.id = DeskTop.id /\ o.gen = DeskTop.gen /\ Live(o))
    BY UnderIs
  <2>3. DeskTop = windows[n] /\ DeskTop \in Window /\ n \in Nat \ {0} /\ n \in 1 .. n
    BY <1>3, TopIs DEF DeskBase
  <2>4. windows \in Seq(Window)
    BY DEF DeskBase, WindowsOK
  <2> HIDE DEF o
  <2> DEFINE w == [DeskTop EXCEPT !.focus = o]
  <2>5. w \in Window /\ w.id = DeskTop.id /\ w.gen = DeskTop.gen /\ w.kind = DeskTop.kind
        /\ w.focus = o
    BY <2>2, <2>3 DEF Window
  <2>6. windows' = windows \/ windows' = [windows EXCEPT ![n] = w]
    BY <2>1, <2>3
  <2> HIDE DEF w, n
  <2>7. /\ windows' \in Seq(Window) /\ Len(windows') = n
        /\ \A k \in 1 .. n : windows'[k] = windows[k] \/ (k = n /\ windows'[k] = w)
    BY <2>3, <2>4, <2>5, <2>6, ExceptSeq DEF n
  <2>8. \A k \in 1 .. n : /\ windows'[k].id = windows[k].id /\ windows'[k].gen = windows[k].gen
                          /\ windows'[k].kind = windows[k].kind
                          /\ windows'[k].focus = windows[k].focus \/
                                (k = n /\ windows'[k].focus = o)
    BY <2>3, <2>5, <2>7
  <2>9. WindowsOK'
    <3>1. \A k \in 1 .. n : windows'[k].focus # NoObject =>
            windows'[k].focus.id = windows'[k].id /\ windows'[k].focus.gen = windows'[k].gen
      BY <2>2, <2>3, <2>8 DEF DeskBase, WindowsOK, n
    <3> QED
      BY <1>1, <2>7, <2>8, <3>1 DEF DeskBase, WindowsOK, n
  <2>10. \A q : Live(q) => Live(q)'
    BY <2>7, <2>8 DEF Live, Parts, n
  <2>11. PointersOK'
    BY <2>1, <2>2, <2>10, NoObjectIs DEF DeskBase, PointersOK
  <2>12. OptionsOK' /\ LoopsOK'
    BY <1>1, <2>7, <2>8 DEF DeskBase, OptionsOK, LoopsOK, n
  <2>13. FlagsOK'
    BY <1>1, <2>1 DEF DeskBase, FlagsOK
  <2> QED
    BY <1>3, <2>1, <2>7, <2>8, <2>9, <2>11, <2>12, <2>13 DEF DeskBase, o, n
<1> QED
  BY <1>2, <1>3

(* The object that a release of a button goes to.  *)
Target(name) == IF down THEN active ELSE Under(name)

LEMMA MouseUpIs ==
    ASSUME DeskBase, NEW name \in Spots, NEW button \in {"left", "right"}, NEW hovered \in BOOLEAN,
           MouseUp(button, name, hovered)
    PROVE  /\ button \in pressed /\ pressed' = pressed \ {button} /\ UNCHANGED <<guiRunning, surprised>>
           /\ guiRunning /\ broken' \in BOOLEAN
           /\ down' = (down /\ Len(idling') > Len(idling)) /\ inside' \in BOOLEAN
           /\ \/ /\ button = "left" /\ Target(name) # NoObject /\ Clicked(Target(name))
                 /\ Target(name) \in Object /\ Live(Target(name))
              \/ active' = NoObject /\ UNCHANGED <<tip, tipShown>> /\ Elsewhere
<1>1. Target(name) \in Object /\ (Target(name) # NoObject => Live(Target(name)))
  BY UnderIs DEF Target, DeskBase, PointersOK
<1> QED
  BY <1>1 DEF MouseUp, Listens, Target, Under, DeskBase, FlagsOK

LEMMA ElsewhereBase ==
    ASSUME DeskBase, active' \in {active, NoObject}, UNCHANGED tip, Elsewhere
    PROVE  WindowsOK' /\ PointersOK' /\ OptionsOK' /\ LoopsOK' /\ choosing' \in BOOLEAN
<1>1. PointersOK'
  BY NoObjectIs DEF DeskBase, PointersOK, Live, Elsewhere
<1> QED
  BY <1>1 DEF DeskBase, WindowsOK, OptionsOK, LoopsOK, FlagsOK, Elsewhere

LEMMA MouseUpBase ==
    ASSUME DeskBase, NEW name \in Spots, NEW button \in {"left", "right"}, NEW hovered \in BOOLEAN,
           MouseUp(button, name, hovered)
    PROVE  DeskBase'
<1>1. WindowsOK' /\ PointersOK' /\ OptionsOK' /\ LoopsOK' /\ choosing' \in BOOLEAN
  BY MouseUpIs, ClickedBase, ElsewhereBase
<1>2. /\ pressed' \subseteq {"left", "right"} /\ down' \in BOOLEAN /\ inside' \in BOOLEAN
      /\ guiRunning' \in BOOLEAN /\ surprised' \in BOOLEAN /\ broken' \in BOOLEAN
  BY MouseUpIs DEF DeskBase, FlagsOK
<1>3. tipShown' \in BOOLEAN
  <2>1. CASE Clicked(Target(name))
    <3>1. \/ tipShown' = FALSE \/ tipShown' = tipShown
      BY <2>1, ClickedIs
      DEF Opens, CloseOptions, ShowBox, Closes, AnswerBox, ChooseTeam, PushWindow, PopWindow, Tipless
    <3> QED
      BY <3>1 DEF DeskBase, FlagsOK
  <2>2. CASE tipShown' = tipShown
    BY <2>2 DEF DeskBase, FlagsOK
  <2> QED
    BY <2>1, <2>2, MouseUpIs
<1> QED
  BY <1>1, <1>2, <1>3 DEF DeskBase, FlagsOK

LEMMA TipShownIs ==
    ASSUME DeskBase,
           (\E sort : PushWindow(sort)) \/ (\E now : PopWindow(now)) \/ UNCHANGED tipShown
    PROVE  tipShown' \in BOOLEAN
BY DEF DeskBase, FlagsOK, PushWindow, PopWindow, Tipless

LEMMA EscapeBase ==
    ASSUME DeskBase, Escape
    PROVE  DeskBase'
<1>0. UNCHANGED <<pressed, down, inside, surprised, broken, guiRunning>>
  BY DEF Escape, Listens
<1>1. CASE ~IsOpen
  <2>1. PushWindow("options") /\ options' = opened' /\ UNCHANGED <<active, choosing, idling, response>>
    BY <1>1 DEF Escape
  <2>2. WindowsOK' /\ OptionsOK' /\ LoopsOK' /\ PointersOK'
    BY <2>1, PushKeeps DEF Kinds
  <2>3. tipShown' \in BOOLEAN
    BY <2>1, TipShownIs
  <2> QED
    BY <1>0, <2>1, <2>2, <2>3 DEF DeskBase, FlagsOK
<1>2. CASE CloseOptions(active)
  <2>1. tipShown' \in BOOLEAN
    BY <1>2, TipShownIs DEF CloseOptions, Closes
  <2> QED
    BY <1>0, <1>2, <2>1, CloseOptionsBase DEF DeskBase, FlagsOK
<1>3. CASE Closes(active) /\ UNCHANGED <<options, choosing, response>>
  <2>1. tipShown' \in BOOLEAN
    BY <1>3, TipShownIs DEF Closes
  <2>2. WindowsOK' /\ OptionsOK' /\ PointersOK'
    BY <1>3, PopBase DEF Closes
  <2>3. LoopsOK'
    BY <1>3, LoopsKeep DEF Closes, DeskBase, LoopsOK
  <2> QED
    BY <1>0, <1>3, <2>1, <2>2, <2>3 DEF DeskBase, FlagsOK
<1> QED
  BY <1>1, <1>2, <1>3 DEF Escape

LEMMA SurpriseIs ==
    ASSUME DeskBase, Surprise
    PROVE  surprised' \in BOOLEAN
BY DEF Surprise, DeskBase, FlagsOK

LEMMA NavigateBase ==
    ASSUME DeskBase, NEW name \in {"player", "close", "red"}, Navigate(name)
    PROVE  DeskBase'
<1>0. UNCHANGED <<pressed, down, inside, broken, guiRunning>> /\ surprised' \in BOOLEAN
  BY SurpriseIs DEF Navigate, Listens, DeskBase, FlagsOK
<1>1. CASE Opens("settings") /\ UNCHANGED active
  <2>1. tipShown' \in BOOLEAN /\ UNCHANGED choosing
    BY <1>1, TipShownIs DEF Opens
  <2>2. WindowsOK' /\ OptionsOK' /\ LoopsOK' /\ PointersOK'
    BY <1>1, PushKeeps DEF Opens, Kinds
  <2> QED
    BY <1>0, <2>1, <2>2 DEF DeskBase, FlagsOK
<1>2. CASE CloseOptions(active)
  <2>1. tipShown' \in BOOLEAN
    BY <1>2, TipShownIs DEF CloseOptions, Closes
  <2> QED
    BY <1>0, <1>2, <2>1, CloseOptionsBase DEF DeskBase, FlagsOK
<1>3. CASE ChooseTeam(active)
  <2>1. tipShown' \in BOOLEAN /\ choosing' = FALSE
    BY <1>3, TipShownIs DEF ChooseTeam, Closes
  <2>2. WindowsOK' /\ OptionsOK' /\ PointersOK'
    BY <1>3, PopBase DEF ChooseTeam, Closes
  <2>3. LoopsOK'
    BY <1>3, LoopsKeep DEF ChooseTeam, Closes, DeskBase, LoopsOK
  <2> QED
    BY <1>0, <2>1, <2>2, <2>3 DEF DeskBase, FlagsOK
<1> QED
  BY <1>1, <1>2, <1>3 DEF Navigate

LEMMA BoxReturnsBase ==
    ASSUME DeskBase, BoxReturns
    PROVE  /\ DeskBase'
           /\ Len(idling) \in Nat \ {0} /\ Len(idling') = Len(idling) - 1
           /\ \A k \in 1 .. Len(idling') : idling'[k] = idling[k] /\ k \in 1 .. Len(idling)
           /\ Last(idling) = idling[Len(idling)] /\ Len(idling) \in 1 .. Len(idling)
<1>1. idling \in Seq(Loop) /\ idling # << >> /\ idling' = Front(idling)
  BY DEF BoxReturns, DeskBase, LoopsOK
<1>2. /\ idling' \in Seq(Loop) /\ Len(idling') = Len(idling) - 1 /\ Len(idling) \in Nat \ {0}
      /\ \A k \in 1 .. Len(idling') : idling'[k] = idling[k]
  BY <1>1, Popped
<1>3. \A k \in 1 .. Len(idling') : k \in 1 .. Len(idling)
  BY <1>2
<1>4. LoopsOK'
  BY <1>2, <1>3 DEF BoxReturns, DeskBase, LoopsOK
<1>5. PointersOK'
  BY NoObjectIs DEF BoxReturns, DeskBase, PointersOK, Live
<1>6. WindowsOK' /\ OptionsOK' /\ FlagsOK'
  BY DEF BoxReturns, DeskBase, WindowsOK, OptionsOK, FlagsOK
<1>7. Last(idling) = idling[Len(idling)]
  BY DEF Last
<1>8. Len(idling) \in 1 .. Len(idling)
  BY <1>2
<1> QED
  BY <1>2, <1>3, <1>4, <1>5, <1>6, <1>7, <1>8 DEF DeskBase

LEMMA IdleBase ==
    ASSUME DeskBase, JoinRequest \/ ServerMessage \/ TournamentEnds
                     \/ \E text \in BOOLEAN : IdleTooltip(text)
    PROVE  DeskBase'
<1>1. CASE JoinRequest \/ ServerMessage
  <2>1. PICK sort \in Kinds : PushWindow(sort)
    BY <1>1 DEF JoinRequest, ServerMessage, Kinds
  <2>2. /\ UNCHANGED <<active, options, idling, response, pressed, down, inside, broken, guiRunning>>
        /\ surprised' \in BOOLEAN /\ choosing' \in BOOLEAN
    BY <1>1, SurpriseIs
    DEF JoinRequest, ServerMessage, IdleTurn, boxes, DeskBase, FlagsOK
  <2>3. tipShown' \in BOOLEAN
    BY <2>1, TipShownIs
  <2>4. WindowsOK' /\ OptionsOK' /\ LoopsOK' /\ PointersOK'
    BY <2>1, <2>2, PushKeeps
  <2> QED
    BY <2>2, <2>3, <2>4 DEF DeskBase, FlagsOK
<1>2. CASE TournamentEnds
  <2>1. /\ PopWindow(active) /\ choosing' = FALSE /\ surprised' \in BOOLEAN
        /\ UNCHANGED <<opened, pressed, down, inside, options, broken, idling, response, guiRunning>>
    BY <1>2, SurpriseIs DEF TournamentEnds, IdleTurn, boxes
  <2>2. WindowsOK' /\ OptionsOK' /\ PointersOK'
    BY <2>1, PopBase
  <2>3. LoopsOK'
    BY <2>1, LoopsKeep DEF DeskBase, LoopsOK
  <2>4. tipShown' \in BOOLEAN
    BY <2>1, TipShownIs
  <2> QED
    BY <2>1, <2>2, <2>3, <2>4 DEF DeskBase, FlagsOK
<1>3. ASSUME NEW text \in BOOLEAN, IdleTooltip(text)
      PROVE  DeskBase'
  <2>1. /\ UNCHANGED <<windows, opened, pressed, active, down, inside, tip, options, choosing,
                       surprised, idling, response, guiRunning>>
        /\ tipShown' \in BOOLEAN /\ broken' \in BOOLEAN
    BY <1>3 DEF IdleTooltip, IdleTurn, boxes
  <2> QED
    BY <2>1 DEF DeskBase, WindowsOK, OptionsOK, LoopsOK, PointersOK, FlagsOK, Live
<1> QED
  BY <1>1, <1>2, <1>3

(* The options are filled anew; their window's focus is forgotten.         *)
LEMMA RefreshOptionsBase ==
    ASSUME DeskBase, RefreshOptions
    PROVE  /\ DeskBase'
           /\ Len(windows') = Len(windows)
           /\ \A k \in 1 .. Len(windows) :
                 windows'[k].id = windows[k].id /\ windows'[k].kind = windows[k].kind
<1> DEFINE n == Len(windows)
           new(w) == [w EXCEPT !.gen = 1 - @, !.focus = NoObject]
<1>1. /\ UNCHANGED <<opened, pressed, active, down, inside, tip, tipShown, options, choosing,
                     surprised, idling, response, guiRunning>>
      /\ broken' \in BOOLEAN
  BY DEF RefreshOptions, IdleTurn, boxes, pointers
<1>2. windows \in Seq(Window) /\ n \in Nat /\ DOMAIN windows = 1 .. n
  BY LenProperties DEF DeskBase, WindowsOK
<1>3. windows' = [k \in 1 .. n |-> IF windows[k].id = options THEN new(windows[k]) ELSE windows[k]]
  BY <1>2 DEF RefreshOptions
<1>4. \A w \in Window : /\ new(w) \in Window /\ new(w).id = w.id /\ new(w).kind = w.kind
                        /\ new(w).focus = NoObject
  <2> SUFFICES ASSUME NEW w \in Window
               PROVE  /\ new(w) \in Window /\ new(w).id = w.id /\ new(w).kind = w.kind
                      /\ new(w).focus = NoObject
    OBVIOUS
  <2> DEFINE g == 1 - w.gen
             v == [w EXCEPT !.gen = g]
  <2>1. g \in {0, 1}
    BY DEF Window
  <2>2. new(w) = [v EXCEPT !.focus = NoObject]
    OBVIOUS
  <2> HIDE DEF g
  <2>3. v \in Window /\ v.id = w.id /\ v.kind = w.kind
    BY <2>1 DEF Window
  <2> HIDE DEF v, new
  <2> QED
    BY <2>2, <2>3, NoObjectIs DEF Window
<1> HIDE DEF new
<1>5. \A k \in 1 .. n : windows[k] \in Window
  BY <1>2, ElementOfSeq
<1>6. \A k \in 1 .. n : /\ windows'[k] \in Window
                        /\ windows'[k].id = windows[k].id /\ windows'[k].kind = windows[k].kind
                        /\ \/ windows'[k] = windows[k]
                           \/ windows[k].kind = "options" /\ windows'[k].focus = NoObject
  BY <1>3, <1>4, <1>5 DEF DeskBase, OptionsOK
<1>7. windows' \in Seq(Window) /\ Len(windows') = n
  <2>1. windows' \in [1 .. n -> Window]
    BY <1>3, <1>6
  <2> QED
    BY <1>2, <2>1
<1>8. WindowsOK'
  BY <1>1, <1>6, <1>7 DEF DeskBase, WindowsOK
<1>9. \A o : Live(o) => Live(o)'
  BY <1>6, <1>7 DEF Live, Parts
<1>10. OptionsOK' /\ LoopsOK' /\ FlagsOK' /\ PointersOK'
  BY <1>1, <1>6, <1>7, <1>9 DEF DeskBase, OptionsOK, LoopsOK, FlagsOK, PointersOK
<1> QED
  BY <1>6, <1>7, <1>8, <1>10 DEF DeskBase

LEMMA BaseStep == DeskBase /\ [DeskNext]_desk => DeskBase'
<1> SUFFICES ASSUME DeskBase, [DeskNext]_desk PROVE DeskBase'
  OBVIOUS
<1>1. CASE UNCHANGED desk
  BY ZenonT(40), <1>1 DEF desk, pointers, boxes, DeskBase, WindowsOK, OptionsOK, LoopsOK, PointersOK, FlagsOK,
              Live
<1>2. CASE Quits
  BY <1>2 DEF Quits, pointers, DeskBase, WindowsOK, OptionsOK, LoopsOK, PointersOK, FlagsOK, Live
<1> QED
  BY <1>1, <1>2, MouseMoveBase, MouseDownBase, MouseUpBase, EscapeBase, NavigateBase,
     BoxReturnsBase, IdleBase, RefreshOptionsBase DEF DeskNext

LEMMA BaseInit == DeskInit => DeskBase
<1> SUFFICES ASSUME DeskInit PROVE DeskBase
  OBVIOUS
<1> USE DEF DeskInit
<1>1. WindowsOK /\ OptionsOK /\ LoopsOK
  BY DeskAssumption DEF WindowsOK, OptionsOK, LoopsOK
<1>2. PointersOK
  BY NoObjectIs DEF PointersOK
<1>3. FlagsOK
  BY DEF FlagsOK
<1> QED
  BY <1>1, <1>2, <1>3 DEF DeskBase

LEMMA BaseGivesPointers == DeskBase => PointersLive
<1> SUFFICES ASSUME DeskBase PROVE PointersLive
  OBVIOUS
<1>1. windows \in Seq(Window) /\ Len(windows) \in Nat /\ DOMAIN windows = 1 .. Len(windows)
  BY LenProperties DEF DeskBase, WindowsOK
<1>2. Range(windows) = {windows[k] : k \in 1 .. Len(windows)}
  BY <1>1 DEF Range
<1>3. \A k \in 1 .. Len(windows) : WindowOf(windows[k]) = windows[k]
  <2> SUFFICES ASSUME NEW k \in 1 .. Len(windows)
               PROVE  WindowOf(windows[k]) = windows[k]
    OBVIOUS
  <2>1. \A w \in Range(windows) : w.id = windows[k].id => w = windows[k]
    BY <1>1, <1>2 DEF DeskBase, WindowsOK
  <2> QED
    BY <1>2, <2>1 DEF WindowOf
<1>4. ASSUME NEW o, NEW k \in 1 .. Len(windows), windows[k].id = o.id
      PROVE  WindowOf(o) = windows[k] /\ windows[k] \in Range(windows)
  BY <1>2, <1>3, <1>4 DEF WindowOf
<1>5. ASSUME NEW o, Live(o)
      PROVE  \E w \in Range(windows) : w.id = o.id /\ (w.kind # "options" => Exists(o))
  <2>1. PICK k \in 1 .. Len(windows) :
          windows[k].id = o.id /\ (windows[k].kind # "options" => windows[k].gen = o.gen)
    BY <1>5 DEF Live
  <2> QED
    BY <1>4, <2>1 DEF Exists
<1>6. ASSUME NEW w \in Range(windows), w.focus # NoObject
      PROVE  Exists(w.focus)
  <2>1. PICK k \in 1 .. Len(windows) : w = windows[k]
    BY <1>2
  <2>2. windows[k].id = w.focus.id /\ windows[k].gen = w.focus.gen
    BY <1>6, <2>1 DEF DeskBase, WindowsOK
  <2> QED
    BY <1>4, <2>2 DEF Exists
<1> QED
  BY <1>5, <1>6 DEF PointersLive, DeskBase, PointersOK

(* Type correctness: windows and nested loops are stacked in the order in  *)
(* which they came, and no pointer is to a window yet to come.             *)
THEOREM DeskTypeCorrect == DeskSpec => []DeskTypeOK
<1>1. DeskBase => DeskTypeOK
  <2> SUFFICES ASSUME DeskBase PROVE DeskTypeOK
    OBVIOUS
  <2>1. /\ windows \in Seq(Window) /\ Len(windows) \in Nat
        /\ idling \in Seq(Loop) /\ Len(idling) \in Nat
    BY LenProperties DEF DeskBase, WindowsOK, LoopsOK
  <2>2. \A k \in 1 .. Len(windows) :
          /\ windows[k].id \in 1 .. opened /\ windows[k].gen \in 0 .. 1
          /\ windows[k].kind \in DOMAIN Contents
          /\ windows[k].focus = NoObject \/ windows[k].focus.id = windows[k].id
          /\ k > 1 => windows[k - 1].id < windows[k].id
    <3>1. DOMAIN Contents = Kinds
      BY DEF Contents, Kinds
    <3>2. \A k \in 1 .. Len(windows) : windows[k] \in Window
      BY <2>1, ElementOfSeq
    <3>3. \A k \in 1 .. Len(windows) : k > 1 => k - 1 \in 1 .. Len(windows) /\ k - 1 < k
      BY <2>1
    <3> QED
      BY <3>1, <3>2, <3>3 DEF DeskBase, WindowsOK, Window
  <2>3. \A k \in 1 .. Len(idling) :
          /\ idling[k].box \in 1 .. opened
          /\ k > 1 => idling[k - 1].box < idling[k].box
    <3>1. \A k \in 1 .. Len(idling) : k > 1 => k - 1 \in 1 .. Len(idling) /\ k - 1 < k
      BY <2>1
    <3> QED
      BY <3>1 DEF DeskBase, LoopsOK
  <2>4. \A o : Live(o) => o.id \in 0 .. opened
    BY LiveIs DEF DeskBase, WindowsOK
  <2>5. active.id \in 0 .. opened /\ tip.id \in 0 .. opened
    <3>1. 0 \in 0 .. opened
      BY DEF DeskBase, WindowsOK
    <3>2. (active = NoObject \/ Live(active)) /\ (tip = NoObject \/ Live(tip))
      BY DEF DeskBase, PointersOK
    <3> QED
      BY <2>4, <3>1, <3>2, NoObjectIs, Zenon
  <2>6. opened \in 0 .. MaxOpened
    BY DeskAssumption DEF DeskBase, WindowsOK
  <2> QED
    BY <2>2, <2>3, <2>5, <2>6 DEF DeskTypeOK, DeskBase, LoopsOK, OptionsOK, FlagsOK
<1> QED
  BY <1>1, BaseInit, BaseStep, PTL DEF DeskSpec

(* Whatever opens, closes or fills a window anew, Gui's pointers are to    *)
(* objects of open windows.                                                *)
THEOREM PointersCorrect == DeskSpec => []PointersLive
BY BaseInit, BaseStep, BaseGivesPointers, PTL DEF DeskSpec

-----------------------------------------------------------------------------
(* The layout of the stack as windows come and go.  *)
Noticed(sort) ==
    \/ sort = "options" /\ ~IsOpen /\ options' = opened' /\ UNCHANGED choosing
    \/ sort = "settings" /\ IsOpen /\ DeskTop.kind = "options" /\ UNCHANGED <<options, choosing>>
    \/ sort = "box" /\ IsOpen /\ DeskTop.kind = "settings" /\ UNCHANGED <<options, choosing>>
    \/ sort = "team" /\ choosing = FALSE /\ choosing' = TRUE /\ UNCHANGED options
    \/ sort = "message" /\ choosing = FALSE /\ UNCHANGED <<options, choosing>>

LEMMA PushLayout ==
    ASSUME DeskBase, Layout, NEW sort \in Kinds, PushWindow(sort), Noticed(sort)
    PROVE  /\ Layout'
           /\ \A k \in 1 .. Len(windows') : windows'[k].kind = "box" =>
                 \/ k \in 1 .. Len(windows) /\ windows'[k] = windows[k]
                 \/ sort = "box" /\ k = Len(windows') /\ windows'[k].id = opened'
<1> DEFINE n == Len(windows)
<1>1. /\ opened' = opened + 1
      /\ Len(windows') = n + 1 /\ n \in Nat
      /\ windows'[n + 1] = NewWindow(sort)
      /\ \A k \in 1 .. n : windows'[k] = windows[k]
      /\ \A k \in 1 .. n + 1 : k \in 1 .. n \/ k = n + 1
      /\ windows' \in Seq(Window)
  BY PushIs DEF DeskBase
<1>2. NewWindow(sort).id = opened' /\ NewWindow(sort).kind = sort
  BY <1>1 DEF NewWindow
<1>3. (IsOpen <=> n # 0) /\ IsOpen' /\ (DeskTop = windows[n]) /\ (DeskTop)' = windows'[n + 1]
  BY <1>1, EmptySeq DEF IsOpen, DeskTop, Last, DeskBase, WindowsOK
<1>4. opened \in Nat
  BY DEF DeskBase, WindowsOK
<1> HIDE DEF n
<1>5. Layout'
  BY <1>1, <1>2, <1>3, <1>4 DEF Layout, Noticed, n
<1> QED
  BY <1>1, <1>2, <1>5 DEF n

(* What goes with the window on top is forgotten with it.  *)
Forgotten ==
    /\ options' = IF DeskTop.kind = "options" THEN 0 ELSE options
    /\ choosing' = IF DeskTop.kind = "team" THEN FALSE ELSE choosing

LEMMA PopLayout ==
    ASSUME DeskBase, Layout, IsOpen, NEW now, PopWindow(now), Forgotten
    PROVE  /\ Layout' /\ active' = NoObject
           /\ Len(windows') = Len(windows) - 1 /\ Len(windows) \in Nat \ {0}
           /\ \A k \in 1 .. Len(windows') : k \in 1 .. Len(windows) /\ windows'[k] = windows[k]
<1> DEFINE n == Len(windows)
<1>1. /\ windows' \in Seq(Window) /\ Len(windows') = n - 1 /\ n \in Nat \ {0}
      /\ \A k \in 1 .. n - 1 : windows'[k] = windows[k]
      /\ active' = NoObject
  BY PopIs DEF DeskBase
<1>2. \A k \in 1 .. n - 1 : k \in 1 .. n
  BY <1>1
<1>3. (DeskTop = windows[n]) /\ (IsOpen' <=> n # 1) /\ n \in 1 .. n /\ 1 \in 1 .. n
  BY <1>1, EmptySeq DEF IsOpen, DeskTop, Last
<1>4. options # 0 /\ n = 1 => DeskTop.kind = "options"
  BY <1>3 DEF Layout, DeskBase, OptionsOK, n
<1>5. choosing' = FALSE
  BY <1>3 DEF Forgotten, Layout, DeskBase, FlagsOK
<1> HIDE DEF n
<1>6. Layout'
  BY <1>1, <1>2, <1>3, <1>4, <1>5 DEF Layout, Forgotten, n
<1> QED
  BY <1>1, <1>2, <1>6 DEF n

-----------------------------------------------------------------------------
(* Questions and their answers as windows come and go.  *)
LEMMA OthersAsking ==
    ASSUME UNCHANGED <<idling, response>>, Asking,
           \A k \in 1 .. Len(windows') : windows'[k].kind = "box" =>
              k \in 1 .. Len(windows) /\ windows'[k].id = windows[k].id /\ windows[k].kind = "box",
           \A k \in 1 .. Len(windows) : windows[k].kind = "box" =>
              k \in 1 .. Len(windows') /\ windows'[k].kind = "box"
    PROVE  Asking'
BY DEF Asking, Answered

LEMMA PushAsking ==
    ASSUME DeskBase, Layout, NEW sort \in Kinds \ {"box"}, PushWindow(sort), Noticed(sort),
           UNCHANGED <<idling, response>>, Asking
    PROVE  Asking'
<1>1. \A k \in 1 .. Len(windows') : windows'[k].kind = "box" =>
         k \in 1 .. Len(windows) /\ windows'[k] = windows[k]
  BY PushLayout
<1>2. /\ Len(windows') = Len(windows) + 1 /\ Len(windows) \in Nat
      /\ \A k \in 1 .. Len(windows) : windows'[k] = windows[k]
  BY PushIs DEF DeskBase
<1>3. \A k \in 1 .. Len(windows) : k \in 1 .. Len(windows')
  BY <1>2
<1> QED
  BY <1>1, <1>2, <1>3, OthersAsking

LEMMA PopAsking ==
    ASSUME DeskBase, Layout, IsOpen, NEW now, PopWindow(now), Forgotten, DeskTop.kind # "box",
           UNCHANGED <<idling, response>>, Asking
    PROVE  Asking'
<1>1. \A k \in 1 .. Len(windows') : k \in 1 .. Len(windows) /\ windows'[k] = windows[k]
  BY PopLayout
<1>2. \A k \in 1 .. Len(windows) : k \in 1 .. Len(windows') \/ k = Len(windows)
  BY PopIs DEF DeskBase
<1>3. DeskTop = windows[Len(windows)]
  BY TopIs DEF DeskBase
<1> QED
  BY <1>1, <1>2, <1>3, OthersAsking

LEMMA BoxAsking ==
    ASSUME DeskBase, Layout, Asking, ShowBox, IsOpen, DeskTop.kind = "settings"
    PROVE  Asking' /\ Layout' /\ Len(idling') > Len(idling)
<1>1. PushWindow("box") /\ "box" \in Kinds /\ Noticed("box") /\ UNCHANGED response
      /\ idling' = Append(Outrun, [counter |-> Len(windows), box |-> opened', outrun |-> FALSE])
  BY DEF ShowBox, Kinds, Noticed
<1>2. /\ Layout'
      /\ \A k \in 1 .. Len(windows') : windows'[k].kind = "box" =>
            \/ k \in 1 .. Len(windows) /\ windows'[k] = windows[k]
            \/ k = Len(windows') /\ windows'[k].id = opened'
  BY <1>1, PushLayout
<1>3. /\ Len(windows') = Len(windows) + 1 /\ Len(windows) \in Nat
      /\ windows'[Len(windows')] = NewWindow("box") /\ opened' = opened + 1 /\ opened \in Nat
  BY <1>1, PushIs DEF DeskBase, WindowsOK
<1>4. DeskTop = windows[Len(windows)] /\ Len(windows) \in 1 .. Len(windows)
  BY TopIs DEF DeskBase
<1>5. Len(windows) = 2
  BY <1>4 DEF Layout
<1>6. \A k \in 1 .. Len(windows) : windows[k].kind # "box"
  BY <1>5 DEF Layout
<1>7. \A k \in 1 .. Len(idling) : Outrun[k].outrun
  <2>1. \A loop : ~Asks(loop)
    BY <1>6 DEF Asks
  <2> QED
    BY <2>1, OutrunIs
<1> DEFINE e == [counter |-> Len(windows), box |-> opened', outrun |-> FALSE]
           n == Len(idling)
<1>8. e \in Loop /\ e.box = opened' /\ e.counter = Len(windows) /\ ~e.outrun
  BY <1>3 DEF Loop
<1>9. Outrun \in Seq(Loop) /\ idling' = Append(Outrun, e)
  BY <1>1, OutrunIs
<1> HIDE DEF e
<1>10. /\ idling' \in Seq(Loop) /\ Len(idling') = n + 1 /\ n \in Nat /\ idling'[n + 1] = e
       /\ \A k \in 1 .. n : idling'[k] = Outrun[k]
       /\ \A k \in 1 .. n + 1 : k \in 1 .. n \/ k = n + 1
  BY <1>8, <1>9, Pushed, OutrunIs
<1>11. Last(idling)' = e /\ idling' # << >>
  BY <1>10 DEF Last
<1>12. \A k \in 1 .. Len(idling') : k < Len(idling') => idling'[k].outrun
  BY <1>7, <1>10
<1>13. Len(windows') \in 1 .. Len(windows') /\ windows'[Len(windows')].kind = "box"
  BY <1>3 DEF NewWindow
<1>14. \A k \in 1 .. Len(windows') : windows'[k].kind = "box" =>
          windows'[k].id = e.box /\ k > e.counter /\ ~e.outrun
  BY <1>2, <1>3, <1>6, <1>8
<1>15. Asking'
  BY <1>11, <1>12, <1>13, <1>14 DEF Asking
<1> QED
  BY <1>2, <1>10, <1>15

LEMMA AnswerAsking ==
    ASSUME DeskBase, Layout, Asking, IsOpen, DeskTop.kind = "box", NEW now, PopWindow(now),
           Forgotten, response' = DeskTop.id, UNCHANGED idling
    PROVE  Asking'
<1>1. /\ \A k \in 1 .. Len(windows') : k \in 1 .. Len(windows) /\ windows'[k] = windows[k]
      /\ Len(windows') = Len(windows) - 1 /\ Len(windows) \in Nat \ {0}
  BY PopLayout
<1>2. DeskTop = windows[Len(windows)] /\ Len(windows) \in 1 .. Len(windows)
  BY TopIs DEF DeskBase
<1>3. /\ Len(windows) = 3 /\ idling # << >> /\ response' = Last(idling).box
      /\ ~Last(idling).outrun
  BY <1>2 DEF Layout, Asking
<1>4. \A k \in 1 .. Len(windows') : windows'[k].kind # "box"
  BY <1>1, <1>3 DEF Layout
<1>5. idling' = idling /\ Answered(Last(idling))'
  BY <1>3 DEF Answered
<1> QED
  BY <1>4, <1>5 DEF Asking

-----------------------------------------------------------------------------
(* Every step that surprises nobody keeps the order.  *)
LEMMA OwnWindow ==
    ASSUME DeskBase, NEW o, Live(o), o.id = DeskTop.id
    PROVE  IsOpen /\ o.name \in Parts(DeskTop) /\ DeskTop.kind \in Kinds
<1>1. PICK k \in 1 .. Len(windows) : windows[k].id = o.id /\ o.name \in Parts(windows[k])
  BY DEF Live
<1>2. IsOpen
  BY LiveIs
<1>3. /\ DeskTop = windows[Len(windows)] /\ DeskTop \in Window
      /\ Len(windows) \in Nat \ {0} /\ Len(windows) \in 1 .. Len(windows)
  BY <1>2, TopIs DEF DeskBase
<1>4. k = Len(windows)
  BY <1>1, <1>3 DEF DeskBase, WindowsOK
<1> QED
  BY <1>1, <1>2, <1>3, <1>4 DEF Window

LEMMA KindOfName ==
    ASSUME DeskBase, NEW o, Live(o), o.id = DeskTop.id
    PROVE  /\ o.name \in {"player", "close"} => DeskTop.kind = "options"
           /\ o.name = "ask" => DeskTop.kind = "settings"
           /\ o.name = "ok" => DeskTop.kind \in {"settings", "message"}
           /\ o.name = "answer" => DeskTop.kind = "box"
           /\ o.name = "red" => DeskTop.kind = "team"
<1>1. o.name \in Contents[DeskTop.kind] \cup {"frame"} /\ DeskTop.kind \in Kinds
  BY OwnWindow DEF Parts
<1> QED
  BY <1>1, ContentsAre DEF Kinds

(* What is known of the windows, and of the questions as long as the       *)
(* program does not quit.                                                  *)
Order == Layout /\ (guiRunning => Asking)

LEMMA CloseOptionsOrder ==
    ASSUME DeskBase, Order, UNCHANGED guiRunning, IsOpen, DeskTop.kind = "options",
           NEW now, CloseOptions(now)
    PROVE  Order' /\ active' = NoObject
<1>1. options # 0
  <2>1. DeskTop = windows[Len(windows)] /\ Len(windows) \in 1 .. Len(windows)
    BY TopIs DEF DeskBase
  <2> QED
    BY <2>1 DEF Order, Layout, DeskBase, WindowsOK
<1>2. PopWindow(now) /\ Forgotten /\ UNCHANGED <<idling, response>>
  BY <1>1 DEF CloseOptions, Closes, Forgotten
<1> QED
  BY <1>2, PopLayout, PopAsking DEF Order

LEMMA CloseOrder ==
    ASSUME DeskBase, Order, UNCHANGED guiRunning, IsOpen, DeskTop.kind \in {"settings", "message"},
           NEW now, Closes(now), UNCHANGED <<options, choosing, response>>
    PROVE  Order' /\ active' = NoObject
<1>1. PopWindow(now) /\ Forgotten /\ UNCHANGED <<idling, response>>
  BY DEF Closes, Forgotten
<1> QED
  BY <1>1, PopLayout, PopAsking DEF Order

LEMMA ChooseOrder ==
    ASSUME DeskBase, Order, UNCHANGED guiRunning, IsOpen, DeskTop.kind = "team",
           NEW now, ChooseTeam(now)
    PROVE  Order' /\ active' = NoObject
<1>1. PopWindow(now) /\ Forgotten /\ UNCHANGED <<idling, response>>
  BY DEF Closes, ChooseTeam, Forgotten
<1> QED
  BY <1>1, PopLayout, PopAsking DEF Order

LEMMA AnswerOrder ==
    ASSUME DeskBase, Order, UNCHANGED guiRunning, IsOpen, DeskTop.kind = "box",
           NEW o, o.id = DeskTop.id, AnswerBox(o, NoObject)
    PROVE  Order' /\ active' = NoObject
<1>1. PopWindow(NoObject) /\ Forgotten /\ UNCHANGED idling /\ response' = DeskTop.id
  BY DEF Closes, AnswerBox, Forgotten
<1> QED
  BY <1>1, PopLayout, AnswerAsking DEF Order

LEMMA SettingsOrder ==
    ASSUME DeskBase, Order, UNCHANGED guiRunning, IsOpen, DeskTop.kind = "options",
           Opens("settings")
    PROVE  Order'
<1>1. /\ PushWindow("settings") /\ Noticed("settings") /\ UNCHANGED <<idling, response>>
      /\ "settings" \in Kinds \ {"box"}
  BY DEF Opens, Noticed, Kinds
<1> QED
  BY <1>1, PushLayout, PushAsking DEF Order

LEMMA ClickedOrder ==
    ASSUME DeskBase, Order, guiRunning, UNCHANGED guiRunning, NEW o, Live(o), o.id = DeskTop.id,
           Clicked(o)
    PROVE  /\ Order'
           /\ \/ active' = NoObject
              \/ o.name = "ask" /\ UNCHANGED active /\ Len(idling') > Len(idling)
<1>0. IsOpen
  BY OwnWindow
<1>1. CASE o.name = "player" /\ Opens("settings") /\ active' = NoObject
  BY <1>0, <1>1, KindOfName, SettingsOrder
<1>2. CASE o.name = "close" /\ CloseOptions(NoObject)
  BY <1>0, <1>2, KindOfName, CloseOptionsOrder
<1>3. CASE o.name = "ask" /\ ShowBox /\ UNCHANGED active
  BY <1>0, <1>3, KindOfName, BoxAsking DEF Order
<1>4. CASE o.name = "ok" /\ Closes(NoObject) /\ UNCHANGED <<options, choosing, response>>
  BY <1>0, <1>4, KindOfName, CloseOrder
<1>5. CASE o.name = "answer" /\ AnswerBox(o, NoObject)
  BY <1>0, <1>5, KindOfName, AnswerOrder
<1>6. CASE o.name = "red" /\ ChooseTeam(NoObject)
  BY <1>0, <1>6, KindOfName, ChooseOrder
<1>7. CASE /\ active' = NoObject
           /\ UNCHANGED <<windows, opened, tip, tipShown, options, choosing, idling, response>>
  BY <1>7 DEF Order, Layout, Asking, Answered, IsOpen, DeskTop
<1> QED
  BY <1>1, <1>2, <1>3, <1>4, <1>5, <1>6, <1>7, ClickedIs

LEMMA ActiveIsOpen ==
    ASSUME DeskBase, active # NoObject
    PROVE  IsOpen /\ Live(active)
BY LiveIs DEF DeskBase, PointersOK

LEMMA SameOrder ==
    ASSUME DeskBase, Order, UNCHANGED <<idling, response, guiRunning, options, choosing>>,
           windows' \in Seq(Window), Len(windows') = Len(windows),
           \A k \in 1 .. Len(windows) :
              windows'[k].id = windows[k].id /\ windows'[k].kind = windows[k].kind
    PROVE  Order' /\ (DeskTop.id)' = DeskTop.id /\ (IsOpen' <=> IsOpen)
<1>1. windows \in Seq(Window) /\ Len(windows) \in Nat
  BY LenProperties DEF DeskBase, WindowsOK
<1>2. IsOpen' <=> IsOpen
  BY <1>1, EmptySeq DEF IsOpen
<1>3. CASE IsOpen
  <2>1. DeskTop = windows[Len(windows)] /\ Len(windows) \in 1 .. Len(windows)
    BY <1>3, TopIs DEF DeskBase
  <2>2. (DeskTop)' = windows'[Len(windows)]
    BY DEF DeskTop, Last
  <2>3. (DeskTop)'.id = DeskTop.id /\ (DeskTop)'.kind = DeskTop.kind /\ 1 \in 1 .. Len(windows)
    BY <2>1, <2>2
  <2>4. Layout'
    BY <1>1, <1>2, <2>3 DEF Order, Layout
  <2>5. Asking => Asking'
    BY OthersAsking
  <2> QED
    BY <1>2, <2>3, <2>4, <2>5 DEF Order
<1>4. CASE ~IsOpen
  <2>1. windows = << >> /\ windows' = << >>
    BY <1>2, <1>4 DEF IsOpen
  <2> QED
    BY <1>2, <2>1 DEF Order, Layout, Asking, Answered, IsOpen, DeskTop
<1> QED
  BY <1>3, <1>4

LEMMA MouseMoveCalm ==
    ASSUME DeskBase, Calm, NEW name \in Spots, NEW within \in BOOLEAN, MouseMove(name, within)
    PROVE  Calm'
BY DEF MouseMove, Listens, Elsewhere, Calm, Layout, Holding, Asking, Answered, DeskTop, IsOpen

LEMMA MouseDownCalm ==
    ASSUME DeskBase, Calm, NEW name \in Spots, NEW button \in {"left", "right"},
           MouseDown(button, name)
    PROVE  Calm'
<1>1. /\ UNCHANGED <<idling, response, options, choosing, surprised, guiRunning>>
      /\ down' = TRUE
  BY DEF MouseDown, Listens
<1>2. /\ windows' \in Seq(Window) /\ Len(windows') = Len(windows)
      /\ \A k \in 1 .. Len(windows) :
           windows'[k].id = windows[k].id /\ windows'[k].kind = windows[k].kind
      /\ active' = IF IsOpen THEN Under(name) ELSE active
  BY MouseDownBase DEF DeskBase, WindowsOK
<1>3. SUFFICES ASSUME ~surprised
               PROVE  Order' /\ Holding'
  BY <1>1 DEF Calm, Order
<1>4. Order
  BY <1>3 DEF Calm, Order
<1>5. Order' /\ (DeskTop.id)' = DeskTop.id
  BY <1>1, <1>2, <1>4, SameOrder
<1>6. active' # NoObject => active'.id = DeskTop.id
  BY <1>2, UnderIs, ActiveIsOpen
<1> QED
  BY <1>5, <1>6 DEF Holding

LEMMA MouseUpCalm ==
    ASSUME DeskBase, Calm, NEW name \in Spots, NEW button \in {"left", "right"},
           NEW hovered \in BOOLEAN, MouseUp(button, name, hovered)
    PROVE  Calm'
<1>1. /\ button \in pressed /\ pressed' = pressed \ {button} /\ UNCHANGED <<guiRunning, surprised>>
      /\ guiRunning
      /\ down' = (down /\ Len(idling') > Len(idling))
  BY MouseUpIs
<1>2. CASE active' = NoObject /\ UNCHANGED <<tip, tipShown>> /\ Elsewhere
  BY <1>1, <1>2 DEF Elsewhere, Calm, Layout, Holding, Asking, Answered, DeskTop, IsOpen
<1>3. CASE /\ button = "left" /\ Target(name) # NoObject /\ Clicked(Target(name))
           /\ Live(Target(name))
  <2>1. active' # NoObject => active' = active /\ Len(idling') > Len(idling)
    <3>1. CASE active' = active /\ ShowBox
      <4>1. Outrun \in Seq(Loop) /\ Len(Outrun) = Len(idling)
            /\ idling' = Append(Outrun, [counter |-> Len(windows), box |-> opened', outrun |-> FALSE])
        BY <3>1, OutrunIs DEF ShowBox
      <4>2. Len(idling') = Len(idling) + 1 /\ Len(idling) \in Nat
        BY <4>1, OutrunIs, AppendProperties
      <4> QED
        BY <3>1, <4>2
    <3>2. CASE active' = NoObject
      BY <3>2
    <3>3. active' = NoObject \/ (active' = active /\ ShowBox)
      BY <1>3, ClickedIs
      DEF Closes, CloseOptions, AnswerBox, ChooseTeam, PopWindow
    <3> QED
      BY <3>1, <3>2, <3>3
  <2>2. active' # NoObject => down'
    BY <1>1, <2>1 DEF Calm
  <2>3. ASSUME ~surprised
        PROVE  Order' /\ Holding'
    <3>1. Order /\ Holding
      BY <2>3 DEF Calm, Order
    <3>2. Target(name).id = DeskTop.id
      BY <1>1, <1>3, <3>1, UnderIs DEF Target, Holding
    <3>3. /\ Order'
          /\ active' = NoObject \/ (Target(name).name = "ask" /\ active' = active)
      BY <1>1, <1>3, <3>1, <3>2, ClickedOrder
    <3>4. active' # NoObject => Target(name) = active
      BY <3>3, <2>2, <1>1 DEF Target
    <3>5. "left" \notin pressed'
      BY <1>1, <1>3
    <3> QED
      BY <3>3, <3>4, <3>5 DEF Holding
  <2> QED
    BY <1>1, <2>2, <2>3 DEF Calm, Order
<1> QED
  BY <1>2, <1>3, MouseUpIs

LEMMA EscapeCalm ==
    ASSUME DeskBase, Calm, Escape
    PROVE  Calm'
<1>1. UNCHANGED <<pressed, down, inside, surprised, broken, guiRunning>>
  BY DEF Escape, Listens
<1>2. CASE ~IsOpen
  <2>1. /\ PushWindow("options") /\ options' = opened' /\ UNCHANGED <<active, choosing, idling, response>>
        /\ Noticed("options") /\ "options" \in Kinds \ {"box"}
    BY <1>2 DEF Escape, Noticed, Kinds
  <2>2. active = NoObject
    BY <1>2, ActiveIsOpen
  <2> QED
    BY <1>1, <2>1, <2>2, PushLayout, PushAsking DEF Calm, Holding
<1>3. CASE IsOpen
  <2>1. \/ DeskTop.kind = "options" /\ CloseOptions(active)
        \/ /\ DeskTop.kind = "settings" /\ Closes(active)
           /\ UNCHANGED <<options, choosing, response>>
    BY <1>3 DEF Escape
  <2>2. active' \in {active, NoObject}
    BY <2>1 DEF CloseOptions, Closes, PopWindow
  <2>3. ASSUME ~surprised PROVE Order' /\ active' = NoObject
    <3>1. Order
      BY <2>3 DEF Calm, Order
    <3> QED
      BY <1>1, <1>3, <2>1, <3>1, CloseOptionsOrder, CloseOrder
  <2> QED
    BY <1>1, <1>3, <2>2, <2>3 DEF Calm, Order, Holding
<1> QED
  BY <1>2, <1>3

LEMMA NavigateCalm ==
    ASSUME DeskBase, Calm, NEW name \in {"player", "close", "red"}, Navigate(name)
    PROVE  Calm'
<1>1. UNCHANGED <<pressed, down, inside, broken, guiRunning>> /\ IsOpen
  BY DEF Navigate, Listens
<1>2. /\ DeskTop.kind \in {"options", "team"} /\ name \in Contents[DeskTop.kind]
  BY DEF Navigate
<1>3. /\ name \in {"player", "close"} => DeskTop.kind = "options"
      /\ name = "red" => DeskTop.kind = "team"
  BY <1>2, ContentsAre
<1>4. CASE name = "player"
  <2>1. Opens("settings") /\ UNCHANGED active /\ Surprise
    BY <1>4 DEF Navigate
  <2>2. ASSUME ~surprised' PROVE Order' /\ active = NoObject
    <3>1. ~surprised /\ ~(down /\ active # NoObject)
      BY <2>1, <2>2 DEF Surprise
    <3>2. Order
      BY <3>1 DEF Calm, Order
    <3> QED
      BY <1>1, <1>3, <1>4, <2>1, <3>1, <3>2, SettingsOrder DEF Calm
  <2> QED
    BY <1>1, <2>1, <2>2 DEF Calm, Order, Holding
<1>5. CASE name # "player"
  <2>1. UNCHANGED surprised
        /\ \/ name = "close" /\ CloseOptions(active)
           \/ name = "red" /\ ChooseTeam(active)
    BY <1>5 DEF Navigate
  <2>2. ASSUME ~surprised PROVE Order' /\ active' = NoObject
    <3>1. Order
      BY <2>2 DEF Calm, Order
    <3> QED
      BY <1>1, <1>3, <2>1, <3>1, CloseOptionsOrder, ChooseOrder
  <2>3. active' \in {active, NoObject}
    BY <2>1 DEF CloseOptions, ChooseTeam, Closes, PopWindow
  <2> QED
    BY <1>1, <2>1, <2>2, <2>3 DEF Calm, Order, Holding
<1> QED
  BY <1>4, <1>5

(* A question whose loop ends while the program goes on was answered.      *)
LEMMA AnsweredBefore ==
    ASSUME DeskBase, Calm, BoxReturns, guiRunning, ~surprised
    PROVE  /\ Answered(Last(idling)) /\ Last(idling).box <= response
           /\ \A k \in 1 .. Len(windows) : windows[k].kind # "box"
<1>1. Asking /\ idling # << >> /\ Len(windows) <= Last(idling).counter
  BY DEF Calm, BoxReturns
<1>2. Last(idling) \in Loop
  <2>1. Last(idling) = idling[Len(idling)] /\ Len(idling) \in 1 .. Len(idling)
    BY BoxReturnsBase
  <2> QED
    BY <2>1, ElementOfSeq DEF DeskBase, LoopsOK
<1>3. Len(windows) \in Nat /\ response \in Nat /\ Last(idling).box \in Nat
      /\ Last(idling).counter \in Nat
  BY <1>2, LenProperties DEF DeskBase, WindowsOK, LoopsOK, Loop
<1>4. \A k \in 1 .. Len(windows) : ~(k > Last(idling).counter)
  BY <1>1, <1>3
<1>5. \A k \in 1 .. Len(windows) : windows[k].kind # "box"
  BY <1>1, <1>4 DEF Asking
<1>6. Answered(Last(idling))
  BY <1>1, <1>5 DEF Asking
<1> QED
  BY <1>3, <1>5, <1>6 DEF Answered

LEMMA BoxReturnsCalm ==
    ASSUME DeskBase, Calm, BoxReturns
    PROVE  Calm'
<1>1. /\ UNCHANGED <<windows, pressed, response, guiRunning, options, choosing, surprised>>
      /\ active' = NoObject
  BY DEF BoxReturns
<1>2. /\ Len(idling) \in Nat \ {0} /\ Len(idling') = Len(idling) - 1
      /\ \A k \in 1 .. Len(idling') : idling'[k] = idling[k] /\ k \in 1 .. Len(idling)
      /\ idling' \in Seq(Loop)
  BY BoxReturnsBase DEF DeskBase, LoopsOK
<1>3. ASSUME ~surprised, guiRunning PROVE Asking'
  <2>1. Asking /\ \A k \in 1 .. Len(windows) : windows[k].kind # "box"
    BY <1>3, AnsweredBefore DEF Calm
  <2>2. \A k \in 1 .. Len(idling') : idling'[k].outrun
    BY <1>2, <2>1 DEF Asking
  <2>3. ASSUME idling' # << >> PROVE Answered(Last(idling))'
    <3>1. Last(idling)' = idling'[Len(idling')] /\ Len(idling') \in 1 .. Len(idling')
      BY <1>2, <2>3, EmptySeq DEF Last
    <3>2. /\ Last(idling)' = idling[Len(idling')] /\ Len(idling') \in 1 .. Len(idling)
          /\ Last(idling) = idling[Len(idling)] /\ Len(idling) \in 1 .. Len(idling)
          /\ Len(idling') < Len(idling)
      BY <1>2, <3>1, BoxReturnsBase
    <3>3. (Last(idling)').box < Last(idling).box
      BY <3>2 DEF DeskBase, LoopsOK
    <3>4. Last(idling).box <= response /\ response \in Nat
      BY <1>3, AnsweredBefore DEF DeskBase, LoopsOK, WindowsOK
    <3>5. (Last(idling)').box \in Nat /\ Last(idling).box \in Nat
      BY <3>2, ElementOfSeq DEF DeskBase, LoopsOK, Loop
    <3>6. response > (Last(idling)').box /\ (Last(idling)').outrun
      BY <2>2, <3>1, <3>3, <3>4, <3>5
    <3> QED
      BY <1>1, <3>6 DEF Answered
  <2> QED
    BY <1>1, <2>1, <2>2, <2>3 DEF Asking
<1> QED
  BY <1>1, <1>3 DEF Calm, Layout, Holding, DeskTop, IsOpen

LEMMA IdleCalm ==
    ASSUME DeskBase, Calm, JoinRequest \/ ServerMessage \/ TournamentEnds
    PROVE  Calm'
<1>1. /\ UNCHANGED <<pressed, down, options, idling, response, guiRunning>>
      /\ ~surprised' => ~surprised /\ ~(down /\ active # NoObject)
  BY DEF JoinRequest, ServerMessage, TournamentEnds, IdleTurn, boxes, Surprise
<1>2. active' \in {active, NoObject}
  BY DEF JoinRequest, ServerMessage, TournamentEnds, PopWindow
<1>3. ASSUME ~surprised' PROVE Order' /\ active' = NoObject
  <2>1. Order /\ active = NoObject
    BY <1>1, <1>3 DEF Calm, Order
  <2>2. CASE JoinRequest
    <3>1. /\ PushWindow("team") /\ "team" \in Kinds \ {"box"} /\ choosing = FALSE /\ choosing' = TRUE
      BY <2>2 DEF JoinRequest, Kinds, DeskBase, FlagsOK
    <3>2. Noticed("team")
      BY <1>1, <3>1 DEF Noticed
    <3> QED
      BY <1>1, <1>2, <2>1, <3>1, <3>2, PushLayout, PushAsking DEF Order
  <2>3. CASE ServerMessage
    <3>1. /\ PushWindow("message") /\ "message" \in Kinds \ {"box"} /\ UNCHANGED choosing
          /\ choosing = FALSE
      BY <1>3, <2>3 DEF ServerMessage, Kinds, DeskBase, FlagsOK
    <3>2. Noticed("message")
      BY <1>1, <3>1 DEF Noticed
    <3> QED
      BY <1>1, <1>2, <2>1, <3>1, <3>2, PushLayout, PushAsking DEF Order
  <2>4. CASE TournamentEnds
    <3>1. PopWindow(active) /\ choosing' = FALSE /\ choosing
      BY <2>4 DEF TournamentEnds
    <3>2. IsOpen /\ DeskTop.kind = "team"
      BY <2>1, <3>1 DEF Order, Layout
    <3>3. Forgotten
      BY <1>1, <3>1, <3>2 DEF Forgotten
    <3> QED
      BY <1>1, <2>1, <3>1, <3>2, <3>3, PopLayout, PopAsking DEF Order
  <2> QED
    BY <2>2, <2>3, <2>4
<1>4. active' # NoObject => down'
  BY <1>1, <1>2 DEF Calm
<1> QED
  BY <1>3, <1>4 DEF Calm, Order, Holding

LEMMA RefreshOptionsCalm ==
    ASSUME DeskBase, Calm, RefreshOptions
    PROVE  Calm'
<1>1. UNCHANGED <<pressed, active, down, options, choosing, surprised, idling, response, guiRunning>>
  BY DEF RefreshOptions, IdleTurn, boxes, pointers
<1>2. /\ Len(windows') = Len(windows) /\ windows' \in Seq(Window)
      /\ \A k \in 1 .. Len(windows) :
            windows'[k].id = windows[k].id /\ windows'[k].kind = windows[k].kind
  BY RefreshOptionsBase DEF DeskBase, WindowsOK
<1>3. ASSUME ~surprised PROVE Order' /\ Holding'
  <2>1. Order /\ Holding
    BY <1>3 DEF Calm, Order
  <2>2. Order' /\ (DeskTop.id)' = DeskTop.id
    BY <1>1, <1>2, <2>1, SameOrder
  <2> QED
    BY <1>1, <2>1, <2>2 DEF Holding
<1> QED
  BY <1>1, <1>3 DEF Calm, Order

LEMMA SoundInit == DeskInit => DeskSound
<1> SUFFICES ASSUME DeskInit PROVE DeskSound
  OBVIOUS
<1>1. Calm
  BY DEF DeskInit, Calm, Layout, Holding, Asking
<1> QED
  BY <1>1, BaseInit DEF DeskSound

LEMMA SoundStep == DeskSound /\ [DeskNext]_desk => DeskSound'
<1> SUFFICES ASSUME DeskSound, [DeskNext]_desk PROVE Calm'
  BY BaseStep DEF DeskSound
<1> USE DEF DeskSound
<1>1. CASE UNCHANGED desk \/ Quits
  BY <1>1 DEF Quits, desk, pointers, boxes, Calm, Layout, Holding, Asking, Answered, DeskTop, IsOpen
<1>2. CASE \E text \in BOOLEAN : IdleTooltip(text)
  BY <1>2 DEF IdleTooltip, IdleTurn, boxes, Calm, Layout, Holding, Asking, Answered, DeskTop, IsOpen
<1> QED
  BY <1>1, <1>2, MouseMoveCalm, MouseDownCalm, MouseUpCalm, EscapeCalm, NavigateCalm,
     BoxReturnsCalm, IdleCalm, RefreshOptionsCalm DEF DeskNext

LEMMA SoundGivesMatch == DeskSound => WindowsMatch
<1> SUFFICES ASSUME DeskSound, ~surprised
             PROVE  /\ {w.id : w \in {v \in Range(windows) : v.kind = "options"}} = {options} \ {0}
                    /\ choosing = \E w \in Range(windows) : w.kind = "team"
  BY DEF WindowsMatch
<1>1. Layout /\ choosing \in BOOLEAN
  BY DEF DeskSound, Calm, DeskBase, FlagsOK
<1>2. windows \in Seq(Window) /\ Len(windows) \in Nat /\ DOMAIN windows = 1 .. Len(windows)
  BY LenProperties DEF DeskSound, DeskBase, WindowsOK
<1>3. Range(windows) = {windows[k] : k \in 1 .. Len(windows)}
  BY <1>2 DEF Range
<1>4. IsOpen => /\ 1 \in 1 .. Len(windows) /\ Len(windows) \in 1 .. Len(windows)
                /\ DeskTop = windows[Len(windows)]
  BY TopIs DEF DeskSound, DeskBase
<1>5. {w.id : w \in {v \in Range(windows) : v.kind = "options"}} = {options} \ {0}
  <2>1. \A w \in Range(windows) : w.kind = "options" => w.id = options /\ w.id # 0
    BY <1>1, <1>3 DEF Layout, DeskSound, DeskBase, WindowsOK
  <2>2. options # 0 => \E w \in Range(windows) : w.kind = "options" /\ w.id = options
    BY <1>1, <1>3, <1>4 DEF Layout, DeskSound, DeskBase, OptionsOK
  <2> QED
    BY <2>1, <2>2
<1>6. choosing <=> \E w \in Range(windows) : w.kind = "team"
  BY <1>1, <1>3, <1>4 DEF Layout
<1> QED
  BY <1>1, <1>5, <1>6

(* Only an idle loop that ends leaves the stack of the loops.              *)
LEMMA LoopsEnd ==
    ASSUME DeskBase, [DeskNext]_desk, Len(idling') < Len(idling)
    PROVE  BoxReturns
<1>1. Len(idling) \in Nat
  BY LenProperties DEF DeskBase, LoopsOK
<1>2. idling' # idling
  BY <1>1
<1>3. ~ShowBox
  <2> SUFFICES ASSUME ShowBox PROVE FALSE
    OBVIOUS
  <2>1. Len(idling') = Len(Outrun) + 1 /\ Outrun \in Seq(Loop)
    BY OutrunIs, AppendProperties DEF ShowBox
  <2>2. Len(idling') = Len(idling) + 1
    BY <2>1, OutrunIs
  <2> QED
    BY <1>1, <2>2
<1>4. \A o : ~Clicked(o)
  BY <1>2, <1>3, ClickedIs DEF Opens, CloseOptions, Closes, AnswerBox, ChooseTeam
<1> QED
  BY <1>2, <1>3, <1>4
  DEF DeskNext, desk, pointers, boxes, MouseMove, MouseDown, MouseUp, Elsewhere, Escape, Opens,
      CloseOptions, Closes, ChooseTeam, Quits, JoinRequest, ServerMessage, TournamentEnds,
      RefreshOptions, Navigate, IdleTooltip, IdleTurn

LEMMA SoundGivesAnswers ==
    DeskSound /\ [DeskNext]_desk =>
       (Len(idling') < Len(idling) /\ guiRunning /\ ~surprised =>
          IF Last(idling).outrun THEN response > Last(idling).box ELSE response = Last(idling).box)
<1> SUFFICES ASSUME DeskSound, [DeskNext]_desk, Len(idling') < Len(idling), guiRunning, ~surprised
             PROVE  Answered(Last(idling))
  BY DEF Answered
<1> QED
  BY LoopsEnd, AnsweredBefore DEF DeskSound

(* The options menu and the tournament know whether their window is open,  *)
(* as long as no window came or went under a held button and none came     *)
(* over the window to choose a team.                                       *)
THEOREM MatchCorrect == DeskSpec => []WindowsMatch
BY SoundInit, SoundStep, SoundGivesMatch, PTL DEF DeskSpec

(* As long as no window surprises the player and the program does not      *)
(* quit: a question returns its own answer, and a later one's only if that *)
(* was asked when this one was answered and had not returned.              *)
THEOREM AnswersCorrect == DeskSpec => NoStaleAnswer
<1>1. DeskSpec => []DeskSound
  BY SoundInit, SoundStep, PTL DEF DeskSpec
<1>2. DeskSound /\ [DeskNext]_desk =>
         [Len(idling') < Len(idling) /\ guiRunning /\ ~surprised =>
            IF Last(idling).outrun THEN response > Last(idling).box
            ELSE response = Last(idling).box]_desk
  BY SoundGivesAnswers
<1> QED
  BY <1>1, <1>2, PTL DEF DeskSpec, NoStaleAnswer

-----------------------------------------------------------------------------
(***************************************************************************)
(* The list of servers.  BrowserSound is inductive: no two objects have    *)
(* the same address, the hosts are in the order of the present sorter,     *)
(* every row is of an object unless the list is stale, and the selected    *)
(* entry is the address of an object of the server that the player         *)
(* selected, unless he did so in a stale list.                             *)
(***************************************************************************)

-----------------------------------------------------------------------------
(* Lists of hosts.                                                         *)

Host == [id : Nat \ {0}, of : Servers, ping : Nat, received : BOOLEAN, age : Nat]
Heard == [of : Servers, age : Nat]
ListRow == [id : Nat \ {0}, of : Servers]
Listboxes == [entries : Seq(ListRow), selected : Int, top : Int, max : Int, value : Int]
Orderings == [column : 0 .. 4, up : BOOLEAN]

(* Every server is in s once, or every one that announces a valid port.    *)
Once(s, all) ==
    \A j, k \in DOMAIN s : s[j].of = s[k].of /\ (all \/ s[k].of.valid_port) => j = k
InOrder(order, s) == \A j, k \in DOMAIN s : j < k => ~Before(order, s[k], s[j])

(* t has the objects of s, each once: at k the one at f[k].                *)
Shuffles(t, s, f) ==
    /\ f \in [DOMAIN t -> DOMAIN s]
    /\ \A j, k \in DOMAIN t : f[j] = f[k] => j = k
    /\ \A j \in DOMAIN s : \E k \in DOMAIN t : f[k] = j
    /\ \A k \in DOMAIN t : t[k].of = s[f[k]].of /\ t[k].id = s[f[k]].id

LEMMA SortedIs ==
    ASSUME NEW s \in Seq(Host), NEW order, NEW t \in Sorted(s, order)
    PROVE  t \in Seq(Host) /\ InOrder(order, t) /\ \E f : Shuffles(t, s, f)
<1>1. PICK p \in Orders(s, order) : t = [k \in DOMAIN s |-> s[p[k]]]
  BY DEF Sorted
<1>2. DOMAIN s = 1 .. Len(s) /\ Len(s) \in Nat
  BY LenProperties
<1>3. /\ p \in [DOMAIN s -> DOMAIN s]
      /\ \A j, k \in DOMAIN s : j < k => p[j] # p[k] /\ ~Before(order, s[p[k]], s[p[j]])
  BY DEF Orders
<1>4. DOMAIN t = DOMAIN s /\ \A k \in DOMAIN s : t[k] = s[p[k]]
  BY <1>1
<1>5. t \in Seq(Host)
  <2>1. \A k \in DOMAIN s : s[p[k]] \in Host
    BY <1>2, <1>3, ElementOfSeq
  <2> QED
    BY <1>1, <1>2, <2>1
<1>6. \A j, k \in DOMAIN s : p[j] = p[k] => j = k
  <2> SUFFICES ASSUME NEW j \in DOMAIN s, NEW k \in DOMAIN s, j # k
               PROVE  p[j] # p[k]
    OBVIOUS
  <2>1. j < k \/ k < j
    BY <1>2
  <2> QED
    BY <1>3, <2>1
<1>7. \A j \in DOMAIN s : \E k \in DOMAIN s : p[k] = j
  <2>1. p \in Injection(DOMAIN s, DOMAIN s)
    BY <1>3, <1>6 DEF Injection, IsInjective
  <2>2. IsFiniteSet(DOMAIN s)
    BY <1>2, FS_Interval
  <2>3. p \in Surjection(DOMAIN s, DOMAIN s)
    BY <2>1, <2>2, FS_Injection
  <2> QED
    BY <2>3 DEF Surjection
<1>8. Shuffles(t, s, p)
  BY <1>3, <1>4, <1>6, <1>7 DEF Shuffles
<1>9. InOrder(order, t)
  BY <1>3, <1>4 DEF InOrder
<1> QED
  BY <1>5, <1>8, <1>9

LEMMA RecentIs ==
    ASSUME NEW S, NEW s \in Seq(S)
    PROVE  /\ Recent(s) \in Seq(S)
           /\ \E f : /\ f \in [DOMAIN Recent(s) -> DOMAIN s]
                     /\ \A k \in DOMAIN Recent(s) : Recent(s)[k] = s[f[k]]
                     /\ \A j, k \in DOMAIN Recent(s) : j < k => f[j] < f[k]
                     /\ \A j, k \in DOMAIN Recent(s) : f[j] = f[k] => j = k
<1> DEFINE K == {k \in DOMAIN s : ~Old(s[k])}
           c == Cardinality(K)
           f == [n \in 1 .. c |-> NthOf(K, n)]
           t == Only(s, K)
<1>1. K \in SUBSET DOMAIN s /\ t = Recent(s)
  BY DEF Recent
<1> HIDE DEF K, t
<1>2. /\ t \in Seq(S) /\ Len(t) = c
      /\ \A n \in 1 .. c : t[n] = s[NthOf(K, n)] /\ NthOf(K, n) \in K
      /\ \A m, n \in 1 .. c : m # n => NthOf(K, m) # NthOf(K, n)
      /\ \A m, n \in 1 .. c : m < n => NthOf(K, m) < NthOf(K, n)
  BY <1>1, OnlyIs DEF t
<1>3. DOMAIN t = 1 .. c
  BY <1>2
<1>4. f \in [1 .. c -> DOMAIN s] /\ \A n \in 1 .. c : f[n] = NthOf(K, n)
  BY <1>1, <1>2
<1> HIDE DEF f, c
<1>5. /\ f \in [DOMAIN t -> DOMAIN s]
      /\ \A k \in DOMAIN t : t[k] = s[f[k]]
      /\ \A j, k \in DOMAIN t : j < k => f[j] < f[k]
      /\ \A j, k \in DOMAIN t : f[j] = f[k] => j = k
  BY <1>2, <1>3, <1>4
<1> QED
  BY <1>1, <1>2, <1>5

LEMMA RecentHeard ==
    ASSUME NEW s \in Seq(Heard), Once(s, FALSE)
    PROVE  Recent(s) \in Seq(Heard) /\ Once(Recent(s), FALSE)
<1> DEFINE t == Recent(s)
<1>1. t \in Seq(Heard)
  BY RecentIs
<1>2. PICK f : /\ f \in [DOMAIN t -> DOMAIN s]
               /\ \A k \in DOMAIN t : t[k] = s[f[k]]
               /\ \A j, k \in DOMAIN t : f[j] = f[k] => j = k
  BY RecentIs
<1> HIDE DEF t
<1>3. Once(t, FALSE)
  BY <1>2 DEF Once
<1> QED
  BY <1>1, <1>3 DEF t

(* Time passes for records and hosts.                                      *)
LEMMA OlderHeard ==
    ASSUME NEW s \in Seq(Heard), Once(s, FALSE)
    PROVE  Older(s) \in Seq(Heard) /\ Once(Older(s), FALSE)
<1>1. DOMAIN s = 1 .. Len(s) /\ Len(s) \in Nat /\ \A k \in DOMAIN s : s[k] \in Heard
  BY LenProperties, ElementOfSeq
<1>2. /\ DOMAIN Older(s) = DOMAIN s
      /\ \A k \in DOMAIN s :
           Older(s)[k] = IF Old(s[k]) THEN s[k] ELSE [s[k] EXCEPT !.age = s[k].age + 1]
  BY DEF Older
<1>3. \A k \in DOMAIN s : Older(s)[k] \in Heard /\ Older(s)[k].of = s[k].of
  BY <1>1, <1>2 DEF Heard
<1>4. Older(s) \in Seq(Heard)
  <2>1. Older(s) = [k \in 1 .. Len(s) |-> Older(s)[k]]
    BY <1>1 DEF Older
  <2> QED
    BY <1>1, <1>3, <2>1
<1> QED
  BY <1>2, <1>3, <1>4 DEF Once

LEMMA OlderHosts ==
    ASSUME NEW s \in Seq(Host), NEW order
    PROVE  /\ Older(s) \in Seq(Host)
           /\ \E f : Shuffles(Older(s), s, f)
           /\ InOrder(order, s) => InOrder(order, Older(s))
<1>1. DOMAIN s = 1 .. Len(s) /\ Len(s) \in Nat /\ \A k \in DOMAIN s : s[k] \in Host
  BY LenProperties, ElementOfSeq
<1>2. /\ DOMAIN Older(s) = DOMAIN s
      /\ \A k \in DOMAIN s :
           Older(s)[k] = IF Old(s[k]) THEN s[k] ELSE [s[k] EXCEPT !.age = s[k].age + 1]
  BY DEF Older
<1>3. \A k \in DOMAIN s : /\ Older(s)[k] \in Host
                          /\ Older(s)[k].of = s[k].of /\ Older(s)[k].id = s[k].id
                          /\ Older(s)[k].received = s[k].received /\ Older(s)[k].ping = s[k].ping
  BY <1>1, <1>2 DEF Host
<1>4. Older(s) \in Seq(Host)
  <2>1. Older(s) = [k \in 1 .. Len(s) |-> Older(s)[k]]
    BY <1>1 DEF Older
  <2> QED
    BY <1>1, <1>3, <2>1
<1>5. Shuffles(Older(s), s, [k \in DOMAIN s |-> k])
  BY <1>2, <1>3 DEF Shuffles
<1>6. \A j, k \in DOMAIN s :
        Before(order, Older(s)[k], Older(s)[j]) = Before(order, s[k], s[j])
  <2>1. ASSUME NEW k \in DOMAIN s, NEW a PROVE KeyOf(Older(s)[k], a) = KeyOf(s[k], a)
    <3> DEFINE g == Older(s)[k]
               h == s[k]
    <3>1. g.of = h.of /\ g.received = h.received /\ g.ping = h.ping
      BY <1>3
    <3> HIDE DEF g, h
    <3>2. KeyOf(g, a) = KeyOf(h, a)
      BY <3>1 DEF KeyOf
    <3> QED BY <3>2 DEF g, h
  <2> QED
    BY <2>1 DEF Before
<1> QED
  BY <1>2, <1>4, <1>5, <1>6 DEF InOrder

-----------------------------------------------------------------------------
(* The listbox.                                                            *)

Selectable(lb) == lb.selected \in -1 .. Len(lb.entries) - 1

(* b has the rows of a.                                                    *)
SameRows(b, a) == b \in Listboxes /\ b.entries = a.entries

LEMMA SelectIs ==
    ASSUME NEW lb \in Listboxes, NEW i \in Int
    PROVE  /\ SameRows(Select(lb, i), lb) /\ Selectable(Select(lb, i))
           /\ i < 0 => Select(lb, i).selected = -1
           /\ i \in 0 .. Len(lb.entries) - 1 => Select(lb, i).selected = i
<1> DEFINE n == Len(lb.entries)
           v == IF i < 0 THEN -1 ELSE IF i >= n THEN n - 1 ELSE i
<1>1. n \in Nat /\ lb.entries \in Seq(ListRow)
  BY LenProperties DEF Listboxes
<1>2. Select(lb, i) = [lb EXCEPT !.selected = v]
  BY DEF Select, Size
<1>3. v \in -1 .. n - 1 /\ v \in Int /\ (i < 0 => v = -1) /\ (i \in 0 .. n - 1 => v = i)
  BY <1>1
<1> HIDE DEF v
<1>4. /\ Select(lb, i) \in Listboxes
      /\ Select(lb, i).selected = v /\ Select(lb, i).entries = lb.entries
  BY <1>2, <1>3 DEF Listboxes
<1> QED
  BY <1>3, <1>4 DEF SameRows, Selectable

LEMMA SetTopIs ==
    ASSUME NEW lb \in Listboxes, NEW i \in Int
    PROVE  SameRows(SetTop(lb, i), lb) /\ SetTop(lb, i).selected = lb.selected
<1>1. Within(i, lb.max) \in Int
  BY DEF Within, Listboxes
<1> QED
  BY <1>1 DEF SetTop, SameRows, Listboxes

LEMMA ScrollToIs ==
    ASSUME NEW lb \in Listboxes, NEW v \in Int
    PROVE  SameRows(ScrollTo(lb, v), lb) /\ ScrollTo(lb, v).selected = lb.selected
<1>1. Within(v, lb.max) \in Int
  BY DEF Within, Listboxes
<1>2. CASE Within(v, lb.max) = lb.value
  BY <1>2 DEF ScrollTo, SameRows
<1>3. CASE Within(v, lb.max) # lb.value
  BY <1>1, <1>3, SetTopIs DEF ScrollTo
<1> QED
  BY <1>2, <1>3

LEMMA ClickRowIs ==
    ASSUME NEW lb \in Listboxes, NEW row \in Int
    PROVE  SameRows(ClickRow(lb, row), lb) /\ Selectable(ClickRow(lb, row))
<1>1. row + lb.top \in Int
  BY DEF Listboxes
<1> QED
  BY <1>1, SelectIs DEF ClickRow

LEMMA WheelIs ==
    ASSUME NEW lb \in Listboxes, Selectable(lb), NEW step \in Int
    PROVE  SameRows(Wheel(lb, step), lb) /\ Selectable(Wheel(lb, step))
<1> DEFINE index == IF lb.selected + step < 0 THEN 0 ELSE lb.selected + step
           up == IF index < lb.top THEN SetTop(lb, index) ELSE lb
           low == IF index - up.top >= Rows THEN SetTop(up, up.top + step) ELSE up
<1>1. index \in Int
  BY DEF Listboxes
<1>2. Wheel(lb, step) = IF lb.selected = -1 THEN lb ELSE Select(low, index)
  BY DEF Wheel
<1> HIDE DEF index
<1>3. SameRows(up, lb)
  BY <1>1, SetTopIs DEF SameRows
<1> HIDE DEF up
<1>4. SameRows(low, lb)
  <2>1. up \in Listboxes /\ up.top + step \in Int
    BY <1>3 DEF SameRows, Listboxes
  <2> QED
    BY <1>3, <2>1, SetTopIs DEF SameRows
<1> HIDE DEF low
<1>5. SameRows(Select(low, index), lb) /\ Selectable(Select(low, index))
  BY <1>1, <1>4, SelectIs DEF SameRows
<1> QED
  BY <1>2, <1>5 DEF SameRows

(* What MainMenu::idle puts into the listbox: nothing but the hosts.       *)
LEMMA FilledIs ==
    ASSUME list \in Listboxes, hosts \in Seq(Host)
    PROVE  /\ Filled \in Listboxes /\ Filled.selected = -1
           /\ \A i \in DOMAIN Filled.entries :
                \E k \in DOMAIN hosts : Filled.entries[i] = Row(hosts[k])
<1> DEFINE n == Len(hosts)
           R == {Row(hosts[k]) : k \in DOMAIN hosts}
           V == [entries : Seq(R), selected : {-1}, top : Int, max : Int, value : Int]
           Fill(i, q) == IF Shown(hosts[i]) THEN AddEntry(q, Row(hosts[i])) ELSE q
           g == [p \in (1 .. n) \X V |-> Fill(p[1], p[2])]
           all == CHOOSE f : f = [i \in 0 .. n |-> IF i = 0 THEN Clear(list) ELSE Fill(i, f[i - 1])]
<1>1. n \in Nat /\ DOMAIN hosts = 1 .. n /\ \A k \in DOMAIN hosts : hosts[k] \in Host
  BY LenProperties, ElementOfSeq
<1>2. R \subseteq ListRow
  BY <1>1 DEF Row, Host, ListRow
<1>3. \A i \in 1 .. n : Row(hosts[i]) \in R
  BY <1>1
<1> HIDE DEF R
<1>4. Clear(list) \in V
  <2>1. << >> \in Seq(R) /\ list.max \in Int /\ list.value \in Int
    BY DEF Listboxes
  <2>2. Clear(list) = [entries |-> << >>, selected |-> -1, top |-> 0, max |-> list.max, value |-> list.value]
    <3> DEFINE a == [list EXCEPT !.entries = << >>]
               b == [a EXCEPT !.top = 0]
               c == [b EXCEPT !.selected = -1]
    <3>1. a = [entries |-> << >>, selected |-> list.selected, top |-> list.top, max |-> list.max, value |-> list.value]
      BY DEF Listboxes
    <3>2. b = [entries |-> << >>, selected |-> list.selected, top |-> 0, max |-> list.max, value |-> list.value]
      <4> HIDE DEF a
      <4> QED BY <3>1
    <3>3. c = [entries |-> << >>, selected |-> -1, top |-> 0, max |-> list.max, value |-> list.value]
      <4> HIDE DEF b
      <4> QED BY <3>2
    <3>4. Clear(list) = c
      BY DEF Clear
    <3> QED
      BY <3>3, <3>4
  <2> QED
    BY <2>1, <2>2
<1>5. ASSUME NEW q \in V, NEW r \in R PROVE AddEntry(q, r) \in V
  <2> DEFINE rows == Append(q.entries, r)
             p == [q EXCEPT !.entries = rows]
             max == IF Len(rows) > Rows THEN Len(rows) - Rows ELSE 0
  <2>1. rows \in Seq(R) /\ Len(rows) \in Nat
    BY LenProperties
  <2>2. p \in V /\ p.entries = rows /\ p.value \in Int
    <3> HIDE DEF rows
    <3> QED BY <2>1
  <2>3. AddEntry(q, r) = Recalc(p) /\ Size(p) = Len(rows)
    BY <2>2 DEF AddEntry, Size
  <2> HIDE DEF p, rows
  <2>4. max \in Int /\ Within(p.value, max) \in Int
    BY <2>1, <2>2, ListboxAssumption DEF Within
  <2>5. Recalc(p) = [p EXCEPT !.max = max, !.value = Within(p.value, max)]
    BY <2>3 DEF Recalc
  <2> HIDE DEF max
  <2>6. Recalc(p) \in V
    BY <2>2, <2>4, <2>5
  <2> QED
    BY <2>3, <2>6
<1> HIDE DEF V
<1>6. \A i \in 1 .. n, q \in V : Fill(i, q) \in V
  BY <1>3, <1>5
<1> HIDE DEF Fill
<1>7. g \in [(1 .. n) \X V -> V] /\ \A i \in 1 .. n, q \in V : g[<<i, q>>] = Fill(i, q)
  BY <1>6
<1> HIDE DEF g
<1>8. \E f : f = [i \in 0 .. n |-> IF i = 0 THEN Clear(list) ELSE Fill(i, f[i - 1])]
  <2>1. PICK f \in [0 .. n -> V] : Stepwise(f, n, Clear(list), g)
    BY <1>1, <1>4, <1>7, StepsExist
  <2>2. f[0] = Clear(list) /\ \A i \in 1 .. n : f[i] = g[<<i, f[i - 1]>>]
    BY <2>1 DEF Stepwise
  <2>3. ASSUME NEW i \in 0 .. n
        PROVE  f[i] = IF i = 0 THEN Clear(list) ELSE Fill(i, f[i - 1])
    <3>1. CASE i = 0
      BY <2>2, <3>1
    <3>2. CASE i # 0
      <4>1. i \in 1 .. n /\ i - 1 \in 0 .. n
        BY <1>1, <3>2
      <4>2. f[i - 1] \in V
        BY <2>1, <4>1
      <4> QED
        BY <1>7, <2>2, <3>2, <4>1, <4>2
    <3> QED BY <3>1, <3>2
  <2>4. f = [i \in 0 .. n |-> IF i = 0 THEN Clear(list) ELSE Fill(i, f[i - 1])]
    BY <2>1, <2>3
  <2> QED BY <2>4
<1>9. all = [i \in 0 .. n |-> IF i = 0 THEN Clear(list) ELSE Fill(i, all[i - 1])]
  BY <1>8, Zenon
<1>10. Filled = all[n]
  BY DEF Filled, Fill
<1> HIDE DEF all
<1>11. all[0] = Clear(list) /\ \A i \in 1 .. n : all[i] = Fill(i, all[i - 1])
  BY <1>1, <1>9
<1>12. \A i \in 0 .. n : all[i] \in V
  <2>1. all[0] \in V
    BY <1>4, <1>11
  <2>2. \A i \in 1 .. n : all[i - 1] \in V => all[i] \in V
    BY <1>6, <1>11
  <2> QED
    BY <1>1, <2>1, <2>2, StepsStay
<1>13. Filled \in V
  BY <1>1, <1>10, <1>12
<1>14. Filled.entries \in Seq(R) /\ Filled \in Listboxes /\ Filled.selected = -1
  <2>1. Seq(R) \subseteq Seq(ListRow)
    BY <1>2
  <2> QED
    BY <1>13, <2>1 DEF V, Listboxes
<1> QED
  BY <1>14, ElementOfSeq DEF R

-----------------------------------------------------------------------------
(* The invariant.                                                          *)

BrowserTyped ==
    /\ records \in Seq(Heard) /\ hosts \in Seq(Host) /\ leaked \subseteq ListRow
    /\ sorting \in Orderings /\ (~undefined => sorting.column \in 0 .. 3)
    /\ list \in Listboxes /\ Selectable(list)
    /\ entry \in Nat /\ stale \in BOOLEAN /\ late \in BOOLEAN /\ undefined \in BOOLEAN

(* No two objects have the same address.                                   *)
Apart ==
    /\ \A j, k \in DOMAIN hosts : hosts[j].id = hosts[k].id => j = k
    /\ \A o, p \in leaked : o.id = p.id => o = p
    /\ \A o \in leaked, k \in DOMAIN hosts : o.id # hosts[k].id

(* A row is of a host that was deleted only before the next frame.         *)
RowsLive == ~stale => \A i \in DOMAIN list.entries : list.entries[i] \in Objects

(* The selected entry is an object of the server that the player selected, *)
(* unless he selected it in a stale list; where nothing is selected until  *)
(* then.                                                                   *)
EntryLive == entry # 0 /\ ~late => \E o \in Objects : o.id = entry /\ o.of \in picked
Unclicked == stale /\ ~late => list.selected = -1

BrowserSound ==
    /\ BrowserTyped
    /\ Once(records, FALSE) /\ Once(hosts, kind = "lan")
    /\ ~undefined => InOrder(sorting, hosts)
    /\ Apart /\ RowsLive /\ EntryLive /\ Unclicked /\ SelectionKept
    /\ box \subseteq Objects

LEMMA ObjectsUnique ==
    ASSUME Apart, NEW o \in Objects, NEW p \in Objects, o.id = p.id
    PROVE  o = p
<1>1. o \in leaked \/ \E k \in DOMAIN hosts : o = Row(hosts[k])
  BY DEF Objects
<1>2. p \in leaked \/ \E k \in DOMAIN hosts : p = Row(hosts[k])
  BY DEF Objects
<1>3. \A h : Row(h).id = h.id
  BY DEF Row
<1>4. CASE o \in leaked /\ p \in leaked
  BY <1>4 DEF Apart
<1>5. CASE o \in leaked /\ \E k \in DOMAIN hosts : p = Row(hosts[k])
  BY <1>3, <1>5 DEF Apart
<1>6. CASE p \in leaked /\ \E k \in DOMAIN hosts : o = Row(hosts[k])
  BY <1>3, <1>6 DEF Apart
<1>7. CASE /\ \E k \in DOMAIN hosts : o = Row(hosts[k])
           /\ \E k \in DOMAIN hosts : p = Row(hosts[k])
  BY <1>3, <1>7 DEF Apart
<1> QED
  BY <1>1, <1>2, <1>4, <1>5, <1>6, <1>7

(* The lists change in whatever way, and no object is deleted.             *)
LEMMA ObjectsStay ==
    ASSUME BrowserSound, Objects \subseteq Objects',
           records' \in Seq(Heard), Once(records, FALSE)',
           hosts' \in Seq(Host), leaked' \subseteq ListRow, Once(hosts, kind = "lan")', Apart',
           sorting' \in Orderings, undefined' \in BOOLEAN, ~undefined' => sorting'.column \in 0 .. 3,
           (~undefined => InOrder(sorting, hosts))', box' \subseteq Objects',
           UNCHANGED <<list, entry, picked, stale, late>>
    PROVE  BrowserSound'
<1>1. BrowserTyped'
  BY DEF BrowserSound, BrowserTyped, Selectable
<1>2. RowsLive'
  BY DEF BrowserSound, RowsLive
<1>3. EntryLive'
  BY DEF BrowserSound, EntryLive
<1>4. Unclicked' /\ SelectionKept'
  BY DEF BrowserSound, Unclicked, SelectionKept, Chosen
<1> QED
  BY <1>1, <1>2, <1>3, <1>4 DEF BrowserSound

(* The hosts are in another order, or have other attributes.               *)
LEMMA HostsMoved ==
    ASSUME BrowserSound, hosts' \in Seq(Host), NEW f, Shuffles(hosts', hosts, f),
           records' \in Seq(Heard), Once(records, FALSE)',
           sorting' \in Orderings, undefined' \in BOOLEAN, ~undefined' => sorting'.column \in 0 .. 3,
           ~undefined' => InOrder(sorting', hosts'),
           UNCHANGED <<leaked, kind, list, entry, picked, stale, late, box>>
    PROVE  BrowserSound'
<1>1. /\ f \in [DOMAIN hosts' -> DOMAIN hosts]
      /\ \A j, k \in DOMAIN hosts' : f[j] = f[k] => j = k
      /\ \A j \in DOMAIN hosts : \E k \in DOMAIN hosts' : f[k] = j
      /\ \A k \in DOMAIN hosts' : hosts'[k].of = hosts[f[k]].of /\ hosts'[k].id = hosts[f[k]].id
  BY DEF Shuffles
<1>2. \A k \in DOMAIN hosts' : Row(hosts'[k]) = Row(hosts[f[k]])
  BY <1>1 DEF Row
<1>3. Objects' = Objects
  <2>1. \A k \in DOMAIN hosts' : \E j \in DOMAIN hosts : Row(hosts'[k]) = Row(hosts[j])
    BY <1>1, <1>2
  <2>2. \A j \in DOMAIN hosts : \E k \in DOMAIN hosts' : Row(hosts'[k]) = Row(hosts[j])
    <3> SUFFICES ASSUME NEW j \in DOMAIN hosts
                 PROVE  \E k \in DOMAIN hosts' : Row(hosts'[k]) = Row(hosts[j])
      OBVIOUS
    <3>1. PICK k \in DOMAIN hosts' : f[k] = j
      BY <1>1
    <3> QED
      BY <1>2, <3>1
  <2>3. \A x : x \in Objects <=> x \in leaked \/ \E j \in DOMAIN hosts : x = Row(hosts[j])
    BY DEF Objects
  <2>4. \A x : x \in Objects' <=> x \in leaked \/ \E k \in DOMAIN hosts' : x = Row(hosts'[k])
    BY DEF Objects, Row
  <2>5. ASSUME NEW x, x \in Objects' PROVE x \in Objects
    <3>1. CASE x \in leaked
      BY <2>3, <3>1
    <3>2. CASE \E k \in DOMAIN hosts' : x = Row(hosts'[k])
      BY <2>1, <2>3, <3>2
    <3> QED
      BY <2>4, <2>5, <3>1, <3>2
  <2>6. ASSUME NEW x, x \in Objects PROVE x \in Objects'
    <3>1. CASE x \in leaked
      BY <2>4, <3>1
    <3>2. CASE \E j \in DOMAIN hosts : x = Row(hosts[j])
      BY <2>2, <2>4, <3>2
    <3> QED
      BY <2>3, <2>6, <3>1, <3>2
  <2> QED
    BY <2>5, <2>6
<1>4. Once(hosts, kind = "lan")'
  BY <1>1 DEF BrowserSound, Once
<1>5. Apart'
  BY <1>1 DEF BrowserSound, Apart
<1>6. leaked' \subseteq ListRow /\ box' \subseteq Objects'
  BY <1>3 DEF BrowserSound, BrowserTyped
<1>7. (~undefined => InOrder(sorting, hosts))'
  BY DEF InOrder
<1> QED
  BY <1>3, <1>4, <1>5, <1>6, <1>7, ObjectsStay

LEMMA BrowserInitSound == BrowserInit => BrowserSound
<1> SUFFICES ASSUME BrowserInit PROVE BrowserSound
  OBVIOUS
<1>1. /\ records = << >> /\ hosts = << >> /\ leaked = {}
      /\ sorting = [column |-> 0, up |-> TRUE] /\ list = NewList /\ entry = 0 /\ picked = {}
      /\ box = {} /\ stale = FALSE /\ late = FALSE /\ undefined = FALSE
  BY DEF BrowserInit
<1>2. list \in Listboxes /\ Selectable(list) /\ list.selected = -1 /\ list.entries = << >>
  BY <1>1 DEF NewList, Listboxes, Selectable
<1>3. BrowserTyped
  <2>1. << >> \in Seq(Heard) /\ << >> \in Seq(Host) /\ [column |-> 0, up |-> TRUE] \in Orderings
    BY DEF Orderings
  <2>2. sorting \in Orderings /\ sorting.column = 0
    BY <1>1, <2>1
  <2>3. records \in Seq(Heard) /\ hosts \in Seq(Host)
    BY <1>1, <2>1, Zenon
  <2>4. leaked \subseteq ListRow /\ entry \in Nat
    BY <1>1
  <2>5. sorting.column \in 0 .. 3
    BY <2>2
  <2>6. stale \in BOOLEAN /\ late \in BOOLEAN /\ undefined \in BOOLEAN
    BY <1>1, Zenon
  <2> QED
    BY <1>2, <2>2, <2>3, <2>4, <2>5, <2>6 DEF BrowserTyped
<1> QED
  BY <1>1, <1>2, <1>3
  DEF BrowserSound, Once, Apart, InOrder, RowsLive, EntryLive, Unclicked, SelectionKept

-----------------------------------------------------------------------------
(* The master server and the thread.                                       *)

LEMMA RecordIs ==
    ASSUME BrowserSound, NEW s \in Servers
    PROVE  Record(s) \in Seq(Heard) /\ Once(Record(s), FALSE)
<1>1. /\ records \in Seq(Heard) /\ Once(records, FALSE)
      /\ DOMAIN records = 1 .. Len(records) /\ Len(records) \in Nat
      /\ \A k \in DOMAIN records : records[k] \in Heard
  BY LenProperties, ElementOfSeq DEF BrowserSound, BrowserTyped
<1>2. [of |-> s, age |-> 0] \in Heard
  BY DEF Heard
<1>3. CASE Recorded(s)
  <2> DEFINE t == [k \in DOMAIN records |->
                    IF records[k].of = s THEN [of |-> s, age |-> 0] ELSE records[k]]
  <2>1. Record(s) = t
    BY <1>3 DEF Record
  <2>2. \A k \in DOMAIN records : t[k] \in Heard /\ t[k].of = records[k].of
    BY <1>1, <1>2
  <2>3. DOMAIN t = DOMAIN records
    OBVIOUS
  <2>4. t \in Seq(Heard)
    BY <1>1, <1>2
  <2> HIDE DEF t
  <2> QED
    BY <1>1, <2>1, <2>2, <2>3, <2>4 DEF Once
<1>4. CASE ~Recorded(s)
  <2> DEFINE r == [of |-> s, age |-> 0]
             t == Append(records, r)
  <2>1. Record(s) = t
    BY <1>4 DEF Record
  <2>2. r \in Heard /\ r.of = s
    BY <1>2
  <2> HIDE DEF r
  <2>3. /\ t \in Seq(Heard) /\ Len(t) = Len(records) + 1
        /\ \A k \in 1 .. Len(records) : t[k] = records[k]
        /\ t[Len(records) + 1] = r
    BY <1>1, <2>2, AppendProperties
  <2>4. DOMAIN t = 1 .. Len(records) + 1
    BY <2>3, LenProperties
  <2> HIDE DEF t
  <2>5. s.valid_port => \A k \in 1 .. Len(records) : records[k].of # s
    BY <1>1, <1>4 DEF Recorded
  <2>6. ASSUME NEW j \in DOMAIN t, NEW k \in DOMAIN t, t[j].of = t[k].of, t[k].of.valid_port
        PROVE  j = k
    <3>1. CASE j \in 1 .. Len(records) /\ k \in 1 .. Len(records)
      BY <1>1, <2>3, <2>6, <3>1 DEF Once
    <3>2. CASE j \in 1 .. Len(records) /\ k \notin 1 .. Len(records)
      <4>1. k = Len(records) + 1
        BY <1>1, <2>4, <3>2
      <4> QED BY <2>2, <2>3, <2>5, <2>6, <3>2, <4>1
    <3>3. CASE j \notin 1 .. Len(records) /\ k \in 1 .. Len(records)
      <4>1. j = Len(records) + 1
        BY <1>1, <2>4, <3>3
      <4> QED BY <2>2, <2>3, <2>5, <2>6, <3>3, <4>1
    <3>4. CASE j \notin 1 .. Len(records) /\ k \notin 1 .. Len(records)
      BY <1>1, <2>4, <3>4
    <3> QED BY <3>1, <3>2, <3>3, <3>4
  <2> QED
    BY <2>1, <2>3, <2>6 DEF Once
<1> QED
  BY <1>3, <1>4

(* Only the records change.                                                *)
LEMMA RecordsKept ==
    ASSUME BrowserSound, records' \in Seq(Heard), Once(records', FALSE),
           UNCHANGED <<found, view, choice, flow>>
    PROVE  BrowserSound'
<1>1. UNCHANGED <<hosts, leaked, kind, list, entry, picked, stale, late, sorting, box, undefined>>
  BY DEF found, view, choice, flow
<1>2. Once(records, FALSE)'
  BY DEF Once
<1>3. Shuffles(hosts', hosts, [k \in DOMAIN hosts |-> k])
  BY <1>1 DEF Shuffles
<1>4. /\ hosts \in Seq(Host) /\ sorting \in Orderings /\ undefined \in BOOLEAN
      /\ ~undefined => sorting.column \in 0 .. 3
      /\ ~undefined => InOrder(sorting, hosts)
  BY DEF BrowserSound, BrowserTyped
<1> QED
  BY <1>1, <1>2, <1>3, <1>4, HostsMoved

LEMMA HeartbeatSound ==
    ASSUME BrowserSound, NEW s \in Servers, Heartbeat(s)
    PROVE  BrowserSound'
<1>1. records' = Record(s) /\ UNCHANGED <<found, view, choice, flow>>
  BY DEF Heartbeat
<1> QED
  BY <1>1, RecordIs, RecordsKept

LEMMA KnownIs ==
    ASSUME BrowserSound
    PROVE  Known \in Seq(Heard) /\ Once(Known, FALSE)
BY RecentHeard DEF Known, BrowserSound, BrowserTyped

LEMMA DeleteOldSound ==
    ASSUME BrowserSound, DeleteOldEntries
    PROVE  BrowserSound'
<1>1. records' = Known /\ UNCHANGED <<found, view, choice, flow>>
  BY DEF DeleteOldEntries
<1> QED
  BY <1>1, KnownIs, RecordsKept

LEMMA TimePassesSound ==
    ASSUME BrowserSound, TimePasses
    PROVE  BrowserSound'
<1>1. /\ records' = Older(records) /\ hosts' = Older(hosts)
      /\ UNCHANGED <<leaked, kind, list, entry, picked, stale, late, sorting, box, undefined>>
  BY DEF TimePasses, view, choice, flow
<1>2. records' \in Seq(Heard) /\ Once(records', FALSE)
  BY <1>1, OlderHeard DEF BrowserSound, BrowserTyped
<1>3. /\ hosts' \in Seq(Host) /\ (InOrder(sorting, hosts) => InOrder(sorting, hosts'))
      /\ \E f : Shuffles(hosts', hosts, f)
  BY <1>1, OlderHosts DEF BrowserSound, BrowserTyped
<1>4. /\ sorting \in Orderings /\ undefined \in BOOLEAN
      /\ ~undefined => sorting.column \in 0 .. 3
      /\ ~undefined => InOrder(sorting, hosts)
  BY DEF BrowserSound, BrowserTyped
<1>5. Once(records, FALSE)'
  BY <1>2 DEF Once
<1> QED
  BY <1>1, <1>2, <1>3, <1>4, <1>5, HostsMoved

(* A host that is removed from the list keeps its object.                  *)
LEMMA RemoveOldSound ==
    ASSUME BrowserSound, RemoveOld
    PROVE  BrowserSound'
<1>1. PICK k \in DOMAIN hosts : hosts' = Only(hosts, DOMAIN hosts \ {k})
                                /\ leaked' = leaked \cup {Row(hosts[k])}
  BY DEF RemoveOld, Erased
<1>2. UNCHANGED <<records, kind, list, entry, picked, stale, late, sorting, box, undefined>>
      /\ ~undefined
  BY DEF RemoveOld, Thread, view, choice, flow
<1>3. /\ hosts \in Seq(Host) /\ records \in Seq(Heard) /\ sorting \in Orderings
      /\ leaked \subseteq ListRow /\ undefined \in BOOLEAN /\ sorting.column \in 0 .. 3
      /\ InOrder(sorting, hosts) /\ Once(records, FALSE) /\ Once(hosts, kind = "lan") /\ Apart
      /\ box \subseteq Objects
  BY <1>2 DEF BrowserSound, BrowserTyped
<1> DEFINE K == DOMAIN hosts \ {k}
           c == Cardinality(K)
           f == [n \in 1 .. c |-> NthOf(K, n)]
           t == Only(hosts, K)
<1>4. K \in SUBSET DOMAIN hosts /\ k \notin K /\ \A j \in DOMAIN hosts : j \in K \/ j = k
  OBVIOUS
<1>5. hosts' = t
  BY <1>1
<1> HIDE DEF K
<1>6. /\ t \in Seq(Host) /\ Len(t) = c
      /\ \A n \in 1 .. c : t[n] = hosts[NthOf(K, n)] /\ NthOf(K, n) \in K
      /\ \A m, n \in 1 .. c : m # n => NthOf(K, m) # NthOf(K, n)
      /\ \A m, n \in 1 .. c : m < n => NthOf(K, m) < NthOf(K, n)
      /\ \A j \in K : \E n \in 1 .. c : NthOf(K, n) = j
  <2> HIDE DEF t, f
  <2>1. t \in Seq(Host) /\ Len(t) = c /\ \A n \in 1 .. c : t[n] = hosts[NthOf(K, n)]
    BY <1>3, <1>4, OnlyIs DEF t
  <2>2. /\ \A n \in 1 .. c : NthOf(K, n) \in K
        /\ \A m, n \in 1 .. c : m # n => NthOf(K, m) # NthOf(K, n)
        /\ \A m, n \in 1 .. c : m < n => NthOf(K, m) < NthOf(K, n)
        /\ \A j \in K : \E n \in 1 .. c : NthOf(K, n) = j
    BY <1>3, <1>4, OnlyIs
  <2> QED
    BY <2>1, <2>2
<1> HIDE DEF t
<1>7. DOMAIN t = 1 .. c
  BY <1>6
<1>8. f \in [1 .. c -> DOMAIN hosts] /\ \A n \in 1 .. c : f[n] = NthOf(K, n)
  BY <1>4, <1>6
<1> HIDE DEF f, c
<1>9. /\ f \in [DOMAIN t -> DOMAIN hosts]
      /\ \A n \in DOMAIN t : t[n] = hosts[f[n]] /\ f[n] # k
      /\ \A m, n \in DOMAIN t : f[m] = f[n] => m = n
      /\ \A m, n \in DOMAIN t : m < n => f[m] < f[n]
      /\ \A j \in DOMAIN hosts : j = k \/ \E n \in DOMAIN t : f[n] = j
  BY <1>4, <1>6, <1>7, <1>8
<1>10. Objects \subseteq Objects'
  <2> SUFFICES ASSUME NEW o \in Objects PROVE o \in Objects'
    OBVIOUS
  <2>1. Objects' = {Row(t[n]) : n \in DOMAIN t} \cup (leaked \cup {Row(hosts[k])})
    BY <1>1, <1>5 DEF Objects, Row
  <2>2. CASE o \in leaked
    BY <2>1, <2>2
  <2>3. CASE \E j \in DOMAIN hosts : o = Row(hosts[j])
    <3>1. PICK j \in DOMAIN hosts : o = Row(hosts[j])
      BY <2>3
    <3>2. CASE j = k
      BY <2>1, <3>1, <3>2
    <3>3. CASE j # k
      <4>1. PICK n \in DOMAIN t : f[n] = j
        BY <1>9, <3>3
      <4>2. t[n] = hosts[j]
        BY <1>9, <4>1
      <4>3. o = Row(t[n])
        BY <3>1, <4>2
      <4> QED
        BY <2>1, <4>3
    <3> QED BY <3>2, <3>3
  <2> QED
    BY <2>2, <2>3 DEF Objects
<1>11. Row(hosts[k]) \in ListRow /\ \A h : Row(h).id = h.id
  <2>1. hosts[k] \in Host
    BY <1>3, ElementOfSeq, LenProperties
  <2> QED
    BY <2>1 DEF Row, Host, ListRow
<1>12. Once(hosts, kind = "lan")'
  BY <1>2, <1>3, <1>5, <1>9 DEF Once
<1>13. Apart'
  <2>1. \A m, n \in DOMAIN t : t[m].id = t[n].id => m = n
    BY <1>3, <1>9 DEF Apart
  <2>2. \A o \in leaked \cup {Row(hosts[k])}, n \in DOMAIN t : o.id # t[n].id
    BY <1>3, <1>9, <1>11 DEF Apart
  <2>3. \A o, p \in leaked \cup {Row(hosts[k])} : o.id = p.id => o = p
    BY <1>3, <1>11 DEF Apart
  <2> QED
    BY <1>1, <1>5, <2>1, <2>2, <2>3 DEF Apart
<1>14. InOrder(sorting, hosts)'
  BY <1>2, <1>3, <1>5, <1>9 DEF InOrder
<1>15. hosts' \in Seq(Host) /\ leaked' \subseteq ListRow /\ Once(records, FALSE)'
  BY <1>1, <1>2, <1>3, <1>5, <1>6, <1>11 DEF Once
<1> QED
  BY <1>2, <1>3, <1>10, <1>12, <1>13, <1>14, <1>15, ObjectsStay

LEMMA InfoIs ==
    ASSUME NEW i \in Nat \ {0}, NEW s \in Servers, NEW ping \in Nat, NEW r \in BOOLEAN
    PROVE  /\ Info(i, s, ping, r) \in Host
           /\ Info(i, s, ping, r).id = i /\ Info(i, s, ping, r).of = s
           /\ Info(i, s, ping, r).received = r
BY DEF Info, Host

(* A server that is in the list answers.                                   *)
LEMMA AnswerAgain ==
    ASSUME BrowserSound, NEW s \in Servers, NEW ping \in Nat, NEW k \in At(s),
           hosts' \in Sorted([hosts EXCEPT ![k] = Info(hosts[k].id, s, ping, TRUE)], sorting),
           UNCHANGED <<records, leaked, kind, list, entry, picked, stale, late, sorting, box, undefined>>
    PROVE  BrowserSound'
<1> DEFINE h == Info(hosts[k].id, s, ping, TRUE)
           t == [hosts EXCEPT ![k] = h]
<1>1. /\ hosts \in Seq(Host) /\ k \in DOMAIN hosts /\ hosts[k] \in Host /\ hosts[k].of = s
      /\ DOMAIN hosts = 1 .. Len(hosts) /\ Len(hosts) \in Nat
  BY ElementOfSeq, LenProperties DEF BrowserSound, BrowserTyped, At
<1>2. h \in Host /\ h.id = hosts[k].id /\ h.of = hosts[k].of
  <2>1. hosts[k].id \in Nat \ {0}
    BY <1>1 DEF Host
  <2>2. \A i \in Nat \ {0} : LET x == Info(i, s, ping, TRUE) IN x \in Host /\ x.id = i /\ x.of = s
    BY InfoIs
  <2> QED
    BY <1>1, <2>1, <2>2
<1> HIDE DEF h
<1>3. /\ t \in Seq(Host) /\ DOMAIN t = DOMAIN hosts
      /\ \A j \in DOMAIN hosts : t[j] = IF j = k THEN h ELSE hosts[j]
  BY <1>1, <1>2
<1>4. hosts' \in Sorted(t, sorting)
  BY DEF h
<1> HIDE DEF t
<1>5. hosts' \in Seq(Host) /\ InOrder(sorting, hosts') /\ \E f : Shuffles(hosts', t, f)
  BY <1>3, <1>4, SortedIs
<1>6. PICK f : Shuffles(hosts', t, f)
  BY <1>5
<1>7. Shuffles(hosts', hosts, f)
  BY <1>2, <1>3, <1>6 DEF Shuffles
<1>8. /\ sorting \in Orderings /\ undefined \in BOOLEAN /\ (~undefined => sorting.column \in 0 .. 3)
      /\ records \in Seq(Heard) /\ Once(records, FALSE)'
  BY DEF BrowserSound, BrowserTyped, Once
<1> QED
  BY <1>5, <1>7, <1>8, HostsMoved

(* A server of the LAN answers that is not in the list.                    *)
LEMMA AnswerFirst ==
    ASSUME BrowserSound, NEW s \in Servers, NEW ping \in Nat, At(s) = {}, NEW id \in Unused(Objects),
           hosts' \in Sorted(Append(hosts, Info(id, s, ping, TRUE)), sorting),
           UNCHANGED <<records, leaked, kind, list, entry, picked, stale, late, sorting, box, undefined>>
    PROVE  BrowserSound'
<1> DEFINE h == Info(id, s, ping, TRUE)
           t == Append(hosts, h)
           n == Len(hosts)
<1>1. /\ hosts \in Seq(Host) /\ leaked \subseteq ListRow /\ Apart
      /\ Once(hosts, kind = "lan") /\ box \subseteq Objects
      /\ DOMAIN hosts = 1 .. n /\ n \in Nat
  BY LenProperties DEF BrowserSound, BrowserTyped
<1>2. id \in Nat \ {0} /\ \A o \in Objects : o.id # id
  BY BrowserAssumption DEF Unused
<1>3. h \in Host /\ h.id = id /\ h.of = s
  <2> HIDE DEF t, n
  <2> QED
    BY <1>2 DEF Info, Host
<1>4. hosts' \in Sorted(t, sorting)
  OBVIOUS
<1> HIDE DEF h
<1>5. /\ t \in Seq(Host) /\ Len(t) = n + 1
      /\ \A k \in 1 .. n : t[k] = hosts[k]
      /\ t[n + 1] = h
  BY <1>1, <1>3, AppendProperties
<1>6. DOMAIN t = 1 .. n + 1
  BY <1>5, LenProperties
<1> HIDE DEF t, n
<1>7. /\ \A k \in 1 .. n : hosts[k].of # s /\ hosts[k].id # id
      /\ \A o \in leaked : o.id # id
  <2>1. \A k \in 1 .. n : hosts[k].of # s
    BY <1>1 DEF At
  <2>2. \A k \in DOMAIN hosts : Row(hosts[k]) \in Objects /\ Row(hosts[k]).id = hosts[k].id
    BY DEF Objects, Row
  <2>3. \A o \in leaked : o \in Objects
    BY DEF Objects
  <2> QED
    BY <1>1, <1>2, <2>1, <2>2, <2>3
<1>8. \A k \in DOMAIN t : k \in 1 .. n \/ k = n + 1
  BY <1>1, <1>6
<1>9. /\ \A j, k \in DOMAIN t : t[j].of = t[k].of /\ (kind = "lan" \/ t[k].of.valid_port) => j = k
      /\ \A j, k \in DOMAIN t : t[j].id = t[k].id => j = k
      /\ \A o \in leaked, k \in DOMAIN t : o.id # t[k].id
  <2>1. ASSUME NEW j \in DOMAIN t, NEW k \in DOMAIN t, t[j].of = t[k].of, kind = "lan" \/ t[k].of.valid_port
        PROVE  j = k
    <3>1. CASE j \in 1 .. n /\ k \in 1 .. n
      BY <1>1, <1>5, <2>1, <3>1 DEF Once
    <3>2. CASE ~(j \in 1 .. n /\ k \in 1 .. n)
      BY <1>3, <1>5, <1>7, <1>8, <2>1, <3>2
    <3> QED BY <3>1, <3>2
  <2>2. ASSUME NEW j \in DOMAIN t, NEW k \in DOMAIN t, t[j].id = t[k].id
        PROVE  j = k
    <3>1. CASE j \in 1 .. n /\ k \in 1 .. n
      BY <1>1, <1>5, <2>2, <3>1 DEF Apart
    <3>2. CASE ~(j \in 1 .. n /\ k \in 1 .. n)
      BY <1>3, <1>5, <1>7, <1>8, <2>2, <3>2
    <3> QED BY <3>1, <3>2
  <2>3. ASSUME NEW o \in leaked, NEW k \in DOMAIN t PROVE o.id # t[k].id
    <3>1. CASE k \in 1 .. n
      BY <1>1, <1>5, <3>1 DEF Apart
    <3>2. CASE ~(k \in 1 .. n)
      BY <1>3, <1>5, <1>7, <1>8, <3>2
    <3> QED BY <3>1, <3>2
  <2> QED BY <2>1, <2>2, <2>3
<1>10. hosts' \in Seq(Host) /\ InOrder(sorting, hosts') /\ \E f : Shuffles(hosts', t, f)
  BY <1>4, <1>5, SortedIs
<1>11. PICK f : Shuffles(hosts', t, f)
  BY <1>10
<1>12. /\ f \in [DOMAIN hosts' -> DOMAIN t]
       /\ \A j, k \in DOMAIN hosts' : f[j] = f[k] => j = k
       /\ \A j \in DOMAIN t : \E k \in DOMAIN hosts' : f[k] = j
       /\ \A k \in DOMAIN hosts' : hosts'[k].of = t[f[k]].of /\ hosts'[k].id = t[f[k]].id
  BY <1>11 DEF Shuffles
<1>13. Once(hosts, kind = "lan")'
  BY <1>9, <1>12 DEF Once
<1>14. Apart'
  BY <1>1, <1>9, <1>12 DEF Apart
<1>15. Objects \subseteq Objects'
  <2> SUFFICES ASSUME NEW o \in Objects PROVE o \in Objects'
    OBVIOUS
  <2>1. Objects' = {Row(hosts'[k]) : k \in DOMAIN hosts'} \cup leaked
    BY DEF Objects, Row
  <2>2. CASE o \in leaked
    BY <2>1, <2>2
  <2>3. CASE \E j \in DOMAIN hosts : o = Row(hosts[j])
    <3>1. PICK j \in DOMAIN hosts : o = Row(hosts[j])
      BY <2>3
    <3>2. j \in DOMAIN t /\ t[j] = hosts[j]
      BY <1>1, <1>5, <1>6
    <3>3. PICK k \in DOMAIN hosts' : f[k] = j
      BY <1>12, <3>2
    <3>4. hosts'[k].of = hosts[j].of /\ hosts'[k].id = hosts[j].id
      BY <1>12, <3>2, <3>3
    <3>5. o = Row(hosts'[k])
      BY <3>1, <3>4 DEF Row
    <3> QED
      BY <2>1, <3>3, <3>5
  <2> QED
    BY <2>2, <2>3 DEF Objects
<1>16. (~undefined => InOrder(sorting, hosts))'
  BY <1>10 DEF InOrder
<1>17. /\ sorting' \in Orderings /\ undefined' \in BOOLEAN /\ (~undefined' => sorting'.column \in 0 .. 3)
       /\ records' \in Seq(Heard) /\ Once(records, FALSE)' /\ leaked' \subseteq ListRow
  BY DEF BrowserSound, BrowserTyped, Once
<1>18. box' \subseteq Objects'
  BY <1>1, <1>15
<1> QED
  BY <1>10, <1>13, <1>14, <1>15, <1>16, <1>17, <1>18, ObjectsStay

LEMMA AnswerSound ==
    ASSUME BrowserSound, NEW s \in Servers, NEW ping \in Pings, HostAnswers(s, ping)
    PROVE  BrowserSound'
<1>1. ping \in Nat
  BY BrowserAssumption
<1>2. UNCHANGED <<records, leaked, kind, list, entry, picked, stale, late, sorting, box, undefined>>
  BY DEF HostAnswers, Thread, view, choice, flow
<1>3. CASE \E k \in At(s) :
             hosts' \in Sorted([hosts EXCEPT ![k] = Info(hosts[k].id, s, ping, TRUE)], sorting)
  BY <1>1, <1>2, <1>3, AnswerAgain
<1>4. CASE /\ At(s) = {}
           /\ \E id \in Unused(Objects) :
                hosts' \in Sorted(Append(hosts, Info(id, s, ping, TRUE)), sorting)
  BY <1>1, <1>2, <1>4, AnswerFirst
<1> QED
  BY <1>3, <1>4 DEF HostAnswers

-----------------------------------------------------------------------------
(* The menu.                                                               *)

(* What the listbox, the entry and the ghosts become while the lists stay. *)
LEMMA ViewChanges ==
    ASSUME BrowserSound, UNCHANGED <<records, hosts, leaked, kind, sorting>>,
           list' \in Listboxes, Selectable(list)', entry' \in Nat,
           stale' \in BOOLEAN, late' \in BOOLEAN, undefined' \in BOOLEAN, undefined => undefined',
           RowsLive', EntryLive', Unclicked', SelectionKept', box' \subseteq Objects
    PROVE  BrowserSound'
<1>1. Objects' = Objects
  BY DEF Objects, Row
<1>2. BrowserTyped'
  BY DEF BrowserSound, BrowserTyped
<1>3. Once(records, FALSE)' /\ Once(hosts, kind = "lan")' /\ Apart'
  BY DEF BrowserSound, Once, Apart
<1>4. (~undefined => InOrder(sorting, hosts))'
  BY DEF BrowserSound, BrowserTyped, InOrder
<1> QED
  BY <1>1, <1>2, <1>3, <1>4 DEF BrowserSound

(* Only the listbox and the selected entry change.                         *)
LEMMA MenuIdleSound ==
    ASSUME BrowserSound, MenuIdle
    PROVE  BrowserSound'
<1> DEFINE marked == Reselected(Filled)
           at == {k \in DOMAIN Filled.entries : Filled.entries[k].id = entry}
           rows == Filled.entries
<1>1. /\ list' = SetTop(marked, list.top)
      /\ entry' = IF kind = "lan" /\ marked.selected = -1 THEN 0 ELSE entry
      /\ stale' = FALSE /\ ~undefined
      /\ UNCHANGED <<records, hosts, leaked, kind, picked, late, sorting, box>>
  BY DEF MenuIdle, Frames, found, choice
<1>2. undefined' \in BOOLEAN
  BY DEF MenuIdle, Removing
<1>3. /\ list \in Listboxes /\ hosts \in Seq(Host) /\ entry \in Nat /\ late \in BOOLEAN
      /\ Apart /\ EntryLive /\ box \subseteq Objects
  BY DEF BrowserSound, BrowserTyped
<1>4. /\ Filled \in Listboxes /\ Filled.selected = -1
      /\ \A i \in DOMAIN rows : \E k \in DOMAIN hosts : rows[i] = Row(hosts[k])
  BY <1>3, FilledIs
<1>5. rows \in Seq(ListRow) /\ DOMAIN rows = 1 .. Len(rows) /\ Len(rows) \in Nat
  BY <1>4, LenProperties DEF Listboxes
<1>6. \A i \in DOMAIN rows : rows[i] \in Objects /\ rows[i].id # 0
  <2>1. \A i \in DOMAIN rows : rows[i] \in ListRow
    BY <1>5, ElementOfSeq
  <2> QED
    BY <1>4, <2>1 DEF Objects, ListRow
<1>7. /\ marked \in Listboxes /\ marked.entries = rows
      /\ Selectable(marked)
      /\ marked.selected >= 0 => rows[marked.selected + 1].id = entry
  <2>1. Reselected(Filled) = IF at = {} THEN Filled ELSE Select(Filled, (CHOOSE k \in at : TRUE) - 1)
    BY DEF Reselected
  <2>2. CASE at = {}
    <3>1. marked = Filled
      BY <2>1, <2>2
    <3> HIDE DEF marked
    <3> QED
      BY <1>4, <1>5, <3>1 DEF Selectable
  <2>3. CASE at # {}
    <3> DEFINE k == CHOOSE j \in at : TRUE
    <3>1. k \in at
      BY <2>3
    <3>2. marked = Select(Filled, k - 1)
      BY <2>1, <2>3
    <3>3. k \in 1 .. Len(rows) /\ rows[k].id = entry
      BY <1>5, <3>1
    <3> HIDE DEF k, marked, at
    <3>4. k - 1 \in 0 .. Len(rows) - 1 /\ k - 1 \in Int /\ (k - 1) + 1 = k
      BY <1>5, <3>3
    <3>5. SameRows(marked, Filled) /\ Selectable(marked) /\ marked.selected = k - 1
      BY <1>4, <3>2, <3>4, SelectIs
    <3> QED
      BY <3>3, <3>4, <3>5 DEF SameRows
  <2> QED BY <2>2, <2>3
<1> HIDE DEF marked, at
<1>8. list.top \in Int
  BY <1>3 DEF Listboxes
<1>9. SameRows(list', marked) /\ list'.selected = marked.selected
  BY <1>1, <1>7, <1>8, SetTopIs
<1> HIDE DEF rows
<1>10. /\ list' \in Listboxes /\ list'.entries = rows /\ Selectable(list')
       /\ list'.selected >= 0 => rows[list'.selected + 1].id = entry
  BY <1>7, <1>9 DEF SameRows, Selectable
<1>11. Objects' = Objects
  BY <1>1 DEF Objects, Row
<1>12. entry' \in Nat /\ (entry' = 0 \/ entry' = entry)
  BY <1>1, <1>3
<1>13. RowsLive' /\ EntryLive' /\ Unclicked'
  BY <1>1, <1>3, <1>6, <1>10, <1>11, <1>12 DEF RowsLive, EntryLive, Unclicked
<1>14. SelectionKept'
  <2> SUFFICES ASSUME list'.selected >= 0, ~late
               PROVE  rows[list'.selected + 1].of \in picked
    BY <1>1, <1>10 DEF SelectionKept, Chosen
  <2> DEFINE i == list'.selected + 1
  <2>1. i \in DOMAIN rows /\ rows[i].id = entry
    BY <1>5, <1>10 DEF Selectable, rows
  <2> HIDE DEF i
  <2>2. rows[i] \in Objects /\ entry # 0
    BY <1>6, <2>1
  <2>3. PICK o \in Objects : o.id = entry /\ o.of \in picked
    BY <1>3, <2>2 DEF EntryLive
  <2>4. rows[i] = o
    BY <1>3, <2>1, <2>2, <2>3, ObjectsUnique
  <2> QED
    BY <2>3, <2>4 DEF i
<1>15. Selectable(list)'
  BY <1>10 DEF Selectable
<1>16. stale' \in BOOLEAN /\ late' \in BOOLEAN /\ box' \subseteq Objects
  BY <1>1, <1>3
<1> QED
  BY <1>1, <1>2, <1>10, <1>12, <1>13, <1>14, <1>15, <1>16, ViewChanges

(* The player works on the list.                                           *)
LEMMA ChoosesSound ==
    ASSUME BrowserSound, NEW lb, SameRows(lb, list), Selectable(lb), Clicks, Chooses(lb)
    PROVE  BrowserSound'
<1> DEFINE rows == list.entries
           new == lb.selected # list.selected /\ lb.selected >= 0
<1>1. /\ list' = lb
      /\ IF new
         THEN entry' = Chosen(lb).id /\ picked' = {Chosen(lb).of} /\ late' = stale
         ELSE entry' = entry /\ picked' = picked /\ late' = late
      /\ UNCHANGED <<records, hosts, leaked, kind, stale, sorting, box, undefined>>
  BY DEF Chooses, Clicks, found, choice, flow
<1>2. lb \in Listboxes /\ lb.entries = rows
  BY DEF SameRows
<1>3. /\ list \in Listboxes /\ Selectable(list) /\ entry \in Nat
      /\ stale \in BOOLEAN /\ late \in BOOLEAN /\ undefined \in BOOLEAN
      /\ RowsLive /\ EntryLive /\ Unclicked /\ SelectionKept /\ box \subseteq Objects
  BY DEF BrowserSound, BrowserTyped
<1>4. rows \in Seq(ListRow) /\ DOMAIN rows = 1 .. Len(rows) /\ Len(rows) \in Nat
  BY <1>3, LenProperties DEF Listboxes
<1>5. Objects' = Objects
  BY <1>1 DEF Objects, Row
<1>6. RowsLive'
  BY <1>1, <1>2, <1>3, <1>5 DEF RowsLive
<1> HIDE DEF rows
<1>7. entry' \in Nat /\ late' \in BOOLEAN /\ EntryLive' /\ Unclicked' /\ SelectionKept'
  <2>1. CASE new
    <3> DEFINE i == lb.selected + 1
    <3>1. i \in DOMAIN rows
      BY <1>2, <1>4, <2>1 DEF Selectable
    <3>2. entry' = rows[i].id /\ picked' = {rows[i].of} /\ late' = stale
      BY <1>1, <1>2, <2>1 DEF Chosen
    <3>3. Chosen(list)' = rows[i]
      BY <1>1, <1>2 DEF Chosen
    <3> HIDE DEF i, new
    <3>4. rows[i] \in ListRow
      BY <1>4, <3>1, ElementOfSeq
    <3>5. entry' \in Nat
      BY <3>2, <3>4 DEF ListRow
    <3>6. ~stale => rows[i] \in Objects
      BY <1>3, <3>1 DEF RowsLive, rows
    <3>7. EntryLive'
      BY <1>3, <1>5, <3>2, <3>6 DEF EntryLive
    <3>8. Unclicked'
      BY <1>1, <3>2 DEF Unclicked
    <3>9. SelectionKept'
      BY <3>2, <3>3 DEF SelectionKept
    <3> QED
      BY <1>3, <3>2, <3>5, <3>7, <3>8, <3>9
  <2>2. CASE ~new
    <3>1. UNCHANGED <<entry, picked, late, stale>>
      BY <1>1, <2>2
    <3>2. EntryLive'
      BY <1>3, <1>5, <3>1 DEF EntryLive
    <3>3. Chosen(list)' = Chosen(lb) /\ (lb.selected >= 0 => Chosen(lb) = Chosen(list))
          /\ (lb.selected >= 0 => lb.selected = list.selected)
      BY <1>1, <1>2, <2>2 DEF Chosen, rows
    <3>4. lb.selected \in Int /\ lb.selected >= -1
      BY <1>2 , <1>4 DEF Selectable
    <3>5. Unclicked'
      BY <1>1, <1>3, <3>1, <3>3, <3>4 DEF Unclicked
    <3>6. SelectionKept'
      BY <1>1, <1>3, <3>1, <3>3 DEF SelectionKept
    <3> QED
      BY <1>3, <3>1, <3>2, <3>5, <3>6
  <2> QED BY <2>1, <2>2
<1>8. Selectable(list)' /\ list' \in Listboxes
  BY <1>1, <1>2 DEF Selectable
<1> QED
  BY <1>1, <1>3, <1>6, <1>7, <1>8, ViewChanges

LEMMA ListSound ==
    ASSUME BrowserSound,
           \/ \E row \in 0 .. Rows - 1 : EntryClick(row)
           \/ \E step \in {-1, 1} : EntryWheel(step)
           \/ \E v \in {list.value - 1, list.value + 1} : Scroll(v)
    PROVE  BrowserSound'
<1>1. list \in Listboxes /\ Selectable(list) /\ list.value \in Int
  BY DEF BrowserSound, BrowserTyped, Listboxes
<1>2. ASSUME NEW row \in 0 .. Rows - 1, EntryClick(row) PROVE BrowserSound'
  BY <1>1, <1>2, ClickRowIs, ChoosesSound DEF EntryClick
<1>3. ASSUME NEW step \in {-1, 1}, EntryWheel(step) PROVE BrowserSound'
  <2>1. step \in Int
    OBVIOUS
  <2> QED
    BY <1>1, <1>3, <2>1, WheelIs, ChoosesSound DEF EntryWheel
<1>4. ASSUME NEW v \in {list.value - 1, list.value + 1}, Scroll(v) PROVE BrowserSound'
  <2>1. v \in Int
    BY <1>1
  <2>2. SameRows(ScrollTo(list, v), list) /\ ScrollTo(list, v).selected = list.selected
    BY <1>1, <2>1, ScrollToIs
  <2>3. Selectable(ScrollTo(list, v))
    BY <1>1, <2>2 DEF Selectable, SameRows
  <2> QED
    BY <1>4, <2>2, <2>3, ChoosesSound DEF Scroll
<1> QED
  BY <1>2, <1>3, <1>4

LEMMA SortClickSound ==
    ASSUME BrowserSound, NEW column \in Columns, SortClick(column)
    PROVE  BrowserSound'
<1>1. /\ sorting' = [column |-> column, up |-> ~(column = sorting.column /\ sorting.up)]
      /\ undefined' \in IF column \in 0 .. 3 THEN {FALSE, hosts # << >>} ELSE {TRUE}
      /\ IF undefined' THEN hosts' = hosts ELSE hosts' \in Sorted(hosts, sorting')
      /\ UNCHANGED <<records, leaked, kind, list, entry, picked, stale, late, box>>
  <2>1. Len(Sorters) - 1 = 3
    BY DEF Sorters
  <2> QED
    BY <2>1 DEF SortClick, view
<1>2. hosts \in Seq(Host) /\ records \in Seq(Heard) /\ Once(records, FALSE)'
  BY <1>1 DEF BrowserSound, BrowserTyped, Once
<1>3. sorting' \in Orderings
  <2> DEFINE b == ~(column = sorting.column /\ sorting.up)
  <2>1. b \in BOOLEAN
    OBVIOUS
  <2> HIDE DEF b
  <2>2. column \in 0 .. 4
    BY BrowserAssumption
  <2>3. [column |-> column, up |-> b] \in Orderings
    BY <2>1, <2>2 DEF Orderings
  <2> QED
    BY <1>1, <2>3 DEF b
<1>4. undefined' \in BOOLEAN /\ (~undefined' => sorting'.column \in 0 .. 3)
  <2>1. sorting'.column = column
    BY <1>1
  <2>2. (hosts # << >>) \in BOOLEAN
    OBVIOUS
  <2> QED
    BY <1>1, <2>1, <2>2
<1>5. CASE undefined'
  <2>1. hosts' = hosts
    BY <1>1, <1>5
  <2>2. Shuffles(hosts', hosts, [k \in DOMAIN hosts |-> k])
    BY <2>1 DEF Shuffles
  <2> QED
    BY <1>1, <1>2, <1>3, <1>4, <1>5, <2>1, <2>2, HostsMoved
<1>6. CASE ~undefined'
  <2>1. hosts' \in Sorted(hosts, sorting')
    BY <1>1, <1>6
  <2>2. hosts' \in Seq(Host) /\ InOrder(sorting', hosts') /\ \E f : Shuffles(hosts', hosts, f)
    BY <1>2, <2>1, SortedIs
  <2> QED
    BY <1>1, <1>2, <1>3, <1>4, <2>2, HostsMoved
<1> QED
  BY <1>5, <1>6

(* What the master knows, asked anew.                                      *)
LEMMA EmptiedIs ==
    ASSUME BrowserSound, NEW n \in 0 .. Len(Known), Emptied(n), kind' # "lan" \/ n = 0
    PROVE  /\ hosts' \in Seq(Host) /\ records' \in Seq(Heard) /\ Once(records, FALSE)'
           /\ leaked' \subseteq ListRow /\ Once(hosts, kind = "lan")' /\ Apart'
           /\ InOrder(sorting, hosts)'
<1>1. PICK ids \in [1 .. n -> Unused(leaked)] :
         /\ \A j, k \in 1 .. n : j # k => ids[j] # ids[k]
         /\ hosts' = [k \in 1 .. n |-> Info(ids[k], Known[k].of, 0, FALSE)]
  BY DEF Emptied
<1>2. records' = Known /\ leaked' = leaked
  BY DEF Emptied
<1>3. /\ Known \in Seq(Heard) /\ Once(Known, FALSE)
      /\ DOMAIN Known = 1 .. Len(Known) /\ Len(Known) \in Nat /\ n \in Nat
      /\ \A k \in DOMAIN Known : Known[k] \in Heard
  <2>1. Known \in Seq(Heard) /\ Once(Known, FALSE)
    BY KnownIs
  <2>2. DOMAIN Known = 1 .. Len(Known) /\ Len(Known) \in Nat
    BY <2>1, LenProperties
  <2>3. \A k \in DOMAIN Known : Known[k] \in Heard
    BY <2>1, <2>2, ElementOfSeq
  <2>4. n \in Nat
    BY <2>2
  <2> QED
    BY <2>1, <2>2, <2>3, <2>4, Zenon
<1>4. \A k \in 1 .. n : k \in DOMAIN Known /\ Known[k].of \in Servers
  <2>1. \A k \in 1 .. n : k \in DOMAIN Known
    BY <1>3
  <2> QED
    BY <1>3, <2>1 DEF Heard
<1>5. \A k \in 1 .. n : ids[k] \in Nat \ {0} /\ \A o \in leaked : o.id # ids[k]
  BY BrowserAssumption DEF Unused
<1>6. DOMAIN hosts' = 1 .. n /\ \A k \in 1 .. n : hosts'[k] = Info(ids[k], Known[k].of, 0, FALSE)
  BY <1>1
<1>7. \A k \in 1 .. n : /\ hosts'[k] \in Host /\ hosts'[k].id = ids[k]
                        /\ hosts'[k].of = Known[k].of /\ ~hosts'[k].received
  <2> SUFFICES ASSUME NEW k \in 1 .. n
               PROVE  /\ hosts'[k] \in Host /\ hosts'[k].id = ids[k]
                      /\ hosts'[k].of = Known[k].of /\ ~hosts'[k].received
    OBVIOUS
  <2>1. PICK i \in Nat \ {0} : i = ids[k]
    BY <1>5
  <2>2. PICK s \in Servers : s = Known[k].of
    BY <1>4
  <2>3. hosts'[k] = Info(i, s, 0, FALSE)
    BY <1>6, <2>1, <2>2
  <2>4. LET h == Info(i, s, 0, FALSE) IN h \in Host /\ h.id = i /\ h.of = s /\ h.received = FALSE
    BY DEF Info, Host
  <2> QED
    BY <2>1, <2>2, <2>3, <2>4
<1>8. hosts' \in Seq(Host)
  <2>1. hosts' = [k \in 1 .. n |-> hosts'[k]]
    BY <1>1
  <2> QED
    BY <1>3, <1>7, <2>1
<1>9. Once(hosts, kind = "lan")'
  <2>1. CASE n = 0
    BY <1>6, <2>1 DEF Once
  <2>2. CASE kind' # "lan"
    BY <1>3, <1>4, <1>6, <1>7, <2>2 DEF Once
  <2> QED BY <2>1, <2>2
<1>10. Apart'
  <2>1. \A j, k \in DOMAIN hosts' : hosts'[j].id = hosts'[k].id => j = k
    <3> SUFFICES ASSUME NEW j \in 1 .. n, NEW k \in 1 .. n, hosts'[j].id = hosts'[k].id
                 PROVE  j = k
      BY <1>6
    <3>1. ids[j] = ids[k]
      BY <1>7
    <3> QED
      BY <1>1, <3>1
  <2>2. \A o, p \in leaked' : o.id = p.id => o = p
    BY <1>2 DEF Apart, BrowserSound
  <2>3. \A o \in leaked', k \in DOMAIN hosts' : o.id # hosts'[k].id
    <3> SUFFICES ASSUME NEW o \in leaked, NEW k \in 1 .. n PROVE o.id # hosts'[k].id
      BY <1>2, <1>6
    <3> QED
      BY <1>5, <1>7
  <2> QED
    BY <2>1, <2>2, <2>3 DEF Apart
<1>11. InOrder(sorting', hosts')
  <2> DEFINE a == Sorters[sorting'.column + 1]
  <2>1. ASSUME NEW k \in 1 .. n PROVE KeyOf(hosts'[k], a) = 0
    <3>1. PICK g : g = hosts'[k]
      OBVIOUS
    <3>2. ~g.received
      BY <1>7, <3>1
    <3> HIDE DEF a
    <3>3. KeyOf(g, a) = 0
      BY <3>2 DEF KeyOf
    <3> QED BY <3>1, <3>3
  <2>2. ASSUME NEW j \in 1 .. n, NEW k \in 1 .. n PROVE ~Before(sorting', hosts'[k], hosts'[j])
    <3>1. KeyOf(hosts'[k], a) = 0 /\ KeyOf(hosts'[j], a) = 0
      BY <2>1
    <3>2. /\ ~(KeyOf(hosts'[k], a) < KeyOf(hosts'[j], a))
          /\ ~(KeyOf(hosts'[k], a) > KeyOf(hosts'[j], a))
      <4> HIDE DEF a
      <4> QED BY <3>1
    <3> QED
      BY <3>2, Zenon DEF Before
  <2> QED
    BY <1>6, <2>2 DEF InOrder
<1>12. InOrder(sorting, hosts)' /\ Once(records, FALSE)'
  BY <1>2, <1>3, <1>11 DEF InOrder, Once
<1>13. records' \in Seq(Heard) /\ leaked' \subseteq ListRow
  BY <1>2, <1>3 DEF BrowserSound, BrowserTyped
<1> QED
  BY <1>8, <1>9, <1>10, <1>12, <1>13

LEMMA RefreshClickSound ==
    ASSUME BrowserSound, NEW n, RefreshClick(n)
    PROVE  BrowserSound'
<1>1. /\ Emptied(n) /\ entry' = 0 /\ list' = Select(list, -1) /\ stale' = TRUE /\ late' = FALSE
      /\ box = {} /\ ~undefined
      /\ UNCHANGED <<kind, picked, sorting, box>>
  BY DEF RefreshClick, Frames, choice
<1>2. n \in 0 .. Len(Known) /\ (kind' # "lan" \/ n = 0)
  <2>1. Len(Known) \in Nat
    BY KnownIs, LenProperties
  <2> QED
    BY <1>1, <2>1 DEF RefreshClick
<1>3. list \in Listboxes /\ sorting \in Orderings /\ sorting.column \in 0 .. 3
  BY <1>1 DEF BrowserSound, BrowserTyped
<1>4. SameRows(list', list) /\ Selectable(list') /\ list'.selected = -1
  BY <1>1, <1>3, SelectIs
<1>5. /\ hosts' \in Seq(Host) /\ records' \in Seq(Heard) /\ Once(records, FALSE)'
      /\ leaked' \subseteq ListRow /\ Once(hosts, kind = "lan")' /\ Apart'
      /\ InOrder(sorting, hosts)'
  BY <1>1, <1>2, EmptiedIs
<1>6. RowsLive' /\ EntryLive' /\ Unclicked' /\ SelectionKept'
  BY <1>1, <1>4 DEF RowsLive, EntryLive, Unclicked, SelectionKept
<1>7. undefined' \in BOOLEAN /\ stale' \in BOOLEAN /\ late' \in BOOLEAN /\ entry' \in Nat
  <2>1. Removing \in BOOLEAN
    BY Zenon DEF Removing
  <2>2. undefined' \in {FALSE, Removing} /\ stale' = TRUE /\ late' = FALSE /\ entry' = 0
    BY DEF RefreshClick
  <2>3. undefined' \in BOOLEAN
    BY <2>1, <2>2, Zenon
  <2> QED
    BY <2>2, <2>3
<1>8. BrowserTyped'
  <2>1. Selectable(list)' /\ list' \in Listboxes
    BY <1>4 DEF Selectable, SameRows
  <2> QED
    BY <1>1, <1>3, <1>5, <1>7, <2>1 DEF BrowserTyped
<1>9. box' \subseteq Objects'
  BY <1>1
<1> QED
  BY <1>5, <1>6, <1>8, <1>9 DEF BrowserSound

LEMMA PlayCloseSound ==
    ASSUME BrowserSound, NEW k, PlayClose(k)
    PROVE  BrowserSound'
<1>1. /\ kind' = k /\ entry' = 0 /\ list' = NewList /\ stale' = FALSE /\ late' = FALSE /\ box = {}
      /\ sorting' = [column |-> 0, up |-> TRUE]
      /\ UNCHANGED <<box, undefined>>
  BY DEF PlayClose, flow
<1>2. PICK n \in IF k = "lan" THEN {0} ELSE 0 .. Len(Known) : Emptied(n)
  BY DEF PlayClose
<1>3. n \in 0 .. Len(Known) /\ (kind' # "lan" \/ n = 0)
  <2>1. Len(Known) \in Nat
    BY KnownIs, LenProperties
  <2> QED
    BY <1>1, <1>2, <2>1
<1>4. list' \in Listboxes /\ Selectable(list)' /\ list'.selected = -1 /\ list'.entries = << >>
  BY <1>1 DEF NewList, Listboxes, Selectable
<1>5. /\ hosts' \in Seq(Host) /\ records' \in Seq(Heard) /\ Once(records, FALSE)'
      /\ leaked' \subseteq ListRow /\ Once(hosts, kind = "lan")' /\ Apart'
      /\ InOrder(sorting, hosts)'
  BY <1>2, <1>3, EmptiedIs
<1>6. RowsLive' /\ EntryLive' /\ Unclicked' /\ SelectionKept'
  BY <1>1, <1>4 DEF RowsLive, EntryLive, Unclicked, SelectionKept
<1>7. BrowserTyped'
  <2>1. entry' \in Nat /\ [column |-> 0, up |-> TRUE] \in Orderings
    BY <1>1 DEF Orderings
  <2>2. sorting' \in Orderings /\ sorting'.column = 0 /\ 0 \in 0 .. 3
    BY <1>1, <2>1
  <2>3. stale' \in BOOLEAN /\ late' \in BOOLEAN /\ undefined' \in BOOLEAN
    BY <1>1 DEF BrowserSound, BrowserTyped
  <2> QED
    BY <1>1, <1>4, <1>5, <2>1, <2>2, <2>3 DEF BrowserTyped
<1>8. box' \subseteq Objects'
  BY <1>1
<1> QED
  BY <1>5, <1>6, <1>7, <1>8 DEF BrowserSound

(* The list stays as it is.                                                *)
LEMMA ListKept ==
    ASSUME BrowserSound,
           UNCHANGED <<records, hosts, leaked, kind, list, entry, picked, stale, late, sorting>>,
           undefined' \in BOOLEAN, undefined => undefined', box' \subseteq Objects
    PROVE  BrowserSound'
<1>1. Objects' = Objects
  BY DEF Objects, Row
<1>2. RowsLive' /\ EntryLive' /\ Unclicked' /\ SelectionKept'
  BY <1>1 DEF BrowserSound, RowsLive, EntryLive, Unclicked, SelectionKept, Chosen
<1>3. /\ list' \in Listboxes /\ Selectable(list)' /\ entry' \in Nat
      /\ stale' \in BOOLEAN /\ late' \in BOOLEAN
  BY DEF BrowserSound, BrowserTyped, Selectable
<1> QED
  BY <1>2, <1>3, ViewChanges

LEMMA ConnectSound ==
    ASSUME BrowserSound, ConnectClick
    PROVE  BrowserSound'
<1> DEFINE read == {o \in Objects : o.id = Chosen(list).id}
<1>1. /\ undefined' = (read = {})
      /\ box' = {info \in read : info.of.locked}
      /\ ~undefined
      /\ UNCHANGED <<records, hosts, leaked, kind, list, entry, picked, stale, late, sorting>>
  BY DEF ConnectClick, Connecting, Frames, found, view, choice
<1>2. box' \subseteq Objects /\ undefined' \in BOOLEAN
  BY <1>1
<1> QED
  BY <1>1, <1>2, ListKept

LEMMA PlayingSound ==
    ASSUME BrowserSound, CompatibleClick \/ ClientEnds \/ \E yes \in BOOLEAN : PasswordEntered(yes)
    PROVE  BrowserSound'
<1>1. /\ UNCHANGED <<records, hosts, leaked, kind, list, entry, picked, stale, late, sorting, undefined>>
      /\ box' \subseteq box
  BY DEF CompatibleClick, Clicks, ClientEnds, PasswordEntered, Connecting, found, view, choice, flow
<1>2. undefined \in BOOLEAN /\ box \subseteq Objects
  BY DEF BrowserSound, BrowserTyped
<1> QED
  BY <1>1, <1>2, ListKept

LEMMA BrowserNextSound == BrowserSound /\ [BrowserNext]_browser => BrowserSound'
<1> SUFFICES ASSUME BrowserSound, [BrowserNext]_browser PROVE BrowserSound'
  OBVIOUS
<1>1. CASE \E s \in Servers : Heartbeat(s) \/ \E ping \in Pings : HostAnswers(s, ping)
  BY <1>1, HeartbeatSound, AnswerSound
<1>2. CASE DeleteOldEntries \/ TimePasses \/ RemoveOld \/ MenuIdle
  BY <1>2, DeleteOldSound, TimePassesSound, RemoveOldSound, MenuIdleSound
<1>3. CASE \/ \E row \in 0 .. Rows - 1 : EntryClick(row)
           \/ \E step \in {-1, 1} : EntryWheel(step)
           \/ \E v \in {list.value - 1, list.value + 1} : Scroll(v)
  BY <1>3, ListSound
<1>4. CASE \E column \in Columns : SortClick(column)
  BY <1>4, SortClickSound
<1>5. CASE \E n \in 0 .. MaxRecords : RefreshClick(n)
  BY <1>5, RefreshClickSound
<1>6. CASE \E k \in {"lan", "wan"} : PlayClose(k)
  BY <1>6, PlayCloseSound
<1>7. CASE ConnectClick
  BY <1>7, ConnectSound
<1>8. CASE CompatibleClick \/ ClientEnds \/ \E yes \in BOOLEAN : PasswordEntered(yes)
  BY <1>8, PlayingSound
<1>9. CASE UNCHANGED browser
  <2>1. UNCHANGED <<records, hosts, leaked, kind, list, entry, picked, stale, late, sorting, undefined, box>>
    BY <1>9 DEF browser, found, view, choice, flow
  <2> QED
    BY <2>1, ListKept DEF BrowserSound, BrowserTyped
<1> QED
  BY <1>1, <1>2, <1>3, <1>4, <1>5, <1>6, <1>7, <1>8, <1>9 DEF BrowserNext

LEMMA SoundAgrees == BrowserSound => ListAgrees /\ ConnectReadsLive
<1> SUFFICES ASSUME BrowserSound PROVE ListAgrees /\ ConnectReadsLive
  OBVIOUS
<1>1. ServersOnce
  BY DEF BrowserSound, Once, ServersOnce
<1>2. HostsSorted
  <2>1. DOMAIN hosts = 1 .. Len(hosts) /\ Len(hosts) \in Nat
    BY LenProperties DEF BrowserSound, BrowserTyped
  <2>2. \A k \in 1 .. Len(hosts) - 1 : k \in DOMAIN hosts /\ k + 1 \in DOMAIN hosts /\ k < k + 1
    BY <2>1
  <2> QED
    BY <2>2 DEF HostsSorted, BrowserSound, InOrder
<1>3. SelectionKept
  BY DEF BrowserSound
<1>4. ConnectReadsLive
  <2>1. list.entries \in Seq(ListRow) /\ list.selected \in -1 .. Len(list.entries) - 1
    BY DEF BrowserSound, BrowserTyped, Listboxes, Selectable
  <2>2. ASSUME MayConnect PROVE Chosen(list) \in Objects \/ (stale /\ late)
    <3>1. list.selected + 1 \in 1 .. Len(list.entries) /\ Len(list.entries) \in Nat /\ list.selected # -1
      BY <2>1, <2>2, LenProperties DEF MayConnect
    <3>2. list.selected + 1 \in DOMAIN list.entries
      BY <2>1, <3>1, LenProperties
    <3>3. CASE ~stale
      BY <3>2, <3>3 DEF Chosen, BrowserSound, RowsLive
    <3>4. CASE stale
      BY <3>1, <3>4 DEF BrowserSound, Unclicked
    <3> QED
      BY <3>3, <3>4
  <2> QED
    BY <2>2 DEF ConnectReadsLive, BrowserSound
<1> QED
  BY <1>1, <1>2, <1>3, <1>4 DEF ListAgrees

(* The list of servers is what the player made of it, however the thread   *)
(* of LANBroadcaster or MasterQuery fills, sorts and empties it between    *)
(* his clicks: every server once, if it announces a valid port, in the     *)
(* order of the chosen column, and the selected row shows the server that  *)
(* he selected, unless he selected it between a refresh and the next       *)
(* frame.                                                                  *)
THEOREM ListCorrect == BrowserSpec => []ListAgrees
<1>1. BrowserInit => BrowserSound
  BY BrowserInitSound
<1>2. BrowserSound /\ [BrowserNext]_browser => BrowserSound'
  BY BrowserNextSound
<1>3. BrowserSound => ListAgrees
  BY SoundAgrees
<1> QED
  BY <1>1, <1>2, <1>3, PTL DEF BrowserSpec

(* What MainMenu's "connect" reads through the selected row, or through    *)
(* the row for which a password was asked, is the object of that row,      *)
(* which was not deleted, though the thread removes servers meanwhile and  *)
(* addresses are given again; unless the row was selected between a        *)
(* refresh and the next frame, and the click comes before this frame.      *)
THEOREM ConnectCorrect == BrowserSpec => []ConnectReadsLive
<1>1. BrowserInit => BrowserSound
  BY BrowserInitSound
<1>2. BrowserSound /\ [BrowserNext]_browser => BrowserSound'
  BY BrowserNextSound
<1>3. BrowserSound => ConnectReadsLive
  BY SoundAgrees
<1> QED
  BY <1>1, <1>2, <1>3, PTL DEF BrowserSpec
=============================================================================
