-------------------------------- MODULE Desk --------------------------------
(***************************************************************************)
(* The windows of a running game: Gui with its stack of windows, the mouse *)
(* and the keys, the message boxes that run an idle loop of their own, and *)
(* the windows that the network opens, closes and fills anew meanwhile.    *)
(* An object is a window's identity, the generation of the window's        *)
(* content and a name; "frame" is the window itself.                       *)
(***************************************************************************)
EXTENDS Integers, Sequences, SequencesExt

CONSTANT MaxOpened       \* bound: windows of a run

ASSUME DeskAssumption == MaxOpened \in Nat

VARIABLES
    windows,     \* WindowStack: [id, gen, kind, focus]
    opened,      \* windows so far
    pressed,     \* the mouse's buttons that are down
    active,      \* active_object
    down,        \* Gui's mouse_is_down
    inside,      \* mouse_is_in_button of the active object
    tip,         \* tooltip_object
    tipShown,    \* tooltip # 0
    idling,      \* nested idle loops: their stack counter and box, and whether a
                 \* question was asked when the box was gone and the loop was not
    response,    \* the box whose button set last_response
    guiRunning,
    options,     \* the window of OptionsMenu while options_visible, or 0
    choosing,    \* choose_team_open
    surprised,   \* a window came or went while a button was held, or came over the
                 \* window to choose a team
    broken       \* a deleted object was used

pointers == <<pressed, active, down, inside, tip, tipShown>>
boxes == <<idling, response, guiRunning>>
desk == <<windows, opened, pointers, boxes, options, choosing, surprised, broken>>

Contents == [options |-> {"player", "close"}, settings |-> {"ask", "ok"},
             box |-> {"answer"}, team |-> {"red"}, message |-> {"ok"}]
NoObject == [id |-> 0, gen |-> 0, name |-> ""]
ObjectOf(w, name) == IF name = "" THEN NoObject ELSE [id |-> w.id, gen |-> w.gen, name |-> name]

DeskTop == Last(windows)
IsOpen == windows # << >>
Parts(w) == Contents[w.kind] \cup {"frame"}
Spots == IF IsOpen THEN Parts(DeskTop) \cup {""} ELSE {""}
WindowOf(o) == CHOOSE w \in Range(windows) : w.id = o.id
Exists(o) ==
    /\ \E w \in Range(windows) : w.id = o.id
    /\ o.name = "frame" \/ WindowOf(o).gen = o.gen

DeskInit ==
    /\ windows = << >> /\ opened = 0 /\ pressed = {} /\ active = NoObject /\ down = FALSE /\ inside = FALSE
    /\ tip = NoObject /\ tipShown = FALSE /\ idling = << >> /\ response = 0
    /\ guiRunning = TRUE /\ options = 0 /\ choosing = FALSE
    /\ surprised = FALSE /\ broken = FALSE

-----------------------------------------------------------------------------
(* Windows come and go at the top; the tooltip goes with every change.     *)

Tipless == tip' = NoObject /\ tipShown' = FALSE

PushWindow(kind) ==
    /\ opened < MaxOpened /\ opened' = opened + 1
    /\ windows' = Append(windows, [id |-> opened', gen |-> 0, kind |-> kind, focus |-> NoObject])
    /\ Tipless

(* Mutant: the object of a window that is gone stays the active one.       *)
PopKeepsActive(now) ==
    /\ windows' = IF IsOpen THEN Front(windows) ELSE windows
    /\ active' = active
    /\ IF IsOpen THEN Tipless ELSE UNCHANGED <<tip, tipShown>>

PopWindow(now) ==
    /\ windows' = IF IsOpen THEN Front(windows) ELSE windows
    /\ active' = IF IsOpen THEN NoObject ELSE now
    /\ IF IsOpen THEN Tipless ELSE UNCHANGED <<tip, tipShown>>

(* An object's own handler.  A message box returns when its loop ends.     *)
Opens(kind) == PushWindow(kind) /\ UNCHANGED <<options, choosing, idling, response>>
Closes(now) == PopWindow(now) /\ UNCHANGED <<opened, idling>>

(* Mutant: the options menu does not note that it is closed.               *)
CloseUnnoted(now) ==
    /\ options' = options
    /\ IF options # 0 THEN Closes(now)
       ELSE active' = now /\ UNCHANGED <<windows, opened, tip, tipShown, idling>>
    /\ UNCHANGED <<choosing, response>>

CloseOptions(now) ==
    /\ options' = 0
    /\ IF options # 0 THEN Closes(now)
       ELSE active' = now /\ UNCHANGED <<windows, opened, tip, tipShown, idling>>
    /\ UNCHANGED <<choosing, response>>

Asks(loop) == \E k \in 1 .. Len(windows) : windows[k].kind = "box" /\ windows[k].id = loop.box
Outrun == [k \in DOMAIN idling |-> [idling[k] EXCEPT !.outrun = @ \/ ~Asks(idling[k])]]

ShowBox ==
    /\ PushWindow("box")
    /\ idling' = Append(Outrun, [counter |-> Len(windows), box |-> opened', outrun |-> FALSE])
    /\ UNCHANGED <<options, choosing, response>>

(* Mutant: a button of a message box only closes it.                       *)
CloseUnanswered(o, now) == Closes(now) /\ UNCHANGED <<options, choosing, response>>
AnswerBox(o, now) == response' = o.id /\ Closes(now) /\ UNCHANGED <<options, choosing>>

ChooseTeam(now) == choosing' = FALSE /\ Closes(now) /\ UNCHANGED <<options, response>>

Clicked(o) ==
    CASE o.name = "player" -> Opens("settings") /\ active' = NoObject
      [] o.name = "close" -> CloseOptions(NoObject)
      [] o.name = "ask" -> ShowBox /\ UNCHANGED active
      [] o.name = "ok" -> Closes(NoObject) /\ UNCHANGED <<options, choosing, response>>
      [] o.name = "answer" -> AnswerBox(o, NoObject)
      [] o.name = "red" -> ChooseTeam(NoObject)
      [] OTHER -> /\ active' = NoObject
                  /\ UNCHANGED <<windows, opened, tip, tipShown, options, choosing, idling, response>>

-----------------------------------------------------------------------------
(* Input events.                                                           *)

Surprise == surprised' = (surprised \/ (down /\ active # NoObject))
Listens == guiRunning /\ ~broken /\ UNCHANGED guiRunning
Elsewhere == UNCHANGED <<windows, opened, idling, response, options, choosing>>

(* While a button is held its object gets the movements; else the object   *)
(* under the pointer does and becomes that of the tooltip.                 *)
MouseMove(name, within) ==
    /\ IF down THEN name = "" ELSE ~within      \* of no account
    /\ Listens /\ Elsewhere /\ UNCHANGED <<pressed, active, down, surprised>>
    /\ IF down
       THEN /\ broken' = (active # NoObject /\ ~Exists(active))
            /\ inside' = IF active = NoObject THEN inside ELSE within
            /\ UNCHANGED <<tip, tipShown>>
       ELSE /\ IsOpen
            /\ IF ObjectOf(DeskTop, name) = tip THEN UNCHANGED <<tip, tipShown>>
               ELSE tip' = ObjectOf(DeskTop, name) /\ tipShown' = FALSE
            /\ UNCHANGED <<broken, inside>>

MouseDown(button, name) ==
    /\ Listens /\ down' = TRUE
    /\ button \notin pressed /\ pressed' = pressed \cup {button}
    /\ IF IsOpen
       THEN LET o == ObjectOf(DeskTop, name)
            IN  /\ active' = o
                /\ windows' = IF name \in {"", "frame"} THEN windows
                              ELSE [windows EXCEPT ![Len(windows)].focus = o]
                /\ inside' \in IF o = NoObject THEN {FALSE}
                               ELSE IF button = "left" THEN {TRUE} ELSE BOOLEAN
                /\ tip' = IF tipShown THEN tip ELSE NoObject
       ELSE UNCHANGED <<active, windows, inside, tip>>
    /\ UNCHANGED <<tipShown, opened, idling, response, options, choosing, surprised, broken>>

(* Any button that is released ends the hold; without a hold the object    *)
(* under the pointer takes the release for its own.                        *)
MouseUp(button, name, hovered) ==
    LET o == IF down THEN active ELSE IF IsOpen THEN ObjectOf(DeskTop, name) ELSE NoObject
        clicks == button = "left" /\ (IF down THEN inside ELSE hovered)
    IN  /\ down => name = "" /\ ~hovered        \* of no account
        /\ Listens /\ button \in pressed /\ pressed' = pressed \ {button}
        /\ broken' = (down /\ active # NoObject /\ ~Exists(active))
        /\ IF clicks /\ o # NoObject /\ ~broken' THEN Clicked(o)
           ELSE active' = NoObject /\ UNCHANGED <<tip, tipShown>> /\ Elsewhere
        /\ down' = (down /\ Len(idling') > Len(idling)) /\ inside' = (inside /\ down')
        /\ UNCHANGED surprised

(* The escape key and the keys of the button navigators.                   *)
Escape ==
    /\ Listens /\ UNCHANGED <<pressed, down, inside, surprised, broken>>
    /\ IF ~IsOpen THEN /\ PushWindow("options") /\ options' = opened'
                       /\ UNCHANGED <<active, choosing, idling, response>>
       ELSE CASE DeskTop.kind = "options" -> CloseOptions(active)
              [] DeskTop.kind = "settings" -> /\ Closes(active)
                                              /\ UNCHANGED <<options, choosing, response>>
              [] OTHER -> FALSE

Navigate(name) ==
    /\ Listens /\ IsOpen /\ DeskTop.kind \in {"options", "team"} /\ name \in Contents[DeskTop.kind]
    /\ IF name = "player" THEN Surprise ELSE UNCHANGED surprised
    /\ CASE name = "player" -> Opens("settings") /\ UNCHANGED active
         [] name = "close" -> CloseOptions(active)
         [] name = "red" -> ChooseTeam(active)
    /\ UNCHANGED <<pressed, down, inside, broken>>

(* Without a nested loop the program ends with it.                         *)
Quits ==
    /\ guiRunning /\ ~broken /\ idling # << >> /\ guiRunning' = FALSE
    /\ UNCHANGED <<windows, opened, pointers, idling, response, options, choosing,
                   surprised, broken>>

-----------------------------------------------------------------------------
(* Between the events: idle loops that end, the tooltip, and the network.  *)

BoxReturns ==
    /\ idling # << >> /\ ~broken
    /\ ~guiRunning \/ Len(windows) <= Last(idling).counter
    /\ idling' = Front(idling) /\ active' = NoObject /\ down' = FALSE /\ inside' = FALSE
    /\ UNCHANGED <<windows, opened, pressed, tip, tipShown, response, guiRunning, options, choosing,
                   surprised, broken>>

IdleTurn == guiRunning /\ ~broken /\ UNCHANGED boxes

IdleTooltip(text) ==
    /\ IdleTurn /\ ~tipShown /\ tip # NoObject
    /\ broken' = ~Exists(tip) /\ tipShown' = (text /\ ~broken')
    /\ broken' \/ tipShown'
    /\ UNCHANGED <<windows, opened, pressed, active, down, inside, tip, options, choosing, surprised>>

JoinRequest ==
    /\ IdleTurn /\ ~choosing /\ choosing' = TRUE
    /\ PushWindow("team") /\ Surprise
    /\ UNCHANGED <<pressed, active, down, inside, options, broken>>

(* The message of the server, over whatever is open.                       *)
ServerMessage ==
    /\ IdleTurn /\ PushWindow("message")
    /\ surprised' = (surprised \/ choosing \/ (down /\ active # NoObject))
    /\ UNCHANGED <<pressed, active, down, inside, options, choosing, broken>>

(* The tournament is destroyed: a window to choose a team goes with it.    *)
TournamentEnds ==
    /\ IdleTurn /\ choosing /\ choosing' = FALSE
    /\ PopWindow(active) /\ Surprise
    /\ UNCHANGED <<opened, pressed, down, inside, options, broken>>

(* The game is over: the options window, wherever it is on the stack, is   *)
(* emptied and filled anew.                                                *)
RefreshOptions ==
    /\ IdleTurn /\ options # 0
    /\ broken' = ~ \E w \in Range(windows) : w.id = options
    /\ windows' = [k \in DOMAIN windows |-> IF windows[k].id = options
                      THEN [windows[k] EXCEPT !.gen = 1 - @, !.focus = NoObject] ELSE windows[k]]
    /\ UNCHANGED <<opened, pointers, options, choosing, surprised>>

DeskNext ==
    \/ \E name \in Spots, within \in BOOLEAN : MouseMove(name, within)
    \/ \E name \in Spots, button \in {"left", "right"} :
          \/ MouseDown(button, name)
          \/ \E hovered \in BOOLEAN : MouseUp(button, name, hovered)
    \/ Escape \/ Quits \/ BoxReturns \/ JoinRequest \/ ServerMessage \/ TournamentEnds \/ RefreshOptions
    \/ \E name \in {"player", "close", "red"} : Navigate(name)
    \/ \E text \in BOOLEAN : IdleTooltip(text)

DeskSpec == DeskInit /\ [][DeskNext]_desk

-----------------------------------------------------------------------------
(* Type correctness, and: the windows of the stack are in the order they   *)
(* opened, the nested loops in the order of the windows they wait for,     *)
(* and no idle loop outlives its box by more than the events of a frame.   *)
DeskTypeOK ==
    /\ \A k \in 1 .. Len(windows) :
          /\ windows[k].id \in 1 .. opened /\ windows[k].gen \in 0 .. 1
          /\ windows[k].kind \in DOMAIN Contents
          /\ windows[k].focus = NoObject \/ windows[k].focus.id = windows[k].id
          /\ k > 1 => windows[k - 1].id < windows[k].id
    /\ \A k \in 1 .. Len(idling) :
          /\ idling[k].box \in 1 .. opened
          /\ k > 1 => idling[k - 1].box < idling[k].box
    /\ opened \in 0 .. MaxOpened /\ response \in 0 .. opened /\ options \in 0 .. opened
    /\ {active.id, tip.id} \subseteq 0 .. opened
    /\ {down, inside, tipShown, guiRunning, choosing, surprised, broken} \subseteq BOOLEAN

(* Gui keeps pointers to objects of windows: the active object, the one of *)
(* the tooltip, and every window's focus.  They are of windows that are    *)
(* open, and unless the options were filled anew, of objects that exist.   *)
PointersLive ==
    /\ \A o \in {active, tip} : o # NoObject =>
          \E w \in Range(windows) : w.id = o.id /\ (w.kind # "options" => Exists(o))
    /\ \A w \in Range(windows) : w.focus # NoObject => Exists(w.focus)

(* A question returns to its caller what was answered in it, unless the    *)
(* program quits.  What the code does not prevent: an answer is taken from *)
(* one place, last_response, so that a question that was answered, and has *)
(* not returned when another one is asked, returns the later answer; and   *)
(* when a window came or went under a held button, or came over the window *)
(* to choose a team (surprised), a box may be popped without an answer,    *)
(* and its question returns an old one.                                    *)
NoStaleAnswer ==
    [][Len(idling') < Len(idling) /\ guiRunning /\ ~surprised =>
         IF Last(idling).outrun THEN response > Last(idling).box
         ELSE response = Last(idling).box]_desk

(* OptionsMenu and the tournament know whether their window is open, as    *)
(* long as no window came or went under a held button and none came over   *)
(* the window to choose a team.                                            *)
WindowsMatch == ~surprised =>
    /\ {w.id : w \in {v \in Range(windows) : v.kind = "options"}} = {options} \ {0}
    /\ choosing = \E w \in Range(windows) : w.kind = "team"
=============================================================================
