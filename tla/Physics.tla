------------------------------ MODULE Physics ------------------------------
(***************************************************************************)
(* How things move in a tournament: a player, an object or animation, and  *)
(* the view of a spectator, one frame after another, over a map of tiles.  *)
(* Positions are whole pixels and a frame takes one unit of time, so a     *)
(* speed is a number of pixels per frame.  The step of a player is that of *)
(* Tournament::integrate without the things he meets, which are Arena's.   *)
(***************************************************************************)
EXTENDS Integers, Sequences, SequencesExt, FiniteSetsExt

CONSTANTS
    Terrains,    \* list of maps: width and height in tiles, and what is in which cell
    Tile,        \* tile_width and tile_height
    Box,         \* collision box: x, y from below, width, height
    Picture,     \* width and height of the picture of an object
    Gravity, XAccel, XDecel, XMax, YMax, JumpImpulse, JumpDecel, JumpDecelHeld,
    Friction,    \* of the tiles
    FallenBelow, \* pixels below the map at which a player is dead (100)
    Screen,      \* view_width and view_height
    SpawnPoints, \* where players enter: x, y, width, height of their pictures
    Thrown,      \* objects and animations: where they begin, their speeds,
                 \* springiness in halves, and whether they are projectiles
    Recoils      \* bound: recoils of those who are hit

ASSUME PhysicsAssumption ==
    /\ Tile \in Nat \ {0} /\ FallenBelow \in Nat /\ Friction \in Nat
    /\ Box \in [x : Int, y : Nat, width : Nat \ {0}, height : Nat \ {0}]
    /\ \A m \in DOMAIN Terrains : Terrains[m].width \in Nat /\ Terrains[m].height \in Nat
    /\ SpawnPoints \subseteq [x : Int, y : Int, width : Nat, height : Nat] /\ Recoils \subseteq Int
    /\ \A t \in Thrown : t.spring \in 0 .. 2 /\ t.projectile \in BOOLEAN
    /\ \A n \in {Gravity, XAccel, XDecel, XMax, YMax, JumpImpulse, JumpDecel, JumpDecelHeld} :
          n \in Nat \ {0}

VARIABLES
    subject,    \* what moves: "player", "object" or "spectator"
    terrain,    \* the map: map_array and the types of its tiles
    player,     \* x, y of his feet, speeds, flags
    object,     \* x, y of its picture's corner, speeds, flags
    spectator   \* spectator_x, spectator_y, their speeds, left and top

physics == <<subject, terrain, player, object, spectator>>

Land == Terrains[terrain]
MapWidth == Tile * Land.width
MapHeight == Tile * Land.height
NeverFell == 999999    \* PlayerFallingTestMaxY

(* A player enters at the foot of the middle of a spawn point.             *)
Spawned(o) == [x |-> o.x + o.width \div 2 - Box.width \div 2 - Box.x, y |-> o.y + o.height, ax |-> 0, ay |-> 0, jump |-> 0, last |-> NeverFell,
               falling |-> FALSE, released |-> TRUE, dead |-> FALSE]
Launched(t) == [x |-> t.x, y |-> t.y, ax |-> t.ax, ay |-> t.ay, last |-> NeverFell,
                falling |-> FALSE, hit |-> FALSE, spring |-> t.spring, projectile |-> t.projectile]
PhysicsInit ==
    /\ subject \in {"player", "object", "spectator"} /\ terrain \in DOMAIN Terrains
    /\ \E p \in SpawnPoints : player = Spawned(p)
    /\ \E t \in Thrown : object = Launched(t)
    /\ spectator = [x |-> MapWidth \div 2, y |-> MapHeight \div 2, ax |-> 0, ay |-> 0,
               left |-> 0, top |-> 0]

-----------------------------------------------------------------------------
(* Tiles.  A conversion to int cuts off towards zero.                      *)

Quotient(n) == IF n < 0 THEN -((-n) \div Tile) ELSE n \div Tile
CellOf(p) == <<Quotient(p[1]), Quotient(p[2])>>
Kind(c) == IF c \in DOMAIN Land.cell THEN Land.cell[c] ELSE "none"
OneWay == {"falling", "nodescend", "single"}

(* Those who fall land on a one-way tile if they come from above it.       *)
LandsFromBelow(c, last) ==
    c[2] = 0 \/ Kind(<<c[1], c[2] - 1>>) \in {"none", "hill"} \/ Kind(c) = "single"
LandsOn(c, last) ==
    /\ last <= c[2] * Tile
    /\ c[2] = 0 \/ Kind(<<c[1], c[2] - 1>>) \in {"none", "hill"} \/ Kind(c) = "single"
Stops(test, last, p) ==
    LET c == CellOf(p) IN
    \/ Kind(c) = "blocking"
    \/ Kind(c) \in OneWay /\ test = "falling" /\ LandsOn(c, last)
    \/ Kind(c) = "nodescend" /\ test = "through"

(* Points along an edge of the box, a tile apart, and its last.            *)
Steps(length) == [i \in 1 .. (length - 1) \div Tile + 1 |-> (i - 1) * Tile]
Side(x, top, lowest) ==
    Append([i \in DOMAIN Steps(Box.height) |-> <<x, top + Steps(Box.height)[i]>>], <<x, lowest>>)
Edge(x, y) ==
    Append([i \in DOMAIN Steps(Box.width) |-> <<x + Box.x + Steps(Box.width)[i], y>>],
           <<x + Box.x + Box.width - 1, y>>)
Blocked(test, last, ps) == \E p \in Range(ps) : Stops(test, last, p)
(* Those after the first that stops are not looked at.                     *)
Looked(test, last, ps) ==
    {p \in Range(ps) : \E i \in DOMAIN ps :
        p = ps[i] /\ \A j \in 1 .. i - 1 : ~Stops(test, last, ps[j])}
Deadly(ps) == \E p \in ps : Kind(CellOf(p)) = "killing"

-----------------------------------------------------------------------------
(* Speeds.                                                                 *)

Limited(v, most) == IF v < -most THEN -most ELSE IF v > most THEN most ELSE v
Slowed(v, by) == IF v < 0 THEN Min({v + by, 0}) ELSE Max({v - by, 0})
Bounced(v, spring) == IF v < 0 THEN ((-v) * spring) \div 2 ELSE -((v * spring) \div 2)
Ground(ps) == IF \E p \in ps : Kind(CellOf(p)) # "none" THEN Friction ELSE 0

(* The border of the map, left and right.                                  *)
LeftMost == -Box.x
RightMost == MapWidth - (Box.x + Box.width)
OffBorder(x) == x < LeftMost \/ x > RightMost
Bordered(x) == IF x < LeftMost THEN LeftMost ELSE IF x > RightMost THEN RightMost ELSE x

(* x and the speed after the tiles left or right of the box have been      *)
(* looked at, from the lines of the box before it moves down or up.        *)
Sideways(x, ax, top, lowLeft, lowRight, last, spring) ==
    LET left == Side(x + Box.x, top, lowLeft)
        right == Side(x + Box.width + Box.x, top, lowRight)
    IN  CASE ax < 0 /\ Blocked("normal", last, left) ->
               [x |-> (Quotient(x + Box.x) + 1) * Tile - Box.x, ax |-> Bounced(ax, spring), hit |-> TRUE]
          [] ax > 0 /\ Blocked("normal", last, right) ->
               [x |-> Quotient(x + Box.width + Box.x) * Tile - Box.width - Box.x,
                ax |-> Bounced(ax, spring), hit |-> TRUE]
          [] OTHER -> [x |-> x, ax |-> ax, hit |-> FALSE]

-----------------------------------------------------------------------------
(* A player.  A frame is one of his own client, which alone lets him jump, *)
(* or one of the server, which alone lets him die.                         *)

(* Speeds of a frame, from the keys.                                       *)
Jumps(p, in) == in.jump /\ p.released /\ ~p.falling /\ p.jump = 0 /\ ~in.server
Driven(p, in) ==
    LET ax == Limited(p.ax + in.dx * XAccel, XMax)
        ay == Min({p.ay + Gravity, YMax})
        jump == IF Jumps(p, in) THEN -JumpImpulse ELSE p.jump
        decel == IF in.jump /\ ay + jump < 0 THEN JumpDecelHeld ELSE JumpDecel
    IN  [p EXCEPT !.ax = IF in.dx = 0 THEN Slowed(ax, XDecel) ELSE ax, !.ay = ay,
                  !.jump = Min({0, jump + decel}), !.released = ~in.jump]

(* The tiles above or below, from the columns of the box before it moves.  *)
(* A head that hits a tile is no longer falling either.                    *)
Upright(p, y, down) ==
    LET v == p.ay + p.jump
        last == IF v < 0 \/ down THEN NeverFell ELSE Min({p.last, y})
        test == IF down THEN "through" ELSE "falling"
        head == Edge(p.x, y - Box.y - Box.height)
        feet == Edge(p.x, y - Box.y)
        bumps == v < 0 /\ Blocked("normal", last, head)
        lands == v > 0 /\ Blocked(test, last, feet)
        stop == CASE bumps -> (Quotient(y - Box.y - Box.height) + 1) * Tile + Box.y + Box.height
                  [] lands -> Quotient(y - Box.y) * Tile + Box.y
                  [] OTHER -> y
    IN  [y |-> stop, last |-> Max({last, stop}), rests |-> bumps \/ lands,
         seen |-> (IF v < 0 THEN Looked("normal", last, head) ELSE {}) \cup (IF v > 0 THEN Range(feet) ELSE {}),
         ground |-> IF v > 0 THEN Ground(Range(feet)) ELSE 0]

(* Nobody is followed once he has fallen off the screen (a bound where it  *)
(* is not the server that lets him die).                                   *)
OnScreen(y) == y - FallenBelow <= MapHeight

PlayerFrame(p, in) ==
    LET d == Driven(p, in)
        x == p.x + d.ax
        top == p.y - Box.y - Box.height
        low == p.y - Box.y - 1
        s == Sideways(Bordered(x), IF OffBorder(x) THEN 0 ELSE d.ax, top, low, low, p.last, 0)
        u == Upright(d, p.y + d.ay + d.jump, in.down)
        seen == u.seen \cup
                  (IF d.ax = 0 \/ OffBorder(x) THEN {}
                   ELSE Looked("normal", p.last, Side(Bordered(x) + Box.x + (IF d.ax > 0 THEN Box.width ELSE 0), top, low)))
        moved == [d EXCEPT !.ax = s.ax, !.falling = ~u.rests, !.last = u.last,
                           !.ay = IF u.rests THEN 0 ELSE @, !.jump = IF u.rests THEN 0 ELSE @]
    IN  IF in.server /\ Deadly(seen) THEN [moved EXCEPT !.dead = TRUE]
        ELSE [moved EXCEPT !.x = s.x, !.y = u.y,
                           !.ax = IF in.dx = 0 /\ u.rests THEN Slowed(@, u.ground) ELSE @,
                           !.dead = in.server /\ ~OnScreen(u.y)]

Inputs == [dx : {-1, 0, 1}, down : BOOLEAN, jump : BOOLEAN, server : BOOLEAN]

PlayerGoes(in) ==
    /\ subject = "player" /\ ~player.dead /\ OnScreen(player.y)
    /\ player' = PlayerFrame(player, in) /\ UNCHANGED <<subject, terrain, object, spectator>>

(* Somebody's shot pushes him (GPCPlayerRecoil).                           *)
Recoil(v) ==
    /\ subject = "player" /\ ~player.dead /\ player.ax + v \in -XMax .. XMax
    /\ player' = [player EXCEPT !.ax = @ + v] /\ UNCHANGED <<subject, terrain, object, spectator>>

-----------------------------------------------------------------------------
(* An object, an animation or an NPC (render_physics).                     *)

(* Left and right, from the lines of the picture before it moves.  The     *)
(* last point on the right is as far below its top as the picture is wide. *)
ObjectAside(o) ==
    LET x == o.x + o.ax
        foot == o.y + Picture.height - Box.y
    IN  Sideways(Bordered(x), IF OffBorder(x) THEN Bounced(o.ax, o.spring) ELSE o.ax,
                 foot - Box.height, foot - 1, o.y + Picture.width - Box.y - 1, o.last, o.spring)

(* Above and below, from the columns before it moves.                      *)
ObjectUpright(o, y, ay) ==
    LET last == IF ay < 0 THEN NeverFell ELSE Min({o.last, y + Picture.height})
        foot == y + Picture.height - Box.y
        head == Edge(o.x, foot - Box.height)
        feet == Edge(o.x, foot)
        bumps == ay < 0 /\ Blocked("normal", last, head)
        lands == ay > 0 /\ Blocked("falling", last, feet)
        stop == CASE bumps -> (Quotient(foot - Box.height) + 1) * Tile + Box.y + Box.height - Picture.height
                  [] lands -> Quotient(foot) * Tile + Box.y - Picture.height
                  [] OTHER -> y
    IN  [y |-> stop, last |-> Max({last, stop + Picture.height}), rests |-> bumps \/ lands,
         ground |-> IF ay > 0 THEN Ground(Range(feet)) ELSE 0]

ObjectFrame(o) ==
    LET ay == IF o.projectile THEN o.ay ELSE Min({o.ay + Gravity, YMax})
        s == ObjectAside(o)
        u == ObjectUpright(o, o.y + ay, ay)
    IN  [o EXCEPT !.x = s.x, !.y = u.y, !.last = u.last, !.falling = ~u.rests,
                  !.ax = IF u.rests THEN Slowed(s.ax, u.ground) ELSE s.ax,
                  !.ay = IF u.rests THEN Bounced(ay, o.spring) ELSE ay,
                  !.hit = OffBorder(o.x + o.ax) \/ s.hit \/ u.rests]

(* A projectile is gone at its first collision.                            *)
ObjectFlies ==
    /\ subject = "object" /\ ~(object.projectile /\ object.hit) /\ OnScreen(object.y)
    /\ object' = ObjectFrame(object) /\ UNCHANGED <<subject, terrain, player, spectator>>

-----------------------------------------------------------------------------
(* The view of a spectator, and what of the map is drawn.                  *)

Drifted(v, d, accel) ==
    LET w == Limited(v + d * accel, XMax) IN IF d = 0 THEN Slowed(w, XDecel) ELSE w
Centred(c, v, extent, length) ==
    CASE c + v < extent \div 2 -> [at |-> extent \div 2, v |-> 0]
      [] c + v >= extent \div 2 /\ c + v > length - extent \div 2 -> [at |-> length - extent \div 2, v |-> 0]
      [] OTHER -> [at |-> c + v, v |-> v]
(* left or top of the map on the screen.                                   *)
Offset(c, extent, length) ==
    IF length < extent THEN extent \div 2 - length \div 2
    ELSE Max({Min({0, extent \div 2 - c}), extent - length})

ControlSpectator(dx, dy) ==
    LET h == Centred(spectator.x, Drifted(spectator.ax, dx, XAccel), Screen.width, MapWidth)
        w == Centred(spectator.y, Drifted(spectator.ay, dy, XAccel), Screen.height, MapHeight)
    IN  /\ subject = "spectator"
        /\ spectator' = [x |-> h.at, y |-> w.at, ax |-> h.v, ay |-> w.v,
                    left |-> Offset(h.at, Screen.width, MapWidth),
                    top |-> Offset(w.at, Screen.height, MapHeight)]
        /\ UNCHANGED <<subject, terrain, player, object>>

PhysicsNext ==
    \/ \E in \in Inputs : PlayerGoes(in)
    \/ \E v \in Recoils : Recoil(v)
    \/ ObjectFlies
    \/ \E dx, dy \in {-1, 0, 1} : ControlSpectator(dx, dy)

PhysicsSpec == PhysicsInit /\ [][PhysicsNext]_physics

-----------------------------------------------------------------------------
(* In a map with a wall around it nobody and nothing gets into the wall or *)
(* through it, however speeds and recoils meet the tests of the two        *)
(* directions, each of which looks at the old place in the other one.      *)
Walled ==
    \A c \in DOMAIN Land.cell :
       c[1] \in {0, Land.width - 1} \/ c[2] \in {0, Land.height - 1} => Land.cell[c] = "blocking"
InRoom(x, feet) ==
    /\ x + Box.x >= Tile /\ x + Box.x + Box.width <= MapWidth - Tile
    /\ feet - Box.y - Box.height >= Tile /\ feet - Box.y <= MapHeight - Tile
InsideWalls ==
    ~(InRoom(player.x, player.y) /\ InRoom(object.x, object.y + Picture.height)) => ~Walled

(* A one-way tile that somebody falls past, walks into or is pushed into   *)
(* does not lift him to its top; a ledge that he enters by its corner may, *)
(* and so may, once he presses the key for down, a tile that does not let  *)
(* him descend: tile_collision stops him there wherever he fell from       *)
(* (last is then that of a new fall).                                      *)
NeverLifted ==
    player.ay + player.jump >= 0 /\ (player.falling \/ ~player.released) /\ player'.y < player.y
       => \E p \in Range(Edge(player.x, player'.y - Box.y)) :
             \/ Kind(CellOf(p)) = "blocking"
             \/ Kind(CellOf(p)) = "nodescend" /\ player'.last = NeverFell

(* Nobody ends up where he could not have walked, jumped or fallen to.     *)
MovesTrue == [][InsideWalls' /\ NeverLifted]_physics
=============================================================================
