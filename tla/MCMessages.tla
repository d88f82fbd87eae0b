----------------------------- MODULE MCMessages -----------------------------
(* A run follows either clients that compete for the places of a server    *)
(* (MessageSequencer), the server's packet buffer (StackedSend), or one    *)
(* who moves about in a map, a thing that flies and the view of one who    *)
(* watches (Physics).  The others stand still.                             *)
EXTENDS MessageSequencer, StackedSend, Physics, TLC
VARIABLE part
CONSTANTS c1, c2, c3, a, b

ThreeClients == {c1, c2, c3}
OnlyC3 == {c3}
States == {<<"client", "State">>, <<"server", "State">>}
Both == {a, b}
Symmetry == Permutations({c1, c2}) \cup Permutations(Both)

(* A room with a platform and a ledge, and a pit without walls, in tiles   *)
(* of 16 pixels, scaled down by 4 as are the box and the speeds.           *)
CellsOf(rows) ==
    [width |-> Len(rows[1]), height |-> Len(rows),
     cell |-> [c \in (0 .. Len(rows[1]) - 1) \X (0 .. Len(rows) - 1) |-> rows[c[2] + 1][c[1] + 1]]]
Room ==
    LET W == "blocking"
        o == "none" IN
    CellsOf(<< <<W, W, W, W, W, W>>,
               <<W, o, o, o, o, W>>,
               <<W, o, o, o, o, W>>,
               <<W, o, o, "falling", o, W>>,
               <<W, o, o, o, W, W>>,
               <<W, W, W, W, W, W>> >>)
Pit ==
    LET o == "none" IN
    CellsOf(<< <<o, o, o, o, o>>,
               <<o, o, o, o, o>>,
               <<o, o, o, o, "single">>,
               <<o, "nodescend", o, "killing", o>> >>)
RoomAndPit == <<Room, Pit>>
GoatBox == [x |-> 1, y |-> 0, width |-> 3, height |-> 5]
Bomb == [width |-> 5, height |-> 6]
Window == [width |-> 10, height |-> 8]
Entrance == {[x |-> 8, y |-> 8, width |-> 5, height |-> 4]}
Flying(ax, ay, spring, projectile) ==
    [x |-> 8, y |-> 6, ax |-> ax, ay |-> ay, spring |-> spring, projectile |-> projectile]
Bombs == {Flying(ax, ay, 1, FALSE) : ax \in {-2, 1}, ay \in {-2, 0}} \cup {Flying(2, 1, 0, TRUE)}
Pushes == {-1, 1}
Still == Flying(2, 1, 0, TRUE)

MessagesInit ==
    /\ part \in {"heaps", "buffer", "physics"}
    /\ Init
    /\ StackInit
    /\ PhysicsInit
    /\ part # "physics" => subject = "spectator" /\ terrain = 1 /\ object = Launched(Still)
MessagesNext ==
    \/ part = "heaps" /\ Next /\ UNCHANGED <<part, stackVars, physics>>
    \/ part = "buffer" /\ StackNext /\ UNCHANGED <<part, vars, physics>>
    \/ part = "physics" /\ PhysicsNext /\ UNCHANGED <<part, vars, stackVars>>
MessagesSpec == MessagesInit /\ [][MessagesNext]_<<part, vars, stackVars, physics>>
=============================================================================
