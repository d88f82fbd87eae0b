------------------------------- MODULE MCMenus -------------------------------
(* A run follows either the menu's list of servers (Browser) or the        *)
(* windows of a running game (Desk); the other stands still.               *)
EXTENDS Browser, Desk
VARIABLE part

S(name, locked, free, compatible, valid_port) ==
    [name |-> name, locked |-> locked, free |-> free, compatible |-> compatible,
     valid_port |-> valid_port]
TwoServers == {S(1, TRUE, 2, TRUE, TRUE), S(2, FALSE, 1, FALSE, FALSE)}

MenusInit ==
    /\ part \in {"browser", "desk"}
    /\ BrowserInit /\ DeskInit
    /\ part = "desk" => kind = "lan" /\ only

MenusNext ==
    \/ part = "browser" /\ BrowserNext /\ UNCHANGED <<part, desk>>
    \/ part = "desk" /\ DeskNext /\ UNCHANGED <<part, browser>>

MenusSpec == MenusInit /\ [][MenusNext]_<<part, browser, desk>>
=============================================================================
