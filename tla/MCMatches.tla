------------------------------ MODULE MCMatches ------------------------------
(* A run plays either matches with shots, bombs and frogs (Arena) or       *)
(* matches that are scored (Scoring).                                      *)
EXTENDS Arena, Scoring, TLC
VARIABLE part
CONSTANTS p1, p2

(* Persons of the arena.  *)
Two == {p1, p2}
PersonSymmetry == Permutations(Two)

(* w: warmup, p: prevent_pick, a and n: how many animations and NPCs at a  *)
(* time, map: kinds of the objects of the map.                             *)
G(w, p, a, n, map) ==
    [warmup |-> w, preventPick |-> p, maxAnims |-> a, maxNpcs |-> n, map |-> map]
TestGames == {G(FALSE, TRUE, 0, 2, << >>), G(FALSE, FALSE, 1, 0, <<"bomb">>),
              G(TRUE, TRUE, 1, 1, << >>), G(FALSE, TRUE, 1, 0, <<"shot">>)}

MatchesInit ==
    /\ part \in {"arena", "scoring"}
    /\ ArenaInit
    /\ part # "arena" => game = G(FALSE, FALSE, 1, 0, <<"bomb">>)
    /\ ScoringInit
    /\ part # "scoring" => type = "SR"
MatchesNext ==
    \/ part = "arena" /\ ArenaNext /\ UNCHANGED <<part, scoring>>
    \/ part = "scoring" /\ ScoringNext /\ UNCHANGED <<part, arena>>
MatchesSpec == MatchesInit /\ [][MatchesNext]_<<part, arena, scoring>>
=============================================================================
