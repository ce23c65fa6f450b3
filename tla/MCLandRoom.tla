------------------------------- MODULE MCLandRoom -------------------------------
(***************************************************************************)
(* LandRoom for TLC: the players are interchangeable, and states that      *)
(* differ only in a turn nothing reads any more are one state: the first   *)
(* caller matters until the cards are played, whose turn it is matters     *)
(* while there are calls and while cards are played.                       *)
(***************************************************************************)
EXTENDS LandRoom, TLC

Symmetry == Permutations(Players)

Read(turn, S) == [t \in Tables |-> IF status[t] \in S THEN turn[t] ELSE 0]
View == <<player, room, chairs, ready_list_, is_double, status,
          Read(first_turn, {"CALL", "DOUBLE"}), Read(cur_turn, {"CALL", "PLAY"})>>

=============================================================================
