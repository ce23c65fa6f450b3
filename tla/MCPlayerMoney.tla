---------------------------- MODULE MCPlayerMoney ----------------------------
(* PlayerMoney for TLC: the game servers are interchangeable. *)
EXTENDS PlayerMoney

ServerSymmetry == Permutations(Servers)

=============================================================================
