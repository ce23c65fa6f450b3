--------------------------- MODULE MCRechargeOrder ---------------------------
(***************************************************************************)
(* RechargeOrder for TLC: one player with one order and one cash-out that  *)
(* is refused.  As gates and game servers are alike, his first login may   *)
(* as well be at gate g1 and game server s1.                               *)
(***************************************************************************)
EXTENDS RechargeOrder
CONSTANTS p1, g1, s1

MCOwner == [q \in Payments |-> p1]

MCFirst == moves = 0 /\ moves' = 1 => live'[p1] = g1 /\ obj'[s1][p1] # None
MCSpec == Init /\ [][Next /\ MCFirst]_vars /\ Fairness
=============================================================================
