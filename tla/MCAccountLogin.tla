---------------------------- MODULE MCAccountLogin ----------------------------
(***************************************************************************)
(* AccountLogin for TLC: the clients are interchangeable, and so are the   *)
(* gates, and states that differ only in what a gate knew of a session     *)
(* that is gone are one state, since nothing reads it any more.            *)
(***************************************************************************)
EXTENDS AccountLogin, TLC

Symmetry == Permutations(Clients) \union Permutations(Gates)

Here == {s \in Clients : sock[s] # "gone"}
View == <<net, up, crashes, sock, gate, session_id, closing, send_login \intersect Here,
          in_game \intersect Here, user_data \intersect Here, [s \in Here |-> tries[s]], quque,
          [g \in Gates |-> IF client[g] \in Here THEN client[g] ELSE None],
          redis_vars, login_vars, db_vars, lobby_vars>>
=============================================================================
