---------------------------- MODULE AccountPromise ----------------------------
(***************************************************************************)
(* What the cluster promises the clients of one account, without its       *)
(* servers: one client is in at a time, the lobby has a player object for  *)
(* it from before it is let in until after it has left, and every login is *)
(* answered.                                                               *)
(***************************************************************************)
CONSTANTS Clients, None

VARIABLES
    st,    \* each client: "out", "asking", "in", "left"
    owner  \* the client whose player object the lobby has, or None

vars == <<st, owner>>

Init == st = [c \in Clients |-> "out"] /\ owner = None

Becomes(c, s) == st' = [st EXCEPT ![c] = s] /\ UNCHANGED owner

Ask(c) == st[c] = "out" /\ Becomes(c, "asking")

\* A client that asked gets a player object when there is none, or that of a client
\* that has left.
Admit(c) ==
    /\ st[c] = "asking"
    /\ owner = None \/ st[owner] = "left"
    /\ owner' = c
    /\ UNCHANGED st

Enter(c) ==
    /\ st[c] = "asking" /\ owner = c
    /\ \A d \in Clients : st[d] # "in"
    /\ Becomes(c, "in")

Refuse(c) == st[c] = "asking" /\ owner # c /\ Becomes(c, "out")

\* It goes, or it is kicked for another one.
Leave(c) == st[c] # "left" /\ Becomes(c, "left")

Release ==
    /\ owner # None /\ st[owner] = "left"
    /\ owner' = None
    /\ UNCHANGED st

Next ==
    \/ \E c \in Clients : Ask(c) \/ Admit(c) \/ Enter(c) \/ Refuse(c) \/ Leave(c)
    \/ Release

\* Every login is answered, and no player object stays behind.
Answers == \A c \in Clients : st[c] = "asking" ~> st[c] # "asking"
Releases == \A c \in Clients : (owner = c /\ st[c] = "left") ~> owner # c

Safety == Init /\ [][Next]_vars
Spec == Safety /\ Answers /\ Releases
=============================================================================
