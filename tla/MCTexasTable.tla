------------------------------ MODULE MCTexasTable ------------------------------
(***************************************************************************)
(* TexasTable for TLC.  It starts where all the players have sat down and  *)
(* entered the table, one after the other, before the first tick.          *)
(***************************************************************************)
EXTENDS TexasTable

CONSTANTS p1, p2, p3

Order == <<p1, p2, p3>>
MCStack == [p \in Players |-> IF p = p1 THEN 3 ELSE IF p = p2 THEN 4 ELSE 1]

Comes(t, i) == do_sit_down([t EXCEPT !.chair[Order[i]] = i], Order[i])
MCInit == self = FoldLeft(Comes, init, <<1, 2>>) /\ coming = 0 /\ hands = 0

\* WF_vars(Tick), with ENABLED <<Tick>>_vars written out: TLC evaluates it too slowly.
CanTick == \E t \in Ticks : t # self /\ (hands < MaxHands \/ ~Begins(t))
MCSpec == MCInit /\ [][Next]_vars /\ ([]<>~CanTick \/ []<><<Tick>>_vars)

=============================================================================
