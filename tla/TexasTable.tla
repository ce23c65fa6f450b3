------------------------------- MODULE TexasTable -------------------------------
(***************************************************************************)
(* One table of Texas hold'em (texas_table.lua): players sit down, blinds  *)
(* are posted, cards dealt, bets made in four rounds, side pots recorded,  *)
(* the hand settled and the table made ready again, driven by the room's   *)
(* tick and by the players' messages, while players come and go.           *)
(*                                                                         *)
(* self is the table with its players.  A function of the source is an     *)
(* operator from a table to a table; one that raises a Lua error sets err, *)
(* what follows it is not done, and what it has assigned so far stays.     *)
(*                                                                         *)
(* Cards are left out: who holds cards is kept, and how the hands compare  *)
(* is chosen at the settlement.  Of t_bet only the entry of the current    *)
(* round is kept, no other is ever read.  Time is left out but for due.  A *)
(* client sends CS_TexasEnterTable once after it has taken a seat, and an  *)
(* action once after it has been told that it is its turn, be it too late. *)
(***************************************************************************)
EXTENDS Integers, SequencesExt

CONSTANTS
    Players,
    Chairs,       \* 7 in the source
    None,         \* guid 0, and the value false of player_list_
    Stack,        \* what a player has who comes for the first time
    Small,        \* blind_small_bet
    RoomLimit,    \* the least money that lets a player into the room
    Raises,       \* amounts a player raises by
    MaxComing,    \* bound: how often a player sits down
    MaxHands      \* bound: hands dealt

ASSUME TableAssumption ==
    /\ IsFiniteSet(Players) /\ None \notin Players
    /\ Chairs \in Nat \ {0, 1} /\ Small \in Nat \ {0} /\ RoomLimit \in Nat
    /\ Stack \in [Players -> Nat] /\ Raises \subseteq Nat \ {0}
    /\ MaxComing \in Nat /\ MaxHands \in Nat

Big == 2 * Small
Seat == [guid : Players \union {None}, chair : 0 .. Chairs]
NoSeat == [guid |-> None, chair |-> 0]
NoBet == -1       \* t_bet has no entry for the player


\* t_status; public cards are shown from FLOP on.
WAITING == 1
PRE_FLOP == 2
RIVER == 5
SHOW_DOWN == 6

VARIABLES
    self,         \* the table
    coming,       \* players who have sat down so far
    hands         \* hands dealt so far

vars == <<self, coming, hands>>

Pots == [money : Int, players : [Players -> Nat]]

TypeOK ==
    /\ self.err = FALSE
    /\ self.chair \in [Players -> 0 .. Chairs]
    /\ self.money \in [Players -> Nat]
    /\ self.t_player \in [Players -> {"nil", "WAITING", "GAME", "ALL_IN", "FOLD"}]
    /\ self.cards \subseteq Players
    /\ self.t_bet \in [Players -> Nat \union {NoBet}]
    /\ self.t_status \in WAITING .. SHOW_DOWN
    /\ self.due \in BOOLEAN /\ self.ready \in BOOLEAN /\ self.award \in BOOLEAN
    /\ self.t_pot \in Nat /\ self.max \in Nat
    /\ self.play \in Int /\ self.pass \in Nat /\ self.count \in Nat
    /\ self.gen \in Seq(Players) /\ self.side \in Seq(Pots)
    /\ self.told \in Players \union {None}
    /\ {self.active, self.next, self.SB, self.BB, self.button} \subseteq Seat
    /\ coming \in 0 .. MaxComing /\ hands \in 0 .. MaxHands

\* due: t_timer has passed for certain; if not, it may have.  ready: t_ready_begin.
\* award: t_award_flag.  max: t_cur_max_bet.
\* told: who has been told to think, ACT_THINK, and has not acted since.
\* play, pass, count: play_count, pass_count, t_player_count.  gen: t_side_generator.
\* side: t_side_pot with t_side_pot_players, how often a player is listed; nil is nobody.
init ==
    [chair |-> [p \in Players |-> 0], money |-> Stack,
     t_player |-> [p \in Players |-> "nil"], cards |-> {}, t_bet |-> [p \in Players |-> NoBet],
     t_status |-> WAITING, due |-> TRUE, ready |-> FALSE, award |-> FALSE,
     t_pot |-> 0, max |-> 0, play |-> 0, pass |-> 0, count |-> 0, gen |-> <<>>, side |-> <<>>,
     active |-> NoSeat, next |-> NoSeat, SB |-> NoSeat, BB |-> NoSeat, button |-> NoSeat,
     told |-> None, err |-> FALSE]

Init == self = init /\ coming = 0 /\ hands = 0

-----------------------------------------------------------------------------
(* The table, its chairs and its players. *)

AtTable(t) == {p \in Players : t.t_player[p] # "nil"}
With(t, s) == {p \in Players : t.t_player[p] = s}
StillIn(t) == With(t, "GAME") \union With(t, "ALL_IN")
Error(t) == [t EXCEPT !.err = TRUE]

get_player(t, c) ==
    IF \E p \in Players : c # 0 /\ t.chair[p] = c
    THEN CHOOSE p \in Players : t.chair[p] = c
    ELSE None

\* The first chair after c, going round, where one of S sits; else the seat given.
Wrap(c) == IF c > Chairs THEN c - Chairs ELSE c
SeatAfter(t, c, S, else) ==
    LET found == {i \in 1 .. Chairs : get_player(t, Wrap(c + i)) \in S}
    IN  IF found = {} THEN else
        ELSE LET d == Wrap(c + Min(found)) IN [guid |-> get_player(t, d), chair |-> d]

\* A player who is at the table keeps his status and his cards, and t_button is kept.
reset(t) ==
    [t EXCEPT !.t_status = WAITING, !.due = TRUE, !.ready = FALSE, !.award = FALSE,
              !.t_pot = 0, !.max = 0, !.play = 0, !.pass = 0, !.count = 0,
              !.gen = <<>>, !.side = <<>>, !.active = NoSeat, !.next = NoSeat, !.told = None,
              !.SB = NoSeat, !.BB = NoSeat,
              !.t_bet = [p \in Players |-> IF p \in AtTable(t) THEN 0 ELSE NoBet]]

-----------------------------------------------------------------------------
(* Bets. *)

\* Mutant: cost_money does not look at what the player has.
Bug_add_bet(t, p, m) ==
    IF p = None \/ t.t_player[p] = "nil" THEN Error(t)
    ELSE LET bet == t.t_bet[p] + m
             t1 == [t EXCEPT !.money[p] = @ - m, !.t_pot = @ + m, !.t_bet[p] = bet, !.max = Max({@, bet})]
         IN  IF t1.money[p] # 0 THEN t1 ELSE [t1 EXCEPT !.t_player[p] = "ALL_IN", !.gen = Append(@, p)]

\* It charges nothing, and nobody asks, when the player has less or when m is not positive.
cost_money(t, p, m) == IF m <= 0 \/ t.money[p] < m THEN t ELSE [t EXCEPT !.money[p] = @ - m]

BetMore(t, p, m) ==
    [t EXCEPT !.t_bet[p] = @ + m, !.max = IF t.t_bet[p] + m >= @ THEN t.t_bet[p] + m ELSE @]
record_side_generator(t, p) == [t EXCEPT !.t_player[p] = "ALL_IN", !.gen = Append(@, p)]

\* The pot grows whether or not the player has been charged.
add_bet(t, p, m) ==
    LET t1 == [cost_money(t, p, m) EXCEPT !.t_pot = @ + m]
        t2 == BetMore(t1, p, m)
    IN  IF p = None THEN Error(t)
        ELSE IF t.t_bet[p] = NoBet THEN Error(t1)
        ELSE IF t2.money[p] # 0 THEN t2
        ELSE IF t.t_player[p] = "nil" THEN Error(t2)
        ELSE record_side_generator(t2, p)

\* A bet that takes all the player has makes him go all-in.
Bets(t, p, m) ==
    IF m < t.money[p] THEN add_bet([t EXCEPT !.pass = @ + 1], p, m)
    ELSE IF t.t_player[p] = "nil" THEN Error(t)
    ELSE add_bet([t EXCEPT !.t_player[p] = "ALL_IN", !.play = @ - 1], p, t.money[p])

\* The side pots of the players who went all-in in this round, numbered from 1 in every
\* round: a pot of an earlier round under the same number gets a new amount and keeps
\* its players.
cal_side_pot(t) ==
    LET above(g) == {p \in AtTable(t) : t.t_bet[p] > t.t_bet[g]}
        least(g) == Min({t.max} \union {t.t_bet[p] : p \in above(g)})
        before(k) == IF k <= Len(t.side) THEN t.side[k].players ELSE [p \in Players |-> 0]
        pot(k, g) == [money |-> Cardinality(above(g)) * (least(g) - t.t_bet[g]),
                      players |-> [p \in Players |-> before(k)[p] + (IF p \in above(g) THEN 1 ELSE 0)]]
    IN  [t EXCEPT !.gen = <<>>,
                  !.side = [k \in 1 .. Max({Len(t.gen), Len(t.side)}) |->
                              IF k <= Len(t.gen) THEN pot(k, t.gen[k]) ELSE t.side[k]]]

-----------------------------------------------------------------------------
(* Turns and rounds. *)

\* Mutant: a round is over when everybody has passed and one more.
Bug_check_next_round(t) ==
    /\ \A p \in With(t, "GAME") : t.t_bet[p] = t.max
    /\ Cardinality(With(t, "GAME")) = 1 \/ t.t_status = WAITING \/ t.play < t.pass

check_next_round(t) ==
    /\ \A p \in With(t, "GAME") : t.t_bet[p] = t.max
    /\ Cardinality(With(t, "GAME")) = 1 \/ t.t_status = WAITING \/ t.play <= t.pass
RoundOver(t) ==
    [t EXCEPT !.due = TRUE,
              !.t_status = IF Cardinality(With(t, "GAME")) = 1 /\ With(t, "ALL_IN") = {}
                           THEN SHOW_DOWN ELSE @]

\* The loop that looks for the player after t_next_player stops at the first one, unless
\* nobody sits on t_next_player's chair: then it goes on from the one it has found, with its
\* counter further on.
PlayerAfterNext(t) ==
    LET look(a, i) ==
            LET c == Wrap(a.next.chair + i)
                p == get_player(t, c)
            IN  IF a.stop \/ p \notin With(t, "GAME") THEN a
                ELSE [next |-> [guid |-> p, chair |-> c], stop |-> get_player(t, t.next.chair) # None]
    IN  FoldLeft(look, [next |-> t.next, stop |-> FALSE], [i \in 1 .. Chairs |-> i])

\* The turn passes to t_next_player.
set_next_player(t) ==
    LET found == PlayerAfterNext(t)
    IN  IF check_next_round(t) THEN RoundOver(t)
        ELSE [t EXCEPT !.active = t.next, !.next = found.next, !.due = FALSE,
                       !.told = IF found.stop THEN t.next.guid ELSE None]

\* The active player has not acted in time: he checks, calls, or goes all-in with what he
\* has.  Who sits on the active chair acts.
cur_active_player_time_pass(t) ==
    LET p == get_player(t, t.active.chair)
    IN  IF p = None THEN t
        ELSE IF t.t_bet[p] = NoBet THEN Error(t)
        ELSE IF t.t_bet[p] = t.max THEN [t EXCEPT !.pass = @ + 1]
        ELSE Bets(t, p, t.max - t.t_bet[p])

\* b is whom the traversal of t_player meets first.
set_button_and_blind(t, b) ==
    LET button == IF t.button = NoSeat THEN [guid |-> b, chair |-> t.chair[b]]
                  ELSE SeatAfter(t, t.button.chair, AtTable(t), t.button)
        first == SeatAfter(t, button.chair, AtTable(t), NoSeat)
        second == SeatAfter(t, button.chair, AtTable(t) \ {first.guid}, NoSeat)
    IN  IF t.SB = NoSeat THEN [t EXCEPT !.button = button, !.SB = first, !.BB = second]
        ELSE [t EXCEPT !.button = button, !.BB = first]

position_init(t, b) ==
    LET t1 == set_button_and_blind([t EXCEPT !.play = t.count], b)
        active == SeatAfter(t1, t1.BB.chair, With(t1, "WAITING"), t1.active)
    IN  [t1 EXCEPT !.active = active, !.due = FALSE,
                   !.next = SeatAfter(t1, active.chair, With(t1, "WAITING"), t1.next)]

\* The blinds are paid by who sits on the chairs of the blinds now.
send_user_cards(t) ==
    LET t1 == add_bet([t EXCEPT !.t_status = PRE_FLOP, !.play = 0, !.pass = 0, !.max = 0],
                      get_player(t, t.SB.chair), Small)
        t2 == add_bet([t1 EXCEPT !.max = Big], get_player(t, t.BB.chair), Big)
        dealt == With(t2, "WAITING")
    IN  IF t1.err THEN t1 ELSE IF t2.err THEN t2
        ELSE [t2 EXCEPT !.t_player = [p \in Players |-> IF p \in dealt THEN "GAME" ELSE @[p]],
                        !.cards = @ \union dealt, !.play = Cardinality(dealt), !.due = FALSE,
                        !.told = IF t.active.guid \in dealt THEN t.active.guid ELSE None]

send_public_cards(t) ==
    LET t1 == IF t.gen = <<>> THEN t ELSE cal_side_pot(t)
        t2 == [t1 EXCEPT !.t_status = @ + 1, !.max = 0, !.pass = 0,
                         !.play = Cardinality(With(t, "GAME")),
                         !.t_bet = [p \in Players |-> IF @[p] = NoBet THEN NoBet ELSE 0]]
        t3 == [t2 EXCEPT !.active = t.SB,
                         !.next = SeatAfter(t, t.SB.chair, With(t, "GAME"), @)]
    IN  IF t.t_status = RIVER THEN [t EXCEPT !.t_status = SHOW_DOWN]
        ELSE IF t2.play <= 1 THEN [t2 EXCEPT !.due = FALSE]
        ELSE IF t3.active.guid \notin With(t, "GAME")
             THEN [set_next_player(t3) EXCEPT !.due = FALSE]
        ELSE IF get_player(t, t3.active.chair) = None THEN Error(t3)
        ELSE [t3 EXCEPT !.due = FALSE, !.told = t.SB.guid]

start_game(t) ==
    LET t1 == RoundOver(t)
        t2 == IF t.active.guid \in With(t, "GAME") THEN cur_active_player_time_pass(t) ELSE t
    IN  IF check_next_round(t)
        THEN IF t1.t_status = WAITING THEN send_user_cards(t1)
             ELSE IF t1.t_status < SHOW_DOWN THEN send_public_cards(t1) ELSE t1
        ELSE IF t2.err THEN t2 ELSE set_next_player(t2)

-----------------------------------------------------------------------------
(* The settlement. *)

\* What raises an error in it before anybody is paid: a side pot without players, one that
\* lists a player without cards, or a player who is in without cards; with one player left,
\* a side pot without players, or nobody there to be told.
Listed(pot) == {p \in Players : pot.players[p] > 0}
Alone(t) == Cardinality(StillIn(t)) < 2 \/ t.count < 2
Unsettled(t) ==
    \/ \E k \in DOMAIN t.side : Listed(t.side[k]) = {}
    \/ Alone(t) /\ AtTable(t) = {}
    \/ ~Alone(t) /\ ~(StillIn(t) \subseteq t.cards)
    \/ ~Alone(t) /\ \E k \in DOMAIN t.side : ~(Listed(t.side[k]) \subseteq AtTable(t) \intersect t.cards)

\* The best hands of S; who of several comes first is the one get_win_player adds once.
Best(S, rank) == {p \in S : \A q \in S : rank[q] <= rank[p]}

\* The winners of the main pot share it, and each side pot they are listed in by how often
\* they are; a side pot without them goes to its best hands, who then count as winners.
Shares(t, rank, first) ==
    LET main == Best(StillIn(t), rank)
        add(final, k) ==
            LET pot == t.side[k]
                listed == Listed(pot)
                holders == {p \in listed : final[p] # NoBet}
                best == Best(listed, rank)
                once == IF first \in best THEN first ELSE CHOOSE p \in best : TRUE
                parts == IF holders # {} THEN [p \in holders |-> pot.players[p]]
                         ELSE [p \in best |-> IF p = once THEN 1 ELSE pot.players[p]]
                share == pot.money \div SumFunction(parts)
            IN  [p \in Players |-> IF p \notin DOMAIN parts THEN final[p]
                                   ELSE Max({final[p], 0}) + parts[p] * share]
    IN  FoldLeft(add,
                 [p \in Players |-> IF p \in main THEN t.t_pot \div Cardinality(main) ELSE NoBet],
                 [k \in DOMAIN t.side |-> k])

\* The one who is left, the last one met if there are several, is paid the side pots he
\* is listed in, and not the pot.
show_down_with_one_player(t, last) ==
    LET left == IF last \in StillIn(t) THEN {last} ELSE {p \in StillIn(t) : p = CHOOSE q \in StillIn(t) : TRUE}
    IN  [p \in Players |->
            IF p \in left THEN SumFunction([k \in DOMAIN t.side |-> t.side[k].players[p] * t.side[k].money])
            ELSE NoBet]

\* Mutant: t_award_flag is not set.
Bug_show_down_and_award(t, rank, first) ==
    LET final == IF Alone(t) THEN show_down_with_one_player(t, first) ELSE Shares(t, rank, first)
    IN  IF Unsettled(t) THEN Error(t)
        ELSE [t EXCEPT !.money = [p \in Players |-> @[p] + Max({final[p], 0})], !.due = FALSE]

show_down_and_award(t, rank, first) ==
    LET t1 == IF t.gen = <<>> THEN t ELSE cal_side_pot(t)
        final == IF Alone(t1) THEN show_down_with_one_player(t1, first) ELSE Shares(t1, rank, first)
    IN  IF Unsettled(t1) THEN Error(t1)
        ELSE [t1 EXCEPT !.money = [p \in Players |-> @[p] + Max({final[p], 0})],
                        !.award = TRUE, !.due = FALSE]

-----------------------------------------------------------------------------
(* Coming and going. *)

\* What player_stand_up does before it looks at how many are left.  The chair is free
\* and chair_id nil when it asks whether the active player or the next one has left.
Leaves(t, P) ==
    [t EXCEPT !.count = @ - Cardinality(P),
              !.play = @ - Cardinality(P \intersect StillIn(t)),
              !.button = IF @.guid \in P THEN NoSeat ELSE @,
              !.chair = [p \in Players |-> IF p \in P THEN 0 ELSE @[p]],
              !.t_player = [p \in Players |-> IF p \in P THEN "nil" ELSE @[p]],
              !.cards = @ \ P]

\* Back to waiting: who has too little is forced out, the others are dealt in again.
info_ready_to_all(t) ==
    LET poor == {p \in Players : t.chair[p] # 0 /\ t.money[p] < RoomLimit}
        t1 == reset(Leaves(t, poor))
    IN  IF ~t.due THEN t
        ELSE [t1 EXCEPT !.t_player = [p \in Players |-> IF @[p] = "nil" THEN "nil" ELSE "WAITING"],
                        !.cards = @ \ AtTable(t1),
                        !.due = FALSE, !.count = Cardinality(AtTable(t1)),
                        !.ready = Cardinality(AtTable(t1)) > 1]

\* Mutant: the pot is not looked at.
Bug_player_stand_up(t, p) ==
    LET t1 == Leaves(t, {p})
    IN  IF t1.count < 1 THEN reset(t1) ELSE IF t1.count >= 2 THEN t1 ELSE info_ready_to_all(t1)

player_stand_up(t, p) ==
    LET t1 == Leaves(t, {p})
    IN  IF t1.count < 1 THEN reset(t1)
        ELSE IF t1.count >= 2 THEN t1
        ELSE IF t1.t_pot = 0 THEN info_ready_to_all(t1)
        ELSE [t1 EXCEPT !.t_status = SHOW_DOWN]

do_sit_down(t, p) ==
    [t EXCEPT !.t_player[p] = "WAITING", !.cards = @ \ {p}, !.t_bet[p] = 0, !.due = FALSE,
              !.count = @ + 1, !.ready = @ \/ t.count + 1 > 1]

-----------------------------------------------------------------------------
(* The steps. *)

After(t) == [t EXCEPT !.err = FALSE]
Step(t) == self' = After(t)

\* A player takes the first free chair.
Free(c) == get_player(self, c) = None

Takes(c) == Free(c) /\ \A d \in 1 .. c - 1 : ~Free(d)

\* enter_room_and_sit_down.
PlayerSitDown(p) ==
    /\ self.chair[p] = 0 /\ self.money[p] >= RoomLimit /\ coming < MaxComing
    /\ \E c \in 1 .. Chairs : Takes(c) /\ Step([self EXCEPT !.chair[p] = c])
    /\ coming' = coming + 1 /\ UNCHANGED hands

\* CS_TexasEnterTable.
EnterTable(p) ==
    /\ self.chair[p] # 0 /\ self.t_player[p] = "nil"
    /\ Step(do_sit_down(self, p))
    /\ UNCHANGED <<coming, hands>>

\* He comes from another table of the room, whatever he has left.
ChangeTable(p) ==
    /\ self.chair[p] = 0 /\ coming < MaxComing
    /\ \E c \in 1 .. Chairs : Takes(c) /\ Step(do_sit_down([self EXCEPT !.chair[p] = c], p))
    /\ coming' = coming + 1 /\ UNCHANGED hands

\* He stands up, leaves the table, changes to another one or loses his connection.
StandUp(p) ==
    /\ self.chair[p] # 0
    /\ \E due \in {TRUE, self.due} : Step(player_stand_up([self EXCEPT !.due = due], p))
    /\ UNCHANGED <<coming, hands>>

\* What player_action makes of the message, and the turn passes on.
Act(p, t) ==
    /\ self.told = p /\ self.active.guid = p /\ self.chair[p] # 0
    /\ Step(IF t.err THEN [t EXCEPT !.told = None] ELSE set_next_player([t EXCEPT !.told = None]))
    /\ UNCHANGED <<coming, hands>>

Check(p) == self.t_bet[p] = self.max /\ Act(p, [self EXCEPT !.pass = @ + 1])
Fold(p) ==
    /\ self.t_player[p] # "nil"
    /\ Act(p, [self EXCEPT !.t_player[p] = "FOLD", !.play = @ - 1])
Raise(p) == \E m \in Raises : Act(p, Bets(self, p, m))
Call(p) == self.t_bet[p] # self.max /\ Act(p, Bets(self, p, self.max - self.t_bet[p]))
AllIn(p) == Act(p, Bets(self, p, self.money[p]))

\* What chance decides: whom a traversal meets first, and how the hands compare.
Ranks(t) ==
    LET P == {p \in AtTable(t) : t.t_player[p] # "WAITING"}
    IN  IF t.t_status # SHOW_DOWN \/ t.award \/ t.err THEN {<<>>}
        ELSE {rank \in [P -> 1 .. Cardinality(P)] :
                \A p \in P : rank[p] = 1 \/ \E q \in P : rank[q] = rank[p] - 1}

\* What a tick may lead to; an error ends it.
Starts(t, b) ==
    IF ~(t.count > 1 /\ t.ready) THEN t
    ELSE IF t.t_status = WAITING /\ t.play = 0 THEN position_init(t, b)
    ELSE start_game(t)
Ends(t, rank, first) ==
    IF t.err \/ t.t_status # SHOW_DOWN THEN t
    ELSE IF t.award THEN info_ready_to_all(t)
    ELSE show_down_and_award(t, rank, first)
Ticks ==
    UNION {LET t == Starts([self EXCEPT !.due = TRUE], b)
           IN  UNION {{After(Ends(t, rank, first)) : first \in IF rank = <<>> THEN {None} ELSE DOMAIN rank} :
                      rank \in Ranks(t)} :
           b \in IF self.button = NoSeat THEN AtTable(self) ELSE {None}}

Begins(t) == self.t_status = WAITING /\ t.t_status # WAITING

Tick ==
    /\ self' \in Ticks
    /\ hands' = hands + (IF Begins(self') THEN 1 ELSE 0) /\ hands' <= MaxHands
    /\ UNCHANGED coming

Next ==
    \/ \E p \in Players :
         \/ PlayerSitDown(p) \/ EnterTable(p) \/ ChangeTable(p) \/ StandUp(p)
         \/ Check(p) \/ Fold(p) \/ Raise(p) \/ Call(p) \/ AllIn(p)
    \/ Tick

\* The server ticks, and time passes; players need not act.
Spec == Init /\ [][Next]_vars /\ WF_vars(Tick)

-----------------------------------------------------------------------------
(* Properties. *)

Chips == SumFunction(self.money) + (IF self.award THEN 0 ELSE self.t_pot)
Settles == ~self.award /\ self'.award

\* No step makes chips out of nothing, and nothing is paid twice: the players and the pot
\* together gain only by a settlement with side pots, which add_bet has also put in the pot,
\* and by a blind that its payer does not have, or the two that one player is to pay.
ChipsMade ==
    [][Chips' > Chips =>
         \/ Settles /\ \E k \in DOMAIN self'.side : self'.side[k].money > 0
         \/ self.t_status = WAITING /\ self'.t_status = PRE_FLOP
            /\ \E p \in Players :
                 /\ self.chair[p] \in {self.SB.chair, self.BB.chair} \ {0}
                 /\ self.money[p] < Big + (IF self.SB.chair = self.BB.chair THEN Small ELSE 0)]_vars

\* Chips are lost only when the pot cannot be split evenly, when one player is left at the
\* settlement, when nobody counted is left, and by a bet after the settlement, of one who
\* has been told to think or in a round that is not over.
ChipsLost ==
    [][Chips' < Chips =>
         \/ Settles /\ (Alone(self') \/ Chips - Chips' < Cardinality(StillIn(self')))
         \/ ~self.award /\ \E p \in Players : self.chair[p] # 0 /\ self'.chair[p] = 0 /\ self.count <= 1
         \/ self.award /\ (self.told # None \/ ~check_next_round(self))]_vars

\* What has been bet is paid out at the settlement, but for what cannot be split evenly.
PotPaid ==
    [][Settles => SumFunction(self'.money) - SumFunction(self.money)
                    > self.t_pot - Cardinality(Players)]_vars

\* A hand comes to its end and the table waits for the next one, whether or not the players
\* act, stay or leave, unless the settlement raises an error, or all but one have left before
\* anything was bet.
Stuck == self.t_status = SHOW_DOWN /\ ~self.award /\ Unsettled(cal_side_pot(self))
HandEnds == self.t_status # WAITING ~> (self.t_status = WAITING \/ Stuck \/ (self.t_pot = 0 /\ self.count < 2))

=============================================================================
