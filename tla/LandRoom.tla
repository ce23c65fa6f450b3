-------------------------------- MODULE LandRoom --------------------------------
(***************************************************************************)
(* One room of the landlord game: players come, sit down, get ready, play, *)
(* change tables, lose their connection and come back, while the tables    *)
(* deal, call, double, play and finish.  The lobby's Lua state is single-  *)
(* threaded: a handler is one action.  A handler that raises a Lua error   *)
(* keeps what it has assigned so far, and the action says so.              *)
(*                                                                         *)
(* room_id is a Boolean, there being one room; table_id and chair_id are   *)
(* always assigned together and are one seat.  Cards, scores and money are *)
(* left out: what a player calls and plays is a nondeterministic choice,   *)
(* and so is whom check_forced_exit finds too poor to stay.  is_offline is *)
(* left out: only what is sent to a client that comes back depends on it.  *)
(* The code compares with 3 where this module has ChairCount.              *)
(***************************************************************************)
EXTENDS Naturals, Integers, FiniteSets

CONSTANTS
    Players,
    TableCount,
    ChairCount,
    None,        \* an empty chair; false in player_list_
    MaxCount     \* bound on cur_player_count_ for enter_room, which has no limit of its own

ASSUME RoomAssumption ==
    /\ None \notin Players /\ IsFiniteSet(Players)
    /\ TableCount \in Nat \ {0} /\ ChairCount \in Nat \ {0} /\ MaxCount \in Nat

Tables == 1 .. TableCount
Chairs == 1 .. ChairCount
Seats == Tables \X Chairs
NoSeat == <<0, 0>>
player_count_limit_ == TableCount * ChairCount

VARIABLES
    session,            \* players whose client is connected
    init_player_,       \* players the lobby has in memory
    online,             \* send2client_pb sends only to those
    Dropped,            \* lost the connection, for the settlement
    room_id,            \* in the room
    seat,               \* <<table_id, chair_id>> or NoSeat
    is_double,          \* has answered whether to double; false stands for nil
    room_player_list_,  \* "none", "in", or "left" for the value false
    cur_player_count_,
    player_list_,       \* who sits on a chair
    ready_list_,
    status,             \* LAND_STATUS_...
    first_turn,         \* the first caller, then the landlord
    cur_turn

player == <<session, init_player_, online, Dropped>>
room == <<room_id, room_player_list_, cur_player_count_>>
chairs == <<seat, player_list_>>
game == <<is_double, status, first_turn, cur_turn>>
vars == <<player, room, chairs, ready_list_, game>>

TypeOK ==
    /\ session \subseteq Players /\ init_player_ \subseteq Players
    /\ online \in [Players -> BOOLEAN] /\ Dropped \in [Players -> BOOLEAN]
    /\ is_double \in [Players -> BOOLEAN]
    /\ room_id \in [Players -> BOOLEAN]
    /\ seat \in [Players -> Seats \union {NoSeat}]
    /\ room_player_list_ \in [Players -> {"none", "in", "left"}]
    /\ cur_player_count_ \in Int
    /\ player_list_ \in [Seats -> Players \union {None}]
    /\ ready_list_ \in [Seats -> BOOLEAN]
    /\ status \in [Tables -> {"FREE", "CALL", "DOUBLE", "PLAY"}]
    /\ first_turn \in [Tables -> Chairs] /\ cur_turn \in [Tables -> Chairs]

Init ==
    /\ session = {} /\ init_player_ = {}
    /\ online = [p \in Players |-> FALSE] /\ Dropped = [p \in Players |-> FALSE]
    /\ is_double = [p \in Players |-> FALSE]
    /\ room_id = [p \in Players |-> FALSE]
    /\ seat = [p \in Players |-> NoSeat]
    /\ room_player_list_ = [p \in Players |-> "none"]
    /\ cur_player_count_ = 0
    /\ player_list_ = [s \in Seats |-> None]
    /\ ready_list_ = [s \in Seats |-> FALSE]
    /\ status = [t \in Tables |-> "FREE"]
    /\ first_turn = [t \in Tables |-> 1] /\ cur_turn = [t \in Tables |-> 1]

-----------------------------------------------------------------------------
(* Chairs. *)

Free(t) == {c \in Chairs : player_list_[<<t, c>>] = None}
Full(t) == Free(t) = {}
Sitting(t) == {p \in Players : \E c \in Chairs : player_list_[<<t, c>>] = p}

Seated(p) == room_id[p] /\ seat[p] # NoSeat /\ player_list_[seat[p]] = p
Table(p) == seat[p][1]
Chair(p) == seat[p][2]
isPlay(t) == status[t] \in {"PLAY", "CALL"}

\* canEnter refuses every table where a game runs, and a waiting one because of the
\* IP address or an earlier game with somebody who sits there: which ones, the
\* argument open of the handlers tells.
Opens == {open \in SUBSET Tables :
            /\ \A t \in open : status[t] = "FREE"
            /\ \A t \in Tables : status[t] = "FREE" /\ Sitting(t) = {} => t \in open}

\* The fullest table of T with a free chair, the first one of several.
Suitable(t, T) ==
    /\ t \in T /\ Free(t) # {}
    /\ \A u \in T : Free(u) # {} =>
         \/ Cardinality(Free(t)) < Cardinality(Free(u))
         \/ Cardinality(Free(t)) = Cardinality(Free(u)) /\ t <= u
First(c, t) == c \in Free(t) /\ \A d \in Free(t) : c <= d
Last(c, t) == c \in Free(t) /\ \A d \in Free(t) : d <= c

\* The chairs and the ready flags after the players of P have stood up.
Left(P) == {seat[p] : p \in P}
StandsUp(P) ==
    /\ player_list_' = [s \in Seats |-> IF s \in Left(P) THEN None ELSE player_list_[s]]
    /\ seat' = [p \in Players |-> IF p \in P THEN NoSeat ELSE seat[p]]

\* The player p moves from his chair, if he has one, to s.
Moves(p, s) ==
    /\ player_list_' = [player_list_ EXCEPT ![seat[p]] = None, ![s] = p]
    /\ seat' = [seat EXCEPT ![p] = s]
SitsDown(p, s) ==
    /\ player_list_' = [player_list_ EXCEPT ![s] = p]
    /\ seat' = [seat EXCEPT ![p] = s]

EntersRoom(p) ==
    /\ room_id' = [room_id EXCEPT ![p] = TRUE]
    /\ room_player_list_' = [room_player_list_ EXCEPT ![p] = "in"]
    /\ cur_player_count_' = cur_player_count_ + 1

ExitsRoom(P) ==
    /\ room_id' = [p \in Players |-> room_id[p] /\ p \notin P]
    /\ room_player_list_' = [p \in Players |-> IF p \in P THEN "left" ELSE room_player_list_[p]]
    /\ cur_player_count_' = cur_player_count_ - Cardinality(P)

-----------------------------------------------------------------------------
(* Coming in. *)

\* A player the lobby still has in memory gets his session replaced; for another
\* one a new player object is made.
Login(p) ==
    /\ p \notin session
    /\ session' = session \union {p} /\ init_player_' = init_player_ \union {p}
    /\ online' = [online EXCEPT ![p] = TRUE]
    /\ UNCHANGED <<Dropped, room, chairs, ready_list_, game>>

\* The player asks for the state of the game he sits at.
ReconnectionPlayMsg(p) ==
    /\ p \in session /\ room_id[p] /\ seat[p] # NoSeat
    /\ Dropped' = [Dropped EXCEPT ![p] = FALSE] /\ online' = [online EXCEPT ![p] = TRUE]
    /\ UNCHANGED <<session, init_player_, room, chairs, ready_list_, game>>

\* enter_room and auto_enter_room, which also checks the limit.  The loop over
\* room_player_list_ raises an error at the first player that has left.
EnterRoom(p) ==
    /\ p \in session /\ ~room_id[p]
    /\ \A q \in Players : room_player_list_[q] # "left"
    /\ cur_player_count_ < MaxCount
    /\ EntersRoom(p)
    /\ UNCHANGED <<player, chairs, ready_list_, game>>

EnterRoomAndSitDown(p) ==
    /\ p \in session /\ ~room_id[p] /\ seat[p] = NoSeat
    /\ cur_player_count_ < player_count_limit_
    /\ \E open \in Opens, t \in Tables, c \in Chairs :
         Suitable(t, open) /\ First(c, t) /\ SitsDown(p, <<t, c>>)
    /\ EntersRoom(p)
    /\ UNCHANGED <<player, ready_list_, game>>

\* sit_down, and auto_sit_down with the first free chair.  Neither asks canEnter.
SitDown(p, s) ==
    /\ p \in session /\ room_id[p] /\ seat[p] = NoSeat
    /\ player_list_[s] = None
    /\ SitsDown(p, s)
    /\ UNCHANGED <<player, room, ready_list_, game>>

-----------------------------------------------------------------------------
(* Getting up and moving. *)

\* player_stand_up without is_offline: check_cancel_ready agrees, whatever the
\* table is doing, and setStatus makes the player online.
Unready(P) == ready_list_' = [s \in Seats |-> ready_list_[s] /\ s \notin Left(P)]

BackOnline(P) == online' = [p \in Players |-> online[p] \/ p \in P]

StandUp(p) ==
    /\ p \in session /\ Seated(p)
    /\ StandsUp({p}) /\ Unready({p}) /\ BackOnline({p})
    /\ UNCHANGED <<session, init_player_, Dropped, room, game>>

StandUpAndExitRoom(p) ==
    /\ p \in session /\ Seated(p) /\ ~isPlay(Table(p))
    /\ StandsUp({p}) /\ Unready({p}) /\ BackOnline({p}) /\ ExitsRoom({p})
    /\ UNCHANGED <<session, init_player_, Dropped, game>>

\* A frozen account that gets ready is forced out.
ForcedExit(p) ==
    /\ p \in session /\ Seated(p)
    /\ StandsUp({p}) /\ Unready({p}) /\ BackOnline({p}) /\ ExitsRoom({p})
    /\ UNCHANGED <<session, init_player_, Dropped, game>>

\* The last free chair of the last later table that has one, otherwise of the last
\* earlier table.
ChairTarget(p, t, c) ==
    LET later == {u \in Tables : u > Table(p) /\ Free(u) # {}}
        earlier == {u \in Tables : u < Table(p) /\ Free(u) # {}}
        T == IF later # {} THEN later ELSE earlier
    IN t \in T /\ (\A u \in T : u <= t) /\ Last(c, t)

Bug_ChangeChair(p) ==
    /\ p \in session /\ Seated(p)
    /\ \E t \in Tables, c \in Chairs : ChairTarget(p, t, c) /\ SitsDown(p, <<t, c>>)
    /\ Unready({p}) /\ BackOnline({p})
    /\ UNCHANGED <<session, init_player_, Dropped, room, game>>

ChangeChair(p) ==
    /\ p \in session /\ Seated(p)
    /\ \E t \in Tables, c \in Chairs : ChairTarget(p, t, c) /\ Moves(p, <<t, c>>)
    /\ Unready({p}) /\ BackOnline({p})
    /\ UNCHANGED <<session, init_player_, Dropped, room, game>>

TableTarget(p, open, t, c) == Suitable(t, open \ {Table(p)}) /\ First(c, t)

ChangeTable(p) ==
    /\ p \in session /\ Seated(p)
    /\ \E open \in Opens, t \in Tables, c \in Chairs : TableTarget(p, open, t, c) /\ Moves(p, <<t, c>>)
    /\ Unready({p}) /\ BackOnline({p})
    /\ UNCHANGED <<session, init_player_, Dropped, room, game>>

-----------------------------------------------------------------------------
(* Getting ready and starting. *)

\* start(): a new deal for everybody who sits at t.
Deals(t) ==
    /\ status' = [status EXCEPT ![t] = "CALL"]
    /\ \E c \in Chairs : first_turn' = [first_turn EXCEPT ![t] = c] /\ cur_turn' = [cur_turn EXCEPT ![t] = c]
    /\ is_double' = [p \in Players |-> is_double[p] /\ \A c \in Chairs : player_list_'[<<t, c>>] # p]

\* check_start: all ready flags of the table are set.
Bug_AllReady(t) == \A c \in Chairs : ready_list_'[<<t, c>>] \/ player_list_'[<<t, c>>] = None
AllReady(t) == \A c \in Chairs : ready_list_'[<<t, c>>]
CheckStart(t) == IF AllReady(t) THEN Deals(t) ELSE UNCHANGED game

\* ready() at the player's table.
ReadyHere(p) ==
    /\ status[Table(p)] = "FREE" /\ ~ready_list_[seat[p]]
    /\ ready_list_' = [ready_list_ EXCEPT ![seat[p]] = TRUE]
    /\ Dropped' = [Dropped EXCEPT ![p] = FALSE]
    /\ UNCHANGED <<session, init_player_, online, room, chairs>>
    /\ CheckStart(Table(p))

\* ready() at a table that canEnter refuses: change_table, then ready() at the other
\* table.  Where there is no other table ready() calls itself until the stack
\* overflows, and nothing is changed.
ReadyElsewhere(p) ==
    \E open \in Opens, t \in Tables, c \in Chairs :
      /\ TableTarget(p, open, t, c)
      /\ Moves(p, <<t, c>>)
      /\ ready_list_' = [ready_list_ EXCEPT ![seat[p]] = FALSE, ![<<t, c>>] = TRUE]
      /\ Dropped' = [Dropped EXCEPT ![p] = FALSE]
      /\ BackOnline({p})
      /\ UNCHANGED <<session, init_player_, room>>
      /\ CheckStart(t)

Ready(p) ==
    /\ p \in session /\ Seated(p) /\ ~isPlay(Table(p))
    /\ \/ ReadyHere(p)
       \/ (status[Table(p)] = "DOUBLE" \/ Sitting(Table(p)) # {p}) /\ ReadyElsewhere(p)

-----------------------------------------------------------------------------
(* A game. *)

\* Everybody of P is forced out at the end of a game at t: all who dropped, and
\* others who are too poor or asked for it.
Ends(t, P) ==
    /\ StandsUp(P) /\ ExitsRoom(P) /\ BackOnline(P)
    /\ ready_list_' = [s \in Seats |-> ready_list_[s] /\ s[1] # t]
    /\ status' = [status EXCEPT ![t] = "FREE"]
    /\ UNCHANGED <<first_turn, cur_turn, is_double>>

finishgameError(t) == Ends(t, Sitting(t))

Bug_finishgame(t, dropped) ==
    /\ Full(t)
    /\ \E P \in SUBSET Sitting(t) : Ends(t, P)

\* finishgame raises an error before it has settled anything when a chair is empty:
\* the game goes on.  dropped are players found to be gone just before.
finishgame(t, dropped) ==
    /\ Full(t)
    /\ \E P \in SUBSET Sitting(t) :
         /\ dropped \union {p \in Sitting(t) : ~online[p] \/ Dropped[p]} \subseteq P
         /\ Ends(t, P)

Next_(c) == IF c = ChairCount THEN 1 ELSE c + 1

OnTurn(t) == player_list_[<<t, cur_turn[t]>>]
NextTurn(t) == player_list_[<<t, Next_(cur_turn[t])>>]

\* send_land_cards: c is the landlord.
SendLandCards(t, c) ==
    /\ status' = [status EXCEPT ![t] = "DOUBLE"]
    /\ first_turn' = [first_turn EXCEPT ![t] = c] /\ cur_turn' = [cur_turn EXCEPT ![t] = c]
    /\ is_double' = [p \in Players |-> is_double[p] \/ player_list_[<<t, c>>] = p]

\* A call of the player whose turn it is, his own or the one tick() makes for him:
\* three points decide, and so does the end of a round in which somebody has called
\* or that is the third one without a call.  When there is nobody on the chair whose
\* turn it is, tick() does nothing.
CallDecides(t) ==
    /\ status[t] = "CALL" /\ OnTurn(t) # None
    /\ \E c \in Chairs :
         /\ Next_(cur_turn[t]) = first_turn[t] \/ c = cur_turn[t]
         /\ SendLandCards(t, c)
    /\ UNCHANGED <<player, room, chairs, ready_list_>>

CallAgain(t) ==
    /\ status[t] = "CALL" /\ OnTurn(t) # None
    /\ Next_(cur_turn[t]) = first_turn[t]
    /\ UNCHANGED <<player, room, chairs, ready_list_>>
    /\ Deals(t)

CallPassesOn(t) ==
    /\ status[t] = "CALL" /\ OnTurn(t) # None
    /\ Next_(cur_turn[t]) # first_turn[t] /\ NextTurn(t) # None
    /\ cur_turn' = [cur_turn EXCEPT ![t] = Next_(cur_turn[t])]
    /\ UNCHANGED <<player, room, chairs, ready_list_, is_double, status, first_turn>>

CallFindsNobody(t) ==
    /\ status[t] = "CALL" /\ OnTurn(t) # None
    /\ Next_(cur_turn[t]) # first_turn[t] /\ NextTurn(t) = None
    /\ finishgameError(t)
    /\ UNCHANGED <<session, init_player_, Dropped>>

\* call_double of the players of P; the game starts when all who sit there have answered.
Doubles(t, P) ==
    /\ status[t] = "DOUBLE"
    /\ is_double' = [p \in Players |-> is_double[p] \/ p \in P]
    /\ status' = [status EXCEPT ![t] = IF \A p \in Sitting(t) : is_double[p] \/ p \in P
                                       THEN "PLAY" ELSE "DOUBLE"]
    /\ UNCHANGED <<player, room, chairs, ready_list_, first_turn, cur_turn>>

CallDouble(p) ==
    /\ p \in session /\ Seated(p) /\ Chair(p) # first_turn[Table(p)]
    /\ Doubles(Table(p), {p})

DoubleTimeout(t) ==
    LET P == {p \in Sitting(t) : ~is_double[p] /\ player_list_[<<t, first_turn[t]>>] # p}
    IN P # {} /\ Doubles(t, P)

\* The player whose turn it is plays or passes, himself or by trusteeship.
TakeTurn(t) ==
    /\ status[t] = "PLAY" /\ OnTurn(t) # None
    /\ cur_turn' = [cur_turn EXCEPT ![t] = Next_(cur_turn[t])]
    /\ UNCHANGED <<player, room, chairs, ready_list_, is_double, status, first_turn>>

LastCard(t) ==
    /\ status[t] = "PLAY" /\ OnTurn(t) # None
    /\ finishgame(t, {})
    /\ UNCHANGED <<session, init_player_, Dropped>>

\* The turn has come to an empty chair, or the game takes too long.
Aborts(t) ==
    /\ status[t] = "PLAY"
    /\ finishgameError(t)
    /\ UNCHANGED <<session, init_player_, Dropped>>

-----------------------------------------------------------------------------
(* Leaving: CS_Exit, which leaves the player in memory, and the lobby's logout. *)

\* player_offline at a waiting table, then exit_room.
LeavesWaiting(p) ==
    /\ Seated(p) /\ status[Table(p)] = "FREE"
    /\ StandsUp({p}) /\ Unready({p}) /\ ExitsRoom({p})
    /\ UNCHANGED game

Bug_Offline(p) ==
    /\ online' = [online EXCEPT ![p] = FALSE] /\ status' = [status EXCEPT ![Table(p)] = "PLAYOFFLINE"]
    /\ UNCHANGED <<room, chairs, ready_list_, is_double, first_turn, cur_turn>>

\* player_offline at a running table.  setTrusteeship plays for him at once when it is
\* his turn.
Offline(p) ==
    /\ online' = [online EXCEPT ![p] = FALSE]
    /\ UNCHANGED <<room, chairs, ready_list_, game>>

OfflinePlays(p, t) ==
    /\ status[t] = "PLAY" /\ OnTurn(t) = p
    /\ online' = [online EXCEPT ![p] = FALSE]
    /\ cur_turn' = [cur_turn EXCEPT ![t] = Next_(cur_turn[t])]
    /\ UNCHANGED <<room, chairs, ready_list_, is_double, status, first_turn>>

OfflineEnds(p, t) ==
    /\ status[t] = "PLAY" /\ OnTurn(t) = p
    /\ finishgame(t, {p})

Bug_LeavesRunning(p) ==
    /\ Seated(p) /\ status[Table(p)] # "FREE"
    /\ Dropped' = [Dropped EXCEPT ![p] = TRUE] /\ online' = [online EXCEPT ![p] = FALSE]
    /\ StandsUp({p}) /\ Unready({p}) /\ ExitsRoom({p})
    /\ UNCHANGED game

LeavesRunning(p) ==
    /\ Seated(p) /\ status[Table(p)] # "FREE"
    /\ Dropped' = [Dropped EXCEPT ![p] = TRUE]
    /\ Offline(p) \/ OfflinePlays(p, Table(p)) \/ OfflineEnds(p, Table(p))

Exit(p) ==
    /\ p \in session
    /\ UNCHANGED <<session, init_player_>>
    /\ \/ /\ LeavesWaiting(p)
          /\ online' = [online EXCEPT ![p] = FALSE] /\ Dropped' = [Dropped EXCEPT ![p] = TRUE]
       \/ LeavesRunning(p)

\* The player object is deleted, and with it everything but the room's entry.
Deleted(p) ==
    /\ init_player_' = init_player_ \ {p}
    /\ online' = [online EXCEPT ![p] = FALSE] /\ Dropped' = [Dropped EXCEPT ![p] = FALSE]
    /\ is_double' = [is_double EXCEPT ![p] = FALSE]
    /\ UNCHANGED <<status, first_turn, cur_turn>>

LogoutWaiting(p) ==
    /\ Seated(p) /\ status[Table(p)] = "FREE"
    /\ StandsUp({p}) /\ Unready({p}) /\ ExitsRoom({p})
    /\ Deleted(p)

\* exit_server leaves the room only with a player who has a chair: cur_player_count_
\* and room_player_list_ keep one who has none.
LogoutStanding(p) ==
    /\ seat[p] = NoSeat
    /\ room_id' = [room_id EXCEPT ![p] = FALSE]
    /\ Deleted(p)
    /\ UNCHANGED <<room_player_list_, cur_player_count_, chairs, ready_list_>>

Logout(p) ==
    /\ p \in session /\ session' = session \ {p}
    /\ \/ LogoutWaiting(p)
       \/ LogoutStanding(p)
       \/ LeavesRunning(p) /\ UNCHANGED init_player_

-----------------------------------------------------------------------------
(* tick() of a waiting table, for a player who has sat there for a while: he is forced
   out if he is gone, and somebody who waits alone is taken to another table. *)

TickForcesOut(p) ==
    /\ Seated(p) /\ status[Table(p)] = "FREE" /\ (~online[p] \/ Dropped[p])
    /\ StandsUp({p}) /\ Unready({p}) /\ BackOnline({p}) /\ ExitsRoom({p})
    /\ UNCHANGED <<session, init_player_, Dropped, game>>

TickMoves(p) ==
    /\ Seated(p) /\ status[Table(p)] = "FREE" /\ online[p] /\ ~Dropped[p]
    /\ Sitting(Table(p)) = {p} /\ ready_list_[seat[p]]
    /\ ReadyElsewhere(p)

Message(p) ==
    \/ Login(p) \/ Logout(p) \/ Exit(p)
    \/ ReconnectionPlayMsg(p)
    \/ EnterRoom(p) \/ EnterRoomAndSitDown(p) \/ (\E s \in Seats : SitDown(p, s))
    \/ StandUp(p) \/ StandUpAndExitRoom(p) \/ ForcedExit(p) \/ ChangeChair(p) \/ ChangeTable(p)
    \/ Ready(p) \/ CallDouble(p)

Turn(t) ==
    \/ CallDecides(t) \/ CallAgain(t) \/ CallPassesOn(t) \/ CallFindsNobody(t)
    \/ DoubleTimeout(t)
    \/ TakeTurn(t) \/ LastCard(t) \/ Aborts(t)

Tick(p) == TickForcesOut(p) \/ TickMoves(p)

Next == (\E p \in Players : Message(p) \/ Tick(p)) \/ (\E t \in Tables : Turn(t))
Spec == Init /\ [][Next]_vars

-----------------------------------------------------------------------------
(* What the room relies on. *)

\* A player's table_id and chair_id and the tables' player_list_ name each other, so
\* nobody has two chairs and no chair has two players; who sits is in the room, and
\* who is in the room is in the lobby's memory and in room_player_list_.
SeatsAgree ==
    /\ \A p \in Players, s \in Seats : seat[p] = s <=> player_list_[s] = p
    /\ \A p \in Players : seat[p] # NoSeat => room_id[p]
    /\ \A p \in Players : room_id[p] => p \in init_player_ /\ room_player_list_[p] = "in"

\* Only a player who sits there is ready: a flag that outlived its player would let
\* check_start deal to an empty chair.
ReadySeated == \A s \in Seats : ready_list_[s] => player_list_[s] # None

\* A player who has lost his connection sits only at a table where a game runs;
\* a waiting table has nobody it would wait for in vain.
WaitingArePresent ==
    \A p \in Players \ session : seat[p] # NoSeat => status[Table(p)] # "FREE"

\* A new game is dealt only at a full table, to players who are connected.
DealtToAll ==
    [][\A t \in Tables : status[t] = "FREE" /\ status'[t] = "CALL" =>
         \A c \in Chairs : player_list_'[<<t, c>>] \in session']_vars

\* Losing the connection does not cost a player his chair in a game that runs.
KeepsChair ==
    [][\A p \in session \ session' :
         seat[p] # NoSeat /\ status[Table(p)] # "FREE" =>
           seat'[p] = seat[p] \/ status'[Table(p)] = "FREE"]_vars

\* Nobody leaves a game that runs (common_enum_define.proto says of
\* GAME_SERVER_RESULT_IN_GAME that one cannot exit): the players of a table where
\* isPlay holds are all there.
NobodyLeavesGame == \A t \in Tables : isPlay(t) => Full(t)

=============================================================================
