---------------------------- MODULE LandRoom_proofs ----------------------------
(***************************************************************************)
(* Proofs about LandRoom, for any finite number of players and any number  *)
(* of tables and chairs: the players' seats and the tables' chairs agree,  *)
(* only who sits is ready, nobody waits for a player who is gone, a game   *)
(* is dealt to connected players only, and a lost connection costs nobody  *)
(* his chair in a game.                                                    *)
(***************************************************************************)
EXTENDS LandRoom, FiniteSetTheorems, TLAPS

USE RoomAssumption DEF RoomAssumption

LEMMA SeatFacts ==
    /\ NoSeat \notin Seats
    /\ \A s \in Seats : s[1] \in Tables /\ s[2] \in Chairs /\ s = <<s[1], s[2]>>
    /\ \A t \in Tables, c \in Chairs : <<t, c>> \in Seats /\ <<t, c>>[1] = t
  BY DEF Seats, NoSeat, Tables, Chairs

LEMMA Counted == ASSUME NEW P \in SUBSET Players PROVE Cardinality(P) \in Int
  BY FS_Subset, FS_CardinalityType

\* The parts of SeatsAgree, and what else an action needs to keep them.
ChairsAgree == \A p \in Players, s \in Seats : seat[p] = s <=> player_list_[s] = p
InRoom == \A p \in Players : seat[p] # NoSeat => room_id[p]
Known == \A p \in Players : room_id[p] => p \in init_player_ /\ room_player_list_[p] = "in"
Present == session \subseteq init_player_

\* Who is gone and sits is marked as gone, at a table where a game runs.
Gone == \A p \in Players \ session :
          seat[p] # NoSeat => status[Table(p)] # "FREE" /\ Dropped[p]

IInv == TypeOK /\ ChairsAgree /\ InRoom /\ Known /\ Present /\ ReadySeated /\ Gone

-----------------------------------------------------------------------------
(* What standing up, moving and sitting down do to the chairs. *)

Chairing ==
    /\ seat \in [Players -> Seats \union {NoSeat}]
    /\ player_list_ \in [Seats -> Players \union {None}]
    /\ ChairsAgree

\* Every player of P stands, nobody else is touched.
LEMMA StandsUpChairs ==
    ASSUME Chairing, NEW P \in SUBSET Players, StandsUp(P)
    PROVE  /\ Chairing'
           /\ \A p \in Players : seat'[p] = IF p \in P THEN NoSeat ELSE seat[p]
           /\ \A s \in Seats : player_list_'[s] # player_list_[s] => s \in Left(P)
           /\ \A s \in Seats : s \in Left(P) => player_list_'[s] = None
<1> USE SeatFacts DEF Chairing
<1>1. seat' \in [Players -> Seats \union {NoSeat}]
  BY DEF StandsUp
<1>2. player_list_' \in [Seats -> Players \union {None}]
  BY DEF StandsUp
<1>3. \A p \in Players : seat'[p] = IF p \in P THEN NoSeat ELSE seat[p]
  BY DEF StandsUp
<1>4. \A s \in Seats : player_list_'[s] = IF s \in Left(P) THEN None ELSE player_list_[s]
  BY DEF StandsUp
<1>5. ChairsAgree'
  <2> SUFFICES ASSUME NEW p \in Players, NEW s \in Seats
               PROVE  seat'[p] = s <=> player_list_'[s] = p
    BY DEF ChairsAgree
  <2>1. seat[p] = s <=> player_list_[s] = p
    BY DEF ChairsAgree
  <2>2. CASE p \in P
    <3>1. seat'[p] # s
      BY <1>3, <2>2
    <3>2. player_list_[s] = p => s \in Left(P)
      BY <2>1, <2>2 DEF Left
    <3> QED BY <1>4, <2>1, <3>1, <3>2
  <2>3. CASE p \notin P
    <3>1. player_list_[s] = p => s \notin Left(P)
      BY <2>3 DEF Left, ChairsAgree
    <3> QED BY <1>3, <1>4, <2>1, <2>3, <3>1
  <2> QED BY <2>2, <2>3
<1> QED BY <1>1, <1>2, <1>3, <1>4, <1>5

\* A seated player who moves to an empty chair leaves his old one empty.
LEMMA MovesChairs ==
    ASSUME Chairing, NEW p \in Players, NEW s \in Seats,
           seat[p] # NoSeat, player_list_[s] = None, Moves(p, s)
    PROVE  /\ Chairing'
           /\ \A q \in Players : seat'[q] = IF q = p THEN s ELSE seat[q]
           /\ player_list_'[s] = p /\ s # seat[p]
           /\ \A r \in Seats : r # s /\ r # seat[p] => player_list_'[r] = player_list_[r]
<1> USE SeatFacts DEF Chairing
<1>0. seat[p] \in Seats /\ player_list_[seat[p]] = p /\ s # seat[p]
  BY DEF ChairsAgree
<1>1. seat' \in [Players -> Seats \union {NoSeat}]
  BY DEF Moves
<1>2. player_list_' \in [Seats -> Players \union {None}]
  BY DEF Moves
<1>3. \A q \in Players : seat'[q] = IF q = p THEN s ELSE seat[q]
  BY DEF Moves
<1>4. \A r \in Seats : player_list_'[r] = IF r = s THEN p ELSE IF r = seat[p] THEN None ELSE player_list_[r]
  BY <1>0 DEF Moves
<1>5. ChairsAgree'
  <2> SUFFICES ASSUME NEW q \in Players, NEW r \in Seats
               PROVE  seat'[q] = r <=> player_list_'[r] = q
    BY DEF ChairsAgree
  <2>1. seat[q] = r <=> player_list_[r] = q
    BY DEF ChairsAgree
  <2>2. seat[q] = s <=> player_list_[s] = q
    BY DEF ChairsAgree
  <2> QED BY <1>0, <1>3, <1>4, <2>1, <2>2
<1> QED BY <1>0, <1>1, <1>2, <1>3, <1>4, <1>5

\* So does one who sits down on an empty chair.
LEMMA SitsDownChairs ==
    ASSUME Chairing, NEW p \in Players, NEW s \in Seats,
           seat[p] = NoSeat, player_list_[s] = None, SitsDown(p, s)
    PROVE  /\ Chairing'
           /\ \A q \in Players : seat'[q] = IF q = p THEN s ELSE seat[q]
           /\ \A r \in Seats : player_list_'[r] = IF r = s THEN p ELSE player_list_[r]
<1> USE SeatFacts DEF Chairing
<1>1. seat' \in [Players -> Seats \union {NoSeat}]
  BY DEF SitsDown
<1>2. player_list_' \in [Seats -> Players \union {None}]
  BY DEF SitsDown
<1>3. \A q \in Players : seat'[q] = IF q = p THEN s ELSE seat[q]
  BY DEF SitsDown
<1>4. \A r \in Seats : player_list_'[r] = IF r = s THEN p ELSE player_list_[r]
  BY DEF SitsDown
<1>5. ChairsAgree'
  <2> SUFFICES ASSUME NEW q \in Players, NEW r \in Seats
               PROVE  seat'[q] = r <=> player_list_'[r] = q
    BY DEF ChairsAgree
  <2>1. seat[q] = r <=> player_list_[r] = q
    BY DEF ChairsAgree
  <2>2. seat[q] = s <=> player_list_[s] = q
    BY DEF ChairsAgree
  <2> QED BY <1>3, <1>4, <2>1, <2>2
<1> QED BY <1>1, <1>2, <1>3, <1>4, <1>5

-----------------------------------------------------------------------------
(* The parts of TypeOK, and what an action does to them. *)

PlayerTypes ==
    /\ session \subseteq Players /\ init_player_ \subseteq Players
    /\ online \in [Players -> BOOLEAN] /\ Dropped \in [Players -> BOOLEAN]
RoomTypes ==
    /\ room_id \in [Players -> BOOLEAN]
    /\ room_player_list_ \in [Players -> {"none", "in", "left"}]
    /\ cur_player_count_ \in Int
GameTypes ==
    /\ is_double \in [Players -> BOOLEAN]
    /\ status \in [Tables -> {"FREE", "CALL", "DOUBLE", "PLAY"}]
    /\ first_turn \in [Tables -> Chairs] /\ cur_turn \in [Tables -> Chairs]

LEMMA Parts ==
    IInv <=> /\ PlayerTypes /\ RoomTypes /\ GameTypes /\ ready_list_ \in [Seats -> BOOLEAN]
             /\ Chairing /\ InRoom /\ Known /\ Present /\ ReadySeated /\ Gone
  BY Zenon DEF IInv, TypeOK, PlayerTypes, RoomTypes, GameTypes, Chairing

LEMMA PartsNext ==
    ASSUME PlayerTypes', RoomTypes', GameTypes', ready_list_' \in [Seats -> BOOLEAN],
           Chairing', InRoom', Known', Present', ReadySeated', Gone'
    PROVE  IInv'
  BY Zenon DEF IInv, TypeOK, PlayerTypes, RoomTypes, GameTypes, Chairing

LEMMA InitInv == Init => IInv
<1> SUFFICES ASSUME Init PROVE IInv
  OBVIOUS
<1> USE SeatFacts DEF Init
<1>1. 1 \in Tables /\ 1 \in Chairs
  BY DEF Tables, Chairs
<1>2. PlayerTypes /\ RoomTypes
  BY DEF PlayerTypes, RoomTypes
<1>3. GameTypes
  BY <1>1 DEF GameTypes
<1>4. Chairing
  BY DEF Chairing, ChairsAgree
<1>5. ready_list_ \in [Seats -> BOOLEAN] /\ ReadySeated
  BY DEF ReadySeated
<1>6. InRoom /\ Known /\ Present /\ Gone
  BY DEF InRoom, Known, Present, Gone
<1> QED BY <1>2, <1>3, <1>4, <1>5, <1>6, Parts

LEMMA ExitsRoomTypes ==
    ASSUME RoomTypes, NEW P \in SUBSET Players, ExitsRoom(P)
    PROVE  /\ RoomTypes'
           /\ \A p \in Players : /\ room_id'[p] = (room_id[p] /\ p \notin P)
                                 /\ p \notin P => room_player_list_'[p] = room_player_list_[p]
<1>1. cur_player_count_' \in Int
  BY Counted DEF ExitsRoom, RoomTypes
<1> QED BY <1>1 DEF ExitsRoom, RoomTypes

LEMMA EntersRoomTypes ==
    ASSUME RoomTypes, NEW p \in Players, EntersRoom(p)
    PROVE  /\ RoomTypes'
           /\ room_id'[p] /\ room_player_list_'[p] = "in"
           /\ \A q \in Players : q # p => /\ room_id'[q] = room_id[q]
                                          /\ room_player_list_'[q] = room_player_list_[q]
  BY DEF EntersRoom, RoomTypes

\* A step in which the players of P stand up, and leave the room or not, keeps the
\* invariant if it takes their ready flags, forgets nobody else, and ends no game
\* that somebody who is gone still sits at.
LEMMA Standing ==
    ASSUME IInv, NEW P \in SUBSET Players, StandsUp(P),
           ready_list_' \in [Seats -> BOOLEAN],
           \A s \in Seats : ready_list_'[s] => ready_list_[s] /\ s \notin Left(P),
           \/ UNCHANGED room /\ init_player_' = init_player_
           \/ ExitsRoom(P) /\ init_player_ \ P \subseteq init_player_',
           session \ P \subseteq session', Present', PlayerTypes', GameTypes',
           \A p \in Players \ P : Dropped'[p] = Dropped[p],
           \A p \in Players \ P : p \notin session /\ seat[p] # NoSeat => status'[Table(p)] # "FREE"
    PROVE  IInv'
<1> USE Parts
<1>1. /\ Chairing'
      /\ \A p \in Players : seat'[p] = IF p \in P THEN NoSeat ELSE seat[p]
      /\ \A s \in Seats : player_list_'[s] # player_list_[s] => s \in Left(P)
  BY StandsUpChairs
<1>2. RoomTypes'
  BY ExitsRoomTypes DEF room, RoomTypes
<1>3. InRoom' /\ Known'
  <2>1. CASE UNCHANGED room /\ init_player_' = init_player_
    BY <1>1, <2>1 DEF InRoom, Known, room
  <2>2. CASE ExitsRoom(P) /\ init_player_ \ P \subseteq init_player_'
    BY <1>1, <2>2, ExitsRoomTypes DEF InRoom, Known
  <2> QED BY <2>1, <2>2
<1>4. ReadySeated'
  BY <1>1 DEF ReadySeated
<1>5. Gone'
  <2> SUFFICES ASSUME NEW p \in Players \ session', seat'[p] # NoSeat
               PROVE  status'[seat'[p][1]] # "FREE" /\ Dropped'[p]
    BY DEF Gone, Table
  <2>1. p \notin P /\ seat'[p] = seat[p]
    BY <1>1
  <2>2. p \notin session
    BY <2>1
  <2> QED BY <2>1, <2>2 DEF Gone, Table
<1> QED BY <1>1, <1>2, <1>3, <1>4, <1>5, PartsNext

\* A step in which a player who is there moves to an empty chair, taking no ready
\* flag along but perhaps getting one at the new chair.
LEMMA Moving ==
    ASSUME IInv, NEW p \in session, NEW s \in Seats,
           seat[p] # NoSeat, player_list_[s] = None, Moves(p, s),
           ready_list_' \in [Seats -> BOOLEAN],
           \A r \in Seats : ready_list_'[r] => r = s \/ (ready_list_[r] /\ r # seat[p]),
           UNCHANGED <<session, init_player_, room>>, PlayerTypes', GameTypes',
           \A q \in Players : q # p => Dropped'[q] = Dropped[q],
           \A t \in Tables : status'[t] = "FREE" => status[t] = "FREE"
    PROVE  IInv'
<1> USE Parts, SeatFacts
<1>0. p \in Players
  BY DEF PlayerTypes
<1>1. /\ Chairing'
      /\ \A q \in Players : seat'[q] = IF q = p THEN s ELSE seat[q]
      /\ player_list_'[s] = p /\ s # seat[p]
      /\ \A r \in Seats : r # s /\ r # seat[p] => player_list_'[r] = player_list_[r]
  BY <1>0, MovesChairs
<1>2. RoomTypes' /\ Known' /\ Present'
  BY DEF room, RoomTypes, Known, Present
<1>3. InRoom'
  BY <1>1 DEF room, InRoom
<1>4. ReadySeated'
  BY <1>0, <1>1 DEF ReadySeated
<1>5. Gone'
  <2> SUFFICES ASSUME NEW q \in Players \ session, seat'[q] # NoSeat
               PROVE  status'[seat'[q][1]] # "FREE" /\ Dropped'[q]
    BY DEF Gone, Table
  <2>1. q # p /\ seat'[q] = seat[q] /\ seat[q] \in Seats
    BY <1>1 DEF Chairing
  <2> QED BY <2>1 DEF Gone, Table
<1> QED BY <1>1, <1>2, <1>3, <1>4, <1>5, PartsNext

\* A step in which a player who is there sits down on an empty chair, in the room
\* or entering it.
LEMMA Sitting_ ==
    ASSUME IInv, NEW p \in session, NEW s \in Seats,
           seat[p] = NoSeat, player_list_[s] = None, SitsDown(p, s),
           UNCHANGED <<player, ready_list_, game>>,
           (UNCHANGED room /\ room_id[p]) \/ EntersRoom(p)
    PROVE  IInv'
<1> USE Parts, SeatFacts
<1>0. p \in Players /\ p \in init_player_
  BY DEF PlayerTypes, Present
<1>1. /\ Chairing'
      /\ \A q \in Players : seat'[q] = IF q = p THEN s ELSE seat[q]
      /\ \A r \in Seats : player_list_'[r] = IF r = s THEN p ELSE player_list_[r]
  BY <1>0, SitsDownChairs
<1>2. PlayerTypes' /\ GameTypes' /\ Present' /\ ready_list_' \in [Seats -> BOOLEAN]
  BY DEF player, game, PlayerTypes, GameTypes, Present
<1>3. RoomTypes' /\ InRoom' /\ Known'
  <2>1. CASE UNCHANGED room /\ room_id[p]
    BY <1>0, <1>1, <2>1 DEF room, player, RoomTypes, InRoom, Known
  <2>2. CASE EntersRoom(p)
    BY <1>0, <1>1, <2>2, EntersRoomTypes DEF player, InRoom, Known
  <2> QED BY <2>1, <2>2
<1>4. ReadySeated'
  BY <1>0, <1>1 DEF ReadySeated
<1>5. Gone'
  BY <1>0, <1>1 DEF Gone, Table, player, game
<1> QED BY <1>1, <1>2, <1>3, <1>4, <1>5, PartsNext

\* A step that leaves room, chairs and ready flags alone.
LEMMA Steady ==
    ASSUME IInv, UNCHANGED <<room, chairs, ready_list_>>, init_player_ \subseteq init_player_',
           PlayerTypes', GameTypes', Present', Gone'
    PROVE  IInv'
<1> USE Parts
<1>1. RoomTypes' /\ InRoom' /\ Known'
  BY DEF room, chairs, RoomTypes, InRoom, Known
<1>2. Chairing' /\ ReadySeated' /\ ready_list_' \in [Seats -> BOOLEAN]
  BY DEF chairs, Chairing, ChairsAgree, ReadySeated
<1> QED BY <1>1, <1>2, PartsNext

\* A seated player's chair names him.
LEMMA SeatedFacts ==
    ASSUME IInv, NEW p \in Players, seat[p] # NoSeat
    PROVE  /\ seat[p] \in Seats /\ Table(p) \in Tables /\ Chair(p) \in Chairs
           /\ player_list_[seat[p]] = p /\ p \in Sitting(Table(p))
           /\ room_id[p] /\ p \in init_player_
<1> USE Parts, SeatFacts
<1>1. seat[p] \in Seats /\ player_list_[seat[p]] = p
  BY DEF Chairing, ChairsAgree
<1>2. Table(p) \in Tables /\ Chair(p) \in Chairs /\ seat[p] = <<Table(p), Chair(p)>>
  BY <1>1 DEF Table, Chair
<1>3. p \in Sitting(Table(p))
  BY <1>1, <1>2 DEF Sitting
<1> QED BY <1>1, <1>2, <1>3 DEF InRoom, Known

LEMMA SittingFacts ==
    ASSUME IInv, NEW t \in Tables, NEW p \in Sitting(t)
    PROVE  p \in Players /\ seat[p] \in Seats /\ Table(p) = t /\ p \in init_player_
<1> USE Parts, SeatFacts
<1>1. PICK c \in Chairs : player_list_[<<t, c>>] = p
  BY DEF Sitting
<1>2. p \in Players /\ seat[p] = <<t, c>>
  BY <1>1 DEF Sitting, Chairing, ChairsAgree
<1> QED BY <1>2, SeatedFacts DEF Table

\* The end of a game: all who are gone must be among those it forces out.
LEMMA Ending ==
    ASSUME IInv, NEW t \in Tables, NEW P \in SUBSET Sitting(t), Ends(t, P),
           init_player_' = init_player_, session' \subseteq session, session \ P \subseteq session',
           PlayerTypes', \A p \in Players \ P : Dropped'[p] = Dropped[p],
           \A p \in Sitting(t) : p \notin session => p \in P
    PROVE  IInv'
<1> USE Parts
<1>1. P \in SUBSET Players
  BY SittingFacts
<1>2. StandsUp(P) /\ ExitsRoom(P)
  BY DEF Ends
<1>3. ready_list_' \in [Seats -> BOOLEAN]
  BY DEF Ends
<1>4. \A s \in Seats : ready_list_'[s] => ready_list_[s] /\ s \notin Left(P)
  <2> SUFFICES ASSUME NEW s \in Seats, ready_list_'[s] PROVE ready_list_[s] /\ s \notin Left(P)
    OBVIOUS
  <2>1. ready_list_[s] /\ s[1] # t
    BY DEF Ends
  <2>2. \A p \in P : seat[p][1] = t
    BY SittingFacts DEF Table
  <2> QED BY <2>1, <2>2 DEF Left
<1>5. GameTypes'
  BY DEF Ends, GameTypes
<1>6. Present'
  BY DEF Present
<1>7. \A p \in Players \ P : p \notin session /\ seat[p] # NoSeat => status'[Table(p)] # "FREE"
  <2> SUFFICES ASSUME NEW p \in Players \ P, p \notin session, seat[p] # NoSeat
               PROVE  status'[Table(p)] # "FREE"
    OBVIOUS
  <2>1. Table(p) \in Tables /\ p \in Sitting(Table(p)) /\ status[Table(p)] # "FREE"
    BY SeatedFacts DEF Gone
  <2>2. Table(p) # t
    BY <2>1
  <2> QED BY <2>1, <2>2 DEF Ends, GameTypes
<1> QED BY <1>1, <1>2, <1>3, <1>4, <1>5, <1>6, <1>7, Standing

LEMMA DealsTypes ==
    ASSUME GameTypes, NEW t \in Tables, Deals(t)
    PROVE  GameTypes' /\ \A u \in Tables : status'[u] = "FREE" => status[u] = "FREE"
<1>1. is_double' \in [Players -> BOOLEAN]
  BY DEF Deals
<1>2. status' = [status EXCEPT ![t] = "CALL"]
  BY DEF Deals
<1>3. first_turn' \in [Tables -> Chairs] /\ cur_turn' \in [Tables -> Chairs]
  BY DEF Deals, GameTypes
<1> QED BY <1>1, <1>2, <1>3 DEF GameTypes

LEMMA CheckStartTypes ==
    ASSUME GameTypes, NEW t \in Tables, CheckStart(t)
    PROVE  GameTypes' /\ \A u \in Tables : status'[u] = "FREE" => status[u] = "FREE"
<1>1. CASE AllReady(t)
  BY <1>1, DealsTypes DEF CheckStart
<1>2. CASE ~AllReady(t)
  BY <1>2 DEF CheckStart, game, GameTypes
<1> QED BY <1>1, <1>2

-----------------------------------------------------------------------------
(* The actions. *)

LEMMA ComingInInv ==
    ASSUME IInv, NEW p \in Players,
           Login(p) \/ ReconnectionPlayMsg(p) \/ EnterRoom(p) \/ EnterRoomAndSitDown(p)
             \/ \E s \in Seats : SitDown(p, s)
    PROVE  IInv'
<1> USE Parts, SeatFacts
<1>1. CASE Login(p)
  <2>1. PlayerTypes' /\ Present'
    BY <1>1 DEF Login, PlayerTypes, Present
  <2>2. GameTypes' /\ Gone'
    BY <1>1 DEF Login, GameTypes, Gone, Table, game, chairs
  <2> QED BY <1>1, <2>1, <2>2, Steady DEF Login
<1>2. CASE ReconnectionPlayMsg(p)
  <2>1. PlayerTypes' /\ Present'
    BY <1>2 DEF ReconnectionPlayMsg, PlayerTypes, Present
  <2>2. GameTypes' /\ Gone'
    BY <1>2 DEF ReconnectionPlayMsg, GameTypes, Gone, Table, game, chairs
  <2> QED BY <1>2, <2>1, <2>2, Steady DEF ReconnectionPlayMsg
<1>3. CASE EnterRoom(p)
  <2>1. RoomTypes' /\ InRoom' /\ Known'
    BY <1>3, EntersRoomTypes DEF EnterRoom, InRoom, Known, Present, player, chairs
  <2>2. PlayerTypes' /\ GameTypes' /\ Present' /\ Gone'
    BY <1>3 DEF EnterRoom, PlayerTypes, GameTypes, Present, Gone, Table, player, game, chairs
  <2>3. Chairing' /\ ReadySeated' /\ ready_list_' \in [Seats -> BOOLEAN]
    BY <1>3 DEF EnterRoom, chairs, Chairing, ChairsAgree, ReadySeated
  <2> QED BY <2>1, <2>2, <2>3, PartsNext
<1>4. CASE EnterRoomAndSitDown(p)
  <2>1. PICK t \in Tables, c \in Chairs : First(c, t) /\ SitsDown(p, <<t, c>>)
    BY <1>4 DEF EnterRoomAndSitDown
  <2>2. player_list_[<<t, c>>] = None /\ <<t, c>> \in Seats
    BY <2>1 DEF First, Free
  <2> QED BY <1>4, <2>1, <2>2, Sitting_ DEF EnterRoomAndSitDown
<1>5. CASE \E s \in Seats : SitDown(p, s)
  <2>1. PICK s \in Seats : SitDown(p, s)
    BY <1>5
  <2> QED BY <2>1, Sitting_ DEF SitDown, player
<1> QED BY <1>1, <1>2, <1>3, <1>4, <1>5

\* A seated player who stands up in a waiting table or leaves a game on purpose.
LEMMA StandUpInv ==
    ASSUME IInv, NEW p \in Players,
           StandUp(p) \/ StandUpAndExitRoom(p) \/ ForcedExit(p) \/ TickForcesOut(p)
    PROVE  IInv'
<1> USE Parts
<1>1. /\ StandsUp({p}) /\ Unready({p}) /\ BackOnline({p})
      /\ UNCHANGED <<session, init_player_, Dropped, game>>
      /\ UNCHANGED room \/ ExitsRoom({p})
  BY DEF StandUp, StandUpAndExitRoom, ForcedExit, TickForcesOut
<1>2. /\ ready_list_' \in [Seats -> BOOLEAN]
      /\ \A s \in Seats : ready_list_'[s] => ready_list_[s] /\ s \notin Left({p})
  BY <1>1 DEF Unready
<1>3. PlayerTypes' /\ Present'
  BY <1>1 DEF BackOnline, PlayerTypes, Present
<1>4. GameTypes'
  BY <1>1 DEF game, GameTypes
<1>5. \A q \in Players \ {p} : q \notin session /\ seat[q] # NoSeat => status'[Table(q)] # "FREE"
  BY <1>1 DEF game, Gone
<1>6. init_player_ \ {p} \subseteq init_player_'
  BY <1>1
<1> QED BY <1>1, <1>2, <1>3, <1>4, <1>5, <1>6, Standing

LEMMA MoveInv ==
    ASSUME IInv, NEW p \in session, seat[p] # NoSeat,
           ChangeChair(p) \/ ChangeTable(p) \/ ReadyElsewhere(p)
    PROVE  IInv'
<1> USE Parts, SeatFacts
<1>0. p \in Players /\ seat[p] \in Seats
  BY SeatedFacts DEF PlayerTypes
<1>1. CASE ChangeChair(p) \/ ChangeTable(p)
  <2>1. PICK t \in Tables, c \in Chairs : c \in Free(t) /\ Moves(p, <<t, c>>)
    BY <1>1 DEF ChangeChair, ChangeTable, ChairTarget, TableTarget, First, Last
  <2>2. player_list_[<<t, c>>] = None /\ <<t, c>> \in Seats
    BY <2>1 DEF Free
  <2>3. Unready({p}) /\ BackOnline({p}) /\ UNCHANGED <<session, init_player_, Dropped, room, game>>
    BY <1>1 DEF ChangeChair, ChangeTable
  <2>4. /\ ready_list_' \in [Seats -> BOOLEAN]
        /\ \A r \in Seats : ready_list_'[r] => ready_list_[r] /\ r # seat[p]
    BY <2>3 DEF Unready, Left
  <2>5. PlayerTypes'
    BY <2>3 DEF BackOnline, PlayerTypes
  <2>6. GameTypes' /\ \A u \in Tables : status'[u] = "FREE" => status[u] = "FREE"
    BY <2>3 DEF game, GameTypes
  <2> QED BY <2>1, <2>2, <2>3, <2>4, <2>5, <2>6, Moving
<1>2. CASE ReadyElsewhere(p)
  <2>1. PICK t \in Tables, c \in Chairs :
          /\ c \in Free(t) /\ Moves(p, <<t, c>>)
          /\ ready_list_' = [ready_list_ EXCEPT ![seat[p]] = FALSE, ![<<t, c>>] = TRUE]
          /\ Dropped' = [Dropped EXCEPT ![p] = FALSE]
          /\ BackOnline({p})
          /\ UNCHANGED <<session, init_player_, room>>
          /\ CheckStart(t)
    BY <1>2 DEF ReadyElsewhere, TableTarget, First
  <2>2. player_list_[<<t, c>>] = None /\ <<t, c>> \in Seats
    BY <2>1 DEF Free
  <2>4. /\ ready_list_' \in [Seats -> BOOLEAN]
        /\ \A r \in Seats : ready_list_'[r] => r = <<t, c>> \/ (ready_list_[r] /\ r # seat[p])
    BY <1>0, <2>1, <2>2
  <2>5. PlayerTypes'
    BY <2>1 DEF BackOnline, PlayerTypes
  <2>6. GameTypes' /\ \A u \in Tables : status'[u] = "FREE" => status[u] = "FREE"
    BY <2>1, CheckStartTypes
  <2>7. \A q \in Players : q # p => Dropped'[q] = Dropped[q]
    BY <2>1 DEF PlayerTypes
  <2>8. Moves(p, <<t, c>>) /\ UNCHANGED <<session, init_player_, room>>
    BY <2>1
  <2>9. seat[p] # NoSeat
    OBVIOUS
  <2> HIDE Parts, SeatFacts
  <2> QED BY <2>2, <2>4, <2>5, <2>6, <2>7, <2>8, <2>9, Moving
<1> QED BY <1>1, <1>2

LEMMA TurnSteady ==
    ASSUME IInv, UNCHANGED <<player, room, chairs, ready_list_>>, GameTypes',
           \A u \in Tables : status'[u] = "FREE" => status[u] = "FREE"
    PROVE  IInv'
<1> USE Parts, SeatFacts
<1>1. PlayerTypes' /\ Present' /\ init_player_ \subseteq init_player_'
  BY DEF player, PlayerTypes, Present
<1>2. Gone'
  <2> SUFFICES ASSUME NEW q \in Players \ session, seat[q] # NoSeat
               PROVE  status'[seat[q][1]] # "FREE" /\ Dropped[q]
    BY DEF Gone, Table, chairs, player
  <2>1. seat[q] \in Seats
    BY DEF Chairing
  <2> QED BY <2>1 DEF Gone, Table
<1> QED BY <1>1, <1>2, Steady

LEMMA DoublesInv ==
    ASSUME IInv, NEW t \in Tables, NEW P, Doubles(t, P)
    PROVE  IInv'
<1> USE Parts
<1>1. is_double' \in [Players -> BOOLEAN]
  BY DEF Doubles
<1>2. /\ status' \in [Tables -> {"FREE", "CALL", "DOUBLE", "PLAY"}]
      /\ \A u \in Tables : status'[u] = "FREE" => status[u] = "FREE"
  BY DEF Doubles, GameTypes
<1>3. UNCHANGED <<player, room, chairs, ready_list_, first_turn, cur_turn>>
  BY DEF Doubles
<1> QED BY <1>1, <1>2, <1>3, TurnSteady DEF GameTypes

\* finishgame sees everybody who is gone by his Dropped.
LEMMA GoneDropped ==
    ASSUME IInv, NEW t \in Tables, NEW p \in Sitting(t), p \notin session
    PROVE  Dropped[p]
  BY Parts, SeatFacts, SittingFacts DEF Gone

LEMMA ReadyInv ==
    ASSUME IInv, NEW p \in Players, Ready(p) \/ TickMoves(p)
    PROVE  IInv'
<1> USE Parts, SeatFacts
<1>1. CASE p \in session /\ Seated(p) /\ ReadyHere(p)
  <2>1. seat[p] \in Seats /\ Table(p) \in Tables /\ player_list_[seat[p]] = p
    BY <1>1, SeatedFacts DEF Seated
  <2>2. /\ ready_list_' = [ready_list_ EXCEPT ![seat[p]] = TRUE]
        /\ Dropped' = [Dropped EXCEPT ![p] = FALSE]
        /\ UNCHANGED <<session, init_player_, online, room, chairs>>
        /\ CheckStart(Table(p))
    BY <1>1 DEF ReadyHere
  <2>3. GameTypes' /\ \A u \in Tables : status'[u] = "FREE" => status[u] = "FREE"
    BY <2>1, <2>2, CheckStartTypes
  <2>4. PlayerTypes' /\ Present' /\ RoomTypes' /\ InRoom' /\ Known'
    BY <2>2 DEF room, chairs, PlayerTypes, Present, RoomTypes, InRoom, Known
  <2>5. Chairing' /\ ready_list_' \in [Seats -> BOOLEAN]
    BY <2>1, <2>2 DEF chairs, Chairing, ChairsAgree
  <2>6. ReadySeated'
    BY <2>1, <2>2 DEF chairs, ReadySeated
  <2>7. Gone'
    <3> SUFFICES ASSUME NEW q \in Players \ session, seat[q] # NoSeat
                 PROVE  status'[seat[q][1]] # "FREE" /\ Dropped'[q]
      BY <2>2 DEF Gone, Table, chairs
    <3>1. q # p /\ seat[q] \in Seats
      BY <1>1 DEF Chairing
    <3> QED BY <2>2, <2>3, <3>1 DEF Gone, Table, PlayerTypes
  <2> QED BY <2>3, <2>4, <2>5, <2>6, <2>7, PartsNext
<1>2. CASE p \in session /\ Seated(p) /\ ReadyElsewhere(p)
  BY <1>2, MoveInv DEF Seated
<1>3. CASE TickMoves(p)
  <2>1. Seated(p) /\ status[Table(p)] = "FREE" /\ ReadyElsewhere(p)
    BY <1>3 DEF TickMoves
  <2>2. p \in session
    BY <2>1 DEF Gone, Seated
  <2> QED BY <1>2, <2>1, <2>2
<1> QED BY <1>1, <1>2, <1>3 DEF Ready

\* A turn of a table's game.
LEMMA TurnInv ==
    ASSUME IInv, NEW t \in Tables, Turn(t)
    PROVE  IInv'
<1> USE Parts, SeatFacts
<1>0. Next_(cur_turn[t]) \in Chairs
  BY DEF GameTypes, Chairs, Next_
<1>1. CASE CallDecides(t)
  <2>1. UNCHANGED <<player, room, chairs, ready_list_>>
    BY <1>1 DEF CallDecides
  <2>2. PICK c \in Chairs : status[t] = "CALL" /\ SendLandCards(t, c)
    BY <1>1 DEF CallDecides
  <2>3. GameTypes' /\ \A u \in Tables : status'[u] = "FREE" => status[u] = "FREE"
    BY <2>2 DEF SendLandCards, GameTypes
  <2> QED BY <2>1, <2>3, TurnSteady
<1>2. CASE CallAgain(t)
  BY <1>2, DealsTypes, TurnSteady DEF CallAgain
<1>3. CASE CallPassesOn(t) \/ TakeTurn(t)
  <2>1. UNCHANGED <<player, room, chairs, ready_list_, is_double, status, first_turn>>
    BY <1>3 DEF CallPassesOn, TakeTurn
  <2>2. cur_turn' = [cur_turn EXCEPT ![t] = Next_(cur_turn[t])]
    BY <1>3 DEF CallPassesOn, TakeTurn
  <2>3. GameTypes'
    BY <1>0, <2>1, <2>2 DEF GameTypes
  <2> QED BY <2>1, <2>3, TurnSteady
<1>4. CASE DoubleTimeout(t)
  <2>1. PICK P : Doubles(t, P)
    BY <1>4 DEF DoubleTimeout
  <2> QED BY <2>1, DoublesInv
<1>5. CASE CallFindsNobody(t) \/ Aborts(t)
  <2>1. Ends(t, Sitting(t)) /\ UNCHANGED <<session, init_player_, Dropped>>
    BY <1>5 DEF CallFindsNobody, Aborts, finishgameError
  <2>2. PlayerTypes'
    BY <2>1 DEF Ends, BackOnline, PlayerTypes
  <2> QED BY <2>1, <2>2, Ending
<1>6. CASE LastCard(t)
  <2>1. finishgame(t, {}) /\ UNCHANGED <<session, init_player_, Dropped>>
    BY <1>6 DEF LastCard
  <2>2. PICK P \in SUBSET Sitting(t) :
          {p \in Sitting(t) : ~online[p] \/ Dropped[p]} \subseteq P /\ Ends(t, P)
    BY <2>1 DEF finishgame
  <2>3. PlayerTypes'
    BY <2>1, <2>2 DEF Ends, BackOnline, PlayerTypes
  <2>4. \A p \in Sitting(t) : p \notin session => p \in P
    BY <2>2, GoneDropped
  <2> QED BY <2>1, <2>2, <2>3, <2>4, Ending
<1> QED BY <1>1, <1>2, <1>3, <1>4, <1>5, <1>6 DEF Turn

\* A player leaves a running table: by CS_Exit, or because his connection is gone.
LEMMA LeavesRunningInv ==
    ASSUME IInv, NEW p \in session, LeavesRunning(p), init_player_' = init_player_,
           session' = session \/ session' = session \ {p}
    PROVE  IInv'
<1> USE Parts, SeatFacts
<1>1. /\ p \in Players /\ seat[p] # NoSeat /\ status[Table(p)] # "FREE"
      /\ Dropped' = [Dropped EXCEPT ![p] = TRUE]
  BY DEF PlayerTypes, LeavesRunning, Seated
<1>2. Table(p) \in Tables /\ p \in Sitting(Table(p))
  BY <1>1, SeatedFacts
<1>3. Present' /\ session' \subseteq session /\ session \ {p} \subseteq session'
  BY DEF Present
<1>4. CASE Offline(p) \/ OfflinePlays(p, Table(p))
  <2>1. /\ online' = [online EXCEPT ![p] = FALSE]
        /\ UNCHANGED <<room, chairs, ready_list_, status, is_double, first_turn>>
    BY <1>4 DEF Offline, OfflinePlays, game
  <2>2. cur_turn' \in [Tables -> Chairs]
    <3>1. CASE Offline(p)
      BY <3>1 DEF Offline, game, GameTypes
    <3>2. CASE OfflinePlays(p, Table(p))
      <4>1. Next_(cur_turn[Table(p)]) \in Chairs
        BY <1>2 DEF GameTypes, Chairs, Next_
      <4> QED BY <3>2, <4>1 DEF OfflinePlays, GameTypes
    <3> QED BY <1>4, <3>1, <3>2
  <2>3. PlayerTypes'
    BY <1>1, <1>3, <2>1 DEF PlayerTypes
  <2>4. GameTypes'
    BY <2>1, <2>2 DEF GameTypes
  <2>5. Gone'
    <3> SUFFICES ASSUME NEW q \in Players \ session', seat[q] # NoSeat
                 PROVE  status[seat[q][1]] # "FREE" /\ Dropped'[q]
      BY <2>1 DEF Gone, Table, chairs
    <3>1. CASE q = p
      BY <1>1, <3>1 DEF Table, PlayerTypes
    <3>2. CASE q # p
      BY <1>1, <1>3, <3>2 DEF Gone, Table, PlayerTypes
    <3> QED BY <3>1, <3>2
  <2> QED BY <1>3, <2>1, <2>3, <2>4, <2>5, Steady
<1>5. CASE OfflineEnds(p, Table(p))
  <2>1. PICK P \in SUBSET Sitting(Table(p)) :
          {p} \union {q \in Sitting(Table(p)) : ~online[q] \/ Dropped[q]} \subseteq P /\ Ends(Table(p), P)
    BY <1>5 DEF OfflineEnds, finishgame
  <2>2. PlayerTypes'
    BY <1>1, <1>3, <2>1 DEF Ends, BackOnline, PlayerTypes
  <2>3. \A q \in Players \ P : Dropped'[q] = Dropped[q]
    BY <1>1, <2>1 DEF PlayerTypes
  <2>4. \A q \in Sitting(Table(p)) : q \notin session => q \in P
    BY <1>2, <2>1, GoneDropped
  <2>5. session \ P \subseteq session'
    BY <1>3, <2>1
  <2> QED BY <1>2, <1>3, <2>1, <2>2, <2>3, <2>4, <2>5, Ending
<1> QED BY <1>4, <1>5 DEF LeavesRunning

\* A player leaves a waiting table, by CS_Exit or for good.
LEMMA LeavesWaitingInv ==
    ASSUME IInv, NEW p \in session, StandsUp({p}), Unready({p}), ExitsRoom({p}),
           PlayerTypes', GameTypes', status' = status,
           \/ session' = session /\ init_player_' = init_player_
           \/ session' = session \ {p} /\ init_player_' = init_player_ \ {p},
           \A q \in Players \ {p} : Dropped'[q] = Dropped[q]
    PROVE  IInv'
<1> USE Parts
<1>1. {p} \in SUBSET Players
  BY DEF PlayerTypes
<1>2. /\ ready_list_' \in [Seats -> BOOLEAN]
      /\ \A s \in Seats : ready_list_'[s] => ready_list_[s] /\ s \notin Left({p})
  BY DEF Unready
<1>3. Present' /\ session \ {p} \subseteq session' /\ init_player_ \ {p} \subseteq init_player_'
  BY DEF Present
<1>4. \A q \in Players \ {p} : q \notin session /\ seat[q] # NoSeat => status'[Table(q)] # "FREE"
  BY DEF Gone
<1> QED BY <1>1, <1>2, <1>3, <1>4, Standing

LEMMA LeavingInv ==
    ASSUME IInv, NEW p \in Players, Exit(p) \/ Logout(p)
    PROVE  IInv'
<1> USE Parts
<1>1. p \in session
  BY DEF Exit, Logout
<1>2. CASE Exit(p)
  <2>1. UNCHANGED <<session, init_player_>>
    BY <1>2 DEF Exit
  <2>2. CASE LeavesRunning(p)
    BY <1>1, <2>1, <2>2, LeavesRunningInv
  <2>3. CASE ~LeavesRunning(p)
    <3>1. /\ LeavesWaiting(p)
          /\ online' = [online EXCEPT ![p] = FALSE] /\ Dropped' = [Dropped EXCEPT ![p] = TRUE]
      BY <1>2, <2>3 DEF Exit
    <3>2. PlayerTypes' /\ GameTypes' /\ status' = status
      BY <2>1, <3>1 DEF LeavesWaiting, game, PlayerTypes, GameTypes
    <3>3. \A q \in Players \ {p} : Dropped'[q] = Dropped[q]
      BY <3>1 DEF PlayerTypes
    <3> QED BY <1>1, <2>1, <3>1, <3>2, <3>3, LeavesWaitingInv DEF LeavesWaiting
  <2> QED BY <2>2, <2>3
<1>3. CASE Logout(p)
  <2>1. session' = session \ {p}
    BY <1>3 DEF Logout
  <2>2. CASE LeavesRunning(p) /\ UNCHANGED init_player_
    BY <1>1, <2>1, <2>2, LeavesRunningInv
  <2>3. ASSUME Deleted(p)
        PROVE  PlayerTypes' /\ GameTypes' /\ Present' /\ status' = status
               /\ \A q \in Players \ {p} : Dropped'[q] = Dropped[q]
    BY <2>1, <2>3 DEF Deleted, PlayerTypes, GameTypes, Present
  <2>4. CASE LogoutWaiting(p)
    BY <1>1, <2>1, <2>3, <2>4, LeavesWaitingInv DEF LogoutWaiting, Deleted
  <2>5. CASE LogoutStanding(p)
    <3>1. /\ seat[p] = NoSeat /\ room_id' = [room_id EXCEPT ![p] = FALSE]
          /\ Deleted(p) /\ UNCHANGED <<room_player_list_, cur_player_count_, chairs, ready_list_>>
      BY <2>5 DEF LogoutStanding
    <3>2. RoomTypes' /\ InRoom'
      BY <3>1 DEF RoomTypes, InRoom, chairs
    <3>3. Known'
      BY <3>1 DEF Known, Deleted, RoomTypes
    <3>4. Chairing' /\ ReadySeated' /\ ready_list_' \in [Seats -> BOOLEAN]
      BY <3>1 DEF chairs, Chairing, ChairsAgree, ReadySeated
    <3>5. Gone'
      BY <2>1, <2>3, <3>1 DEF Gone, Table, chairs
    <3> QED BY <2>3, <3>1, <3>2, <3>3, <3>4, <3>5, PartsNext
  <2> QED BY <1>3, <2>2, <2>4, <2>5 DEF Logout
<1> QED BY <1>2, <1>3

LEMMA NextInv == IInv /\ [Next]_vars => IInv'
<1> SUFFICES ASSUME IInv, [Next]_vars PROVE IInv'
  OBVIOUS
<1>1. ASSUME NEW p \in Players, Message(p) PROVE IInv'
  <2>1. CASE Login(p) \/ ReconnectionPlayMsg(p) \/ EnterRoom(p) \/ EnterRoomAndSitDown(p)
             \/ \E s \in Seats : SitDown(p, s)
    BY <2>1, ComingInInv
  <2>2. CASE Logout(p) \/ Exit(p)
    BY <2>2, LeavingInv
  <2>3. CASE StandUp(p) \/ StandUpAndExitRoom(p) \/ ForcedExit(p)
    BY <2>3, StandUpInv
  <2>4. CASE ChangeChair(p) \/ ChangeTable(p)
    BY <2>4, MoveInv DEF ChangeChair, ChangeTable, Seated
  <2>5. CASE Ready(p)
    BY <2>5, ReadyInv
  <2>6. CASE CallDouble(p)
    BY <2>6, DoublesInv, SeatedFacts DEF CallDouble, Seated
  <2> QED BY <1>1, <2>1, <2>2, <2>3, <2>4, <2>5, <2>6 DEF Message
<1>2. ASSUME NEW p \in Players, Tick(p) PROVE IInv'
  BY <1>2, StandUpInv, ReadyInv DEF Tick
<1>3. ASSUME NEW t \in Tables, Turn(t) PROVE IInv'
  BY <1>3, TurnInv
<1>4. CASE UNCHANGED vars
  <2>1. UNCHANGED <<player, room, chairs, ready_list_, game>>
    BY <1>4 DEF vars
  <2> QED BY <2>1, TurnSteady, Parts DEF game, GameTypes
<1> QED BY <1>1, <1>2, <1>3, <1>4 DEF Next

-----------------------------------------------------------------------------
(* The theorems. *)

THEOREM Invariant == Spec => []IInv
<1> QED BY InitInv, NextInv, PTL DEF Spec

\* Every variable keeps its type, whoever enters, moves, plays and leaves.
THEOREM TypeCorrect == Spec => []TypeOK
<1>1. IInv => TypeOK
  BY DEF IInv
<1> QED BY <1>1, Invariant, PTL

\* The players' seats and the tables' chairs name each other.
THEOREM SeatsSafe == Spec => []SeatsAgree
<1>1. IInv => SeatsAgree
  BY DEF IInv, ChairsAgree, InRoom, Known, SeatsAgree
<1> QED BY <1>1, Invariant, PTL

\* No ready flag outlives its player.
THEOREM ReadySafe == Spec => []ReadySeated
<1>1. IInv => ReadySeated
  BY DEF IInv
<1> QED BY <1>1, Invariant, PTL

\* No waiting table has a player who is gone.
THEOREM WaitingSafe == Spec => []WaitingArePresent
<1>1. IInv => WaitingArePresent
  BY DEF IInv, Gone, WaitingArePresent
<1> QED BY <1>1, Invariant, PTL

\* Only getting ready makes a waiting table deal.
LEMMA OthersDealNot ==
    ASSUME IInv, [Next]_vars, NEW t \in Tables, status[t] = "FREE", status'[t] = "CALL"
    PROVE  \E p \in session : Seated(p) /\ (ReadyHere(p) \/ ReadyElsewhere(p))
<1> USE Parts
<1>1. ~UNCHANGED status
  OBVIOUS
<1>2. ASSUME NEW p \in Players, Message(p)
      PROVE  p \in session /\ Seated(p) /\ (ReadyHere(p) \/ ReadyElsewhere(p))
  <2>1. ~(Login(p) \/ ReconnectionPlayMsg(p) \/ EnterRoom(p) \/ EnterRoomAndSitDown(p)
            \/ \E s \in Seats : SitDown(p, s))
    BY <1>1 DEF Login, ReconnectionPlayMsg, EnterRoom, EnterRoomAndSitDown, SitDown, game
  <2>2. ~(StandUp(p) \/ StandUpAndExitRoom(p) \/ ForcedExit(p) \/ ChangeChair(p) \/ ChangeTable(p))
    BY <1>1 DEF StandUp, StandUpAndExitRoom, ForcedExit, ChangeChair, ChangeTable, game
  <2>3. ~LeavesRunning(p)
    BY <1>1 DEF LeavesRunning, Offline, OfflinePlays, OfflineEnds, finishgame, Ends, game, GameTypes
  <2>4. ~(Logout(p) \/ Exit(p))
    BY <1>1, <2>3 DEF Logout, LogoutWaiting, LogoutStanding, Deleted, Exit, LeavesWaiting, game
  <2>5. ~CallDouble(p)
    BY DEF CallDouble, Doubles, GameTypes
  <2> QED BY <1>2, <2>1, <2>2, <2>4, <2>5 DEF Message, Ready
<1>3. ASSUME NEW p \in Players, Tick(p)
      PROVE  p \in session /\ Seated(p) /\ ReadyElsewhere(p)
  <2>1. ~TickForcesOut(p)
    BY <1>1 DEF TickForcesOut, game
  <2>2. TickMoves(p)
    BY <1>3, <2>1 DEF Tick
  <2> QED BY <2>2 DEF TickMoves, Gone, Seated
<1>4. ~\E u \in Tables : Turn(u)
  <2> SUFFICES ASSUME NEW u \in Tables, Turn(u) PROVE FALSE
    OBVIOUS
  <2>1. ~(CallDecides(u) \/ CallPassesOn(u) \/ TakeTurn(u))
    BY <1>1 DEF CallDecides, SendLandCards, CallPassesOn, TakeTurn, GameTypes
  <2>2. ~CallAgain(u)
    BY DEF CallAgain, Deals, GameTypes
  <2>3. ~DoubleTimeout(u)
    BY DEF DoubleTimeout, Doubles, GameTypes
  <2>4. ~(CallFindsNobody(u) \/ LastCard(u) \/ Aborts(u))
    BY DEF CallFindsNobody, LastCard, Aborts, finishgameError, finishgame, Ends, GameTypes
  <2> QED BY <2>1, <2>2, <2>3, <2>4 DEF Turn
<1>5. ~UNCHANGED vars
  BY <1>1 DEF vars, game
<1> QED BY <1>2, <1>3, <1>4, <1>5 DEF Next, PlayerTypes

\* Whoever sits at a table that gets its last ready flag is connected.
LEMMA DealsToPresent ==
    ASSUME IInv, IInv', NEW p \in session, Seated(p), ReadyHere(p) \/ ReadyElsewhere(p),
           NEW t \in Tables, status[t] = "FREE", status'[t] = "CALL", NEW c \in Chairs
    PROVE  player_list_'[<<t, c>>] \in session'
<1> USE Parts, SeatFacts
<1>0. p \in Players /\ seat[p] # NoSeat /\ seat[p] \in Seats
  BY SeatedFacts DEF Seated, PlayerTypes
<1>1. session' = session
  BY DEF ReadyHere, ReadyElsewhere
<1>2. ready_list_'[<<t, c>>]
  <2>1. PICK u \in Tables : CheckStart(u)
    BY <1>0 DEF ReadyHere, ReadyElsewhere, Table
  <2>2. AllReady(u)
    BY <2>1 DEF CheckStart, game
  <2>3. u = t
    BY <2>1, <2>2 DEF CheckStart, Deals, GameTypes
  <2> QED BY <2>2, <2>3 DEF AllReady
<1>3. \A q \in Players : q # p => seat'[q] = seat[q]
  <2>1. CASE ReadyHere(p)
    BY <2>1 DEF ReadyHere, chairs
  <2>2. CASE ReadyElsewhere(p)
    <3>1. PICK s : seat' = [seat EXCEPT ![p] = s]
      BY <2>2 DEF ReadyElsewhere, Moves
    <3> QED BY <3>1 DEF Chairing
  <2> QED BY <2>1, <2>2
<1>4. Chairing' /\ ReadySeated'
  BY Zenon DEF IInv, TypeOK, Chairing
<1>5. PICK q \in Players : player_list_'[<<t, c>>] = q /\ seat'[q] = <<t, c>>
  <2>1. player_list_'[<<t, c>>] # None
    BY <1>2, <1>4 DEF ReadySeated
  <2>2. player_list_'[<<t, c>>] \in Players
    BY <1>4, <2>1 DEF Chairing
  <2> QED BY <1>4, <2>2 DEF Chairing, ChairsAgree
<1>6. CASE q = p
  BY <1>1, <1>5, <1>6
<1>7. CASE q # p
  <2>1. seat[q] = <<t, c>> /\ seat[q] # NoSeat
    BY <1>3, <1>5, <1>7
  <2>2. q \in session
    <3>1. Table(q) = t
      BY <2>1 DEF Table
    <3>2. Gone
      OBVIOUS
    <3> QED BY <2>1, <3>1, <3>2, Zenon DEF Gone
  <2> QED BY <1>1, <1>5, <2>2
<1> QED BY <1>6, <1>7

\* A game is dealt at a full table, to connected players.
THEOREM DealtSafe == Spec => DealtToAll
<1>1. IInv /\ IInv' /\ [Next]_vars =>
        [\A t \in Tables : status[t] = "FREE" /\ status'[t] = "CALL" =>
           \A c \in Chairs : player_list_'[<<t, c>>] \in session']_vars
  <2> SUFFICES ASSUME IInv, IInv', [Next]_vars,
                      NEW t \in Tables, status[t] = "FREE", status'[t] = "CALL", NEW c \in Chairs
               PROVE  player_list_'[<<t, c>>] \in session'
    OBVIOUS
  <2>1. PICK p \in session : Seated(p) /\ (ReadyHere(p) \/ ReadyElsewhere(p))
    BY OthersDealNot
  <2> QED BY <2>1, DealsToPresent
<1> QED BY <1>1, Invariant, PTL DEF Spec, DealtToAll

\* Only Logout takes a player out of session.
LEMMA OthersStay ==
    ASSUME IInv, [Next]_vars, NEW p \in session, p \notin session'
    PROVE  Logout(p)
<1> USE Parts
<1>1. ASSUME NEW q \in Players, Message(q) PROVE q = p /\ Logout(q)
  <2>1. ~(Login(q) \/ ReconnectionPlayMsg(q) \/ EnterRoom(q) \/ EnterRoomAndSitDown(q)
            \/ \E s \in Seats : SitDown(q, s))
    BY DEF Login, ReconnectionPlayMsg, EnterRoom, EnterRoomAndSitDown, SitDown, player
  <2>2. ~(StandUp(q) \/ StandUpAndExitRoom(q) \/ ForcedExit(q) \/ ChangeChair(q) \/ ChangeTable(q) \/ Exit(q))
    BY DEF StandUp, StandUpAndExitRoom, ForcedExit, ChangeChair, ChangeTable, Exit
  <2>3. ~(Ready(q) \/ CallDouble(q))
    BY DEF Ready, ReadyHere, ReadyElsewhere, CallDouble, Doubles, player
  <2> QED BY <1>1, <2>1, <2>2, <2>3 DEF Message, Logout
<1>2. ASSUME NEW q \in Players, Tick(q) PROVE FALSE
  BY <1>2 DEF Tick, TickForcesOut, TickMoves, ReadyElsewhere
<1>3. ASSUME NEW t \in Tables, Turn(t) PROVE FALSE
  <2>1. ~(CallDecides(t) \/ CallAgain(t) \/ CallPassesOn(t) \/ TakeTurn(t) \/ DoubleTimeout(t))
    BY DEF CallDecides, CallAgain, CallPassesOn, TakeTurn, DoubleTimeout, Doubles, player
  <2>2. ~(CallFindsNobody(t) \/ LastCard(t) \/ Aborts(t))
    BY DEF CallFindsNobody, LastCard, Aborts
  <2> QED BY <1>3, <2>1, <2>2 DEF Turn
<1>4. ~UNCHANGED vars
  BY DEF vars, player
<1> QED BY <1>1, <1>2, <1>3, <1>4 DEF Next

\* Who loses his connection in a game keeps his chair, unless the game ends.
THEOREM ChairSafe == Spec => KeepsChair
<1>1. IInv /\ [Next]_vars =>
        [\A p \in session \ session' : seat[p] # NoSeat /\ status[Table(p)] # "FREE" =>
           seat'[p] = seat[p] \/ status'[Table(p)] = "FREE"]_vars
  <2> SUFFICES ASSUME IInv, [Next]_vars, NEW p \in session \ session',
                      seat[p] # NoSeat, status[Table(p)] # "FREE"
               PROVE  seat'[p] = seat[p] \/ status'[Table(p)] = "FREE"
    OBVIOUS
  <2>1. p \in Players /\ Table(p) \in Tables
    BY SeatedFacts, Parts DEF PlayerTypes
  <2>2. LeavesRunning(p)
    BY OthersStay DEF Logout, LogoutWaiting, LogoutStanding
  <2>3. CASE Offline(p) \/ OfflinePlays(p, Table(p))
    BY <2>3 DEF Offline, OfflinePlays, chairs
  <2>4. CASE OfflineEnds(p, Table(p))
    BY <2>1, <2>4, Parts DEF OfflineEnds, finishgame, Ends, GameTypes
  <2> QED BY <2>2, <2>3, <2>4 DEF LeavesRunning
<1> QED BY <1>1, Invariant, PTL DEF Spec, KeepsChair

=============================================================================
