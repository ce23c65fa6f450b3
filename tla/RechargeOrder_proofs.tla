------------------------- MODULE RechargeOrder_proofs -------------------------
(***************************************************************************)
(* Proofs about recharges and refunds, for any orders, refunds, players,   *)
(* gates and game servers: the types, that what counts as dealt with is    *)
(* paid or waits for its player, and that nothing is paid twice as long as *)
(* the web asks for one order at a time.                                   *)
(***************************************************************************)
EXTENDS RechargeOrder, FiniteSetTheorems, SequenceTheorems, TLAPS

-----------------------------------------------------------------------------
(* The invariants *)

DealMsgs == {Deal(o) : o \in Orders}
ConfigMsgs == {PlayerIn(p) : p \in Players} \union {PlayerOut(p) : p \in Players} \union DealMsgs
GameMsgs == {LogoutMsg(p) : p \in Players} \union DealMsgs
Letters == [type : {"LC_Login", "SC_EnterRoomAndSitDown"}, gate : Gates, game : Games]
Loads == [game : Games, read : BOOLEAN, left : [Payments -> Nat]]

Rows ==
    /\ server_status \in [Orders -> {0, 1, 6}]
    /\ waiting \in [Payments -> Nat] /\ done \in [Payments -> Nat]
    /\ statements \in [Sql -> [Payments -> Nat]]
    /\ found \in [Orders -> Nat] /\ asked \subseteq Orders /\ paid \in [Payments -> Nat]
    /\ refund \in [Refunds -> Games \union {None, "done"}]

Messages ==
    /\ to_gate \in [Gates -> Seq(DealMsgs)]
    /\ to_config \in [Gates -> Seq(ConfigMsgs)]
    /\ to_game \in [Gates \X Games -> Seq(GameMsgs)]
    /\ to_client \in [Players -> {None} \union Letters]

Places ==
    /\ m_mpPlayer_Gate \in [Players -> Gates \union {None, Zero}]
    /\ config \in [Gates -> {"gate", "unknown"}]
    /\ client_session_ \in [Gates -> [Players -> Games \union {None}]]
    /\ live \in [Players -> Gates \union {None}]
    /\ obj \in [Games -> [Players -> {None, "loading", "ready"}]]

\* A player has one object in all game servers.
OneObject ==
    \A p \in Players : \A s, t \in Games : obj[s][p] # None /\ obj[t][p] # None => s = t

\* A load marks rows that are still there, and each row it has marked is paid.
Marks ==
    /\ load \in [Players -> {None} \union Loads]
    /\ \A p \in Players, q \in Payments :
         load[p] # None => load[p].left[q] <= IF Owner[q] = p THEN waiting[q] ELSE 0
    /\ \A q \in Payments : done[q] <= paid[q]

Base == Rows /\ Messages /\ Places /\ OneObject /\ Marks

\* What stands behind the status an order has or is about to get.
Settled ==
    \A o \in Orders :
        server_status[o] # 0 \/ statements["mark_paid"][o] > 0 \/ statements["mark_put_down"][o] > 0 => Safe(o)

\* The row of a refund that was sent back is written, or about to be, or one is found
\* that has its order_id.
Kept ==
    \A r \in Refunds :
        refund[r] = "done" =>
          statements["exists"][r] > 0 \/ statements["insert"][r] > 0 \/ Safe(r) \/ IsDeal(r)

-----------------------------------------------------------------------------
\* What has the money of an order on its way to a bank or to t_re_recharge, what
\* says that it has come there, and how often it has.
Here(net, o) == Cardinality(Deals(net, o))
Early(o) ==
    statements["exists"][o] + statements["insert"][o] + found[o]
      + Here(to_gate, o) + Here(to_config, o) + Here(to_game, o)
Marked(o) == statements["mark_paid"][o] + statements["mark_put_down"][o]
Times(q) == paid[q] + waiting[q]

\* One thing is under way for an order, at most; what is on its way has not come
\* to anything, and neither has an order of status 0 with no UPDATE pending.
OneWay(o) ==
    /\ statements["order"][o] + Early(o) + Marked(o) <= 1
    /\ Early(o) > 0 => server_status[o] = 0
    /\ server_status[o] = 0 /\ Marked(o) = 0 => Times(o) = 0
    /\ Times(o) <= 1

\* A refund is sent back once, and what became of it is one thing.
Returned(r) == statements["exists"][r] + statements["insert"][r] + Times(r)
Back(r) ==
    /\ Returned(r) <= 1
    /\ refund[r] # "done" => Returned(r) = 0

Once == (\A o \in Orders : OneWay(o)) /\ (\A r \in Refunds : Back(r))

-----------------------------------------------------------------------------
(* Functions, statements and queues *)

Statements == [Sql -> [Payments -> Nat]]

LEMMA AddFact ==
    ASSUME NEW S, NEW f \in [S -> Nat], NEW x \in S
    PROVE  /\ [f EXCEPT ![x] = @ + 1] \in [S -> Nat]
           /\ [f EXCEPT ![x] = @ + 1][x] = f[x] + 1
           /\ \A y \in S : y # x => [f EXCEPT ![x] = @ + 1][y] = f[y]
OBVIOUS

LEMMA TakeFact ==
    ASSUME NEW S, NEW f \in [S -> Nat], NEW x \in S, f[x] > 0
    PROVE  /\ [f EXCEPT ![x] = @ - 1] \in [S -> Nat]
           /\ [f EXCEPT ![x] = @ - 1][x] = f[x] - 1
           /\ \A y \in S : y # x => [f EXCEPT ![x] = @ - 1][y] = f[y]
OBVIOUS

\* A statement that is posted, and one that is run.
LEMMA PostFact ==
    ASSUME NEW st \in Statements, NEW k \in Sql, NEW q \in Payments
    PROVE  /\ Post(st, k, q) \in Statements
           /\ Post(st, k, q)[k][q] = st[k][q] + 1
           /\ \A j \in Sql, x \in Payments : j # k \/ x # q => Post(st, k, q)[j][x] = st[j][x]
<1>1. [st[k] EXCEPT ![q] = @ + 1] \in [Payments -> Nat]
  BY DEF Statements
<1>2. Post(st, k, q) = [st EXCEPT ![k] = [st[k] EXCEPT ![q] = @ + 1]]
  BY DEF Post, Statements
<1> QED BY <1>1, <1>2 DEF Statements

LEMMA TakenFact ==
    ASSUME statements \in Statements, NEW k \in Sql, NEW q \in Payments, statements[k][q] > 0
    PROVE  /\ Taken(k, q) \in Statements
           /\ Taken(k, q)[k][q] = statements[k][q] - 1
           /\ \A j \in Sql, x \in Payments : j # k \/ x # q => Taken(k, q)[j][x] = statements[j][x]
<1>1. [statements[k] EXCEPT ![q] = @ - 1] \in [Payments -> Nat]
  BY DEF Statements
<1>2. Taken(k, q) = [statements EXCEPT ![k] = [statements[k] EXCEPT ![q] = @ - 1]]
  BY DEF Taken, Statements
<1> QED BY <1>1, <1>2 DEF Statements

LEMMA PutFact ==
    ASSUME NEW K, NEW M, NEW net \in [K -> Seq(M)], NEW k \in K, NEW msg \in M
    PROVE  /\ Put(net, k, msg) \in [K -> Seq(M)]
           /\ Put(net, k, msg)[k] = Append(net[k], msg)
           /\ \A j \in K : j # k => Put(net, k, msg)[j] = net[j]
<1>1. Append(net[k], msg) \in Seq(M)
  BY AppendProperties
<1> QED BY <1>1 DEF Put

LEMMA TailFact ==
    ASSUME NEW M, NEW msgs \in Seq(M), msgs # <<>>
    PROVE  /\ Head(msgs) \in M /\ Tail(msgs) \in Seq(M)
           /\ Len(Tail(msgs)) = Len(msgs) - 1 /\ Len(msgs) \in Nat /\ Len(msgs) > 0
           /\ Head(msgs) = msgs[1] /\ \A i \in 1..Len(Tail(msgs)) : Tail(msgs)[i] = msgs[i + 1]
<1>1. Len(msgs) \in Nat /\ Len(msgs) # 0
  BY LenProperties, EmptySeq
<1> QED BY <1>1, HeadTailProperties, ElementOfSeq

LEMMA PopFact ==
    ASSUME NEW K, NEW M, NEW net \in [K -> Seq(M)], NEW k \in K, net[k] # <<>>
    PROVE  /\ [net EXCEPT ![k] = Tail(@)] \in [K -> Seq(M)]
           /\ [net EXCEPT ![k] = Tail(@)][k] = Tail(net[k])
           /\ \A j \in K : j # k => [net EXCEPT ![k] = Tail(@)][j] = net[j]
           /\ Head(net[k]) \in M
<1>1. Tail(net[k]) \in Seq(M) /\ Head(net[k]) \in M
  BY TailFact
<1> QED BY <1>1

\* What a message is, by its type.
LEMMA MessageFact ==
    /\ \A o \in Orders : Deal(o).type = "FS_ChangMoneyDeal" /\ Deal(o).o = o
    /\ \A p \in Players : /\ PlayerIn(p).type = "GF_PlayerIn" /\ PlayerIn(p).p = p
                          /\ PlayerOut(p).type = "GF_PlayerOut" /\ PlayerOut(p).p = p
                          /\ LogoutMsg(p).type = "S_Logout" /\ LogoutMsg(p).p = p
    /\ \A m \in DealMsgs : m.type = "FS_ChangMoneyDeal" /\ m.o \in Orders /\ m = Deal(m.o)
    /\ \A m \in ConfigMsgs :
         \/ m.type = "GF_PlayerIn" /\ m.p \in Players
         \/ m.type = "GF_PlayerOut" /\ m.p \in Players
         \/ m.type = "FS_ChangMoneyDeal" /\ m.o \in Orders /\ m = Deal(m.o)
    /\ \A m \in GameMsgs :
         \/ m.type = "S_Logout" /\ m.p \in Players
         \/ m.type = "FS_ChangMoneyDeal" /\ m.o \in Orders /\ m = Deal(m.o)
BY DEF Deal, PlayerIn, PlayerOut, LogoutMsg, DealMsgs, ConfigMsgs, GameMsgs

LEMMA PaymentFact ==
    /\ Orders \subseteq Payments /\ Refunds \subseteq Payments
    /\ \A o \in Orders : o \notin Refunds
    /\ \A q \in Payments : Owner[q] \in Players
    /\ Sql = {"order", "exists", "insert", "mark_paid", "mark_put_down"}
BY RechargeAssumption DEF RechargeAssumption, Payments, Sql

LEMMA NoneFact ==
    /\ None # "loading" /\ None # "ready" /\ None # "done"
    /\ None \notin Games /\ None \notin Gates /\ "done" \notin Games
BY RechargeAssumption DEF RechargeAssumption

-----------------------------------------------------------------------------
(* The types *)

LEMMA InitBase == Init => Base
<1> SUFFICES ASSUME Init PROVE Base
  OBVIOUS
<1>1. Rows
  BY DEF Init, Rows
<1>2. Messages
  <2>1. <<>> \in Seq(DealMsgs) /\ <<>> \in Seq(ConfigMsgs) /\ <<>> \in Seq(GameMsgs)
    BY EmptySeq
  <2> QED BY <2>1 DEF Init, Messages
<1>3. Places /\ OneObject
  BY DEF Init, Places, OneObject
<1>4. Marks
  BY DEF Init, Marks
<1> QED BY <1>1, <1>2, <1>3, <1>4 DEF Base

\* A step that leaves the variables of a part alone, and one that posts or runs
\* a statement.
LEMMA RowsFrame ==
    ASSUME Base, statements' \in Statements, asked' \subseteq Orders,
           UNCHANGED <<server_status, waiting, done, found, paid, refund>>
    PROVE  Rows'
BY DEF Base, Rows, Statements

LEMMA MessagesFrame ==
    ASSUME Base, UNCHANGED <<to_gate, to_config, to_game, to_client>> PROVE Messages'
BY DEF Base, Messages

LEMMA PlacesFrame ==
    ASSUME Base, UNCHANGED <<m_mpPlayer_Gate, config, client_session_, live, obj>>
    PROVE  Places' /\ OneObject'
BY DEF Base, Places, OneObject

LEMMA MarksFrame == ASSUME Base, UNCHANGED <<load, waiting, done, paid>> PROVE Marks'
BY DEF Base, Marks

LEMMA BaseFact ==
    ASSUME Base
    PROVE  /\ statements \in Statements /\ asked \subseteq Orders
           /\ \A k \in Sql, q \in Payments : statements[k][q] \in Nat
           /\ \A q \in Payments : waiting[q] \in Nat /\ done[q] \in Nat /\ paid[q] \in Nat
           /\ \A o \in Orders : found[o] \in Nat
           /\ to_gate \in [Gates -> Seq(DealMsgs)] /\ to_config \in [Gates -> Seq(ConfigMsgs)]
           /\ to_game \in [Gates \X Games -> Seq(GameMsgs)]
BY DEF Base, Rows, Messages, Statements

LEMMA AskBase == ASSUME Base, NEW o \in Orders, Ask(o) PROVE Base'
<1>1. statements' \in Statements
  BY BaseFact, PaymentFact, PostFact DEF Ask
<1>2. asked' \subseteq Orders
  BY BaseFact DEF Ask
<1>3. UNCHANGED <<server_status, waiting, done, found, paid, refund, to_gate, to_config, to_game,
                  to_client, m_mpPlayer_Gate, config, client_session_, live, obj, load>>
  BY DEF Ask, link_vars, player_vars, config_vars
<1> QED BY <1>1, <1>2, <1>3, RowsFrame, MessagesFrame, PlacesFrame, MarksFrame DEF Base

LEMMA OnDfChangMoneyBase == ASSUME Base, NEW o \in Orders, OnDfChangMoney(o) PROVE Base'
<1>1. UNCHANGED <<server_status, waiting, done, asked, paid, refund, to_config, to_game,
                  to_client, m_mpPlayer_Gate, config, client_session_, live, obj, load>>
  BY DEF OnDfChangMoney, player_vars, config_vars, money_vars
<1>2. found' \in [Orders -> Nat]
  BY BaseFact DEF OnDfChangMoney, Base, Rows
<1>3. /\ statements' = statements \/ statements' = Post(statements, "exists", o)
      /\ to_gate' = to_gate \/ \E g \in Gates : to_gate' = Put(to_gate, g, Deal(o))
  BY DEF OnDfChangMoney
<1>4. statements' \in Statements
  <2>1. statements \in Statements /\ "exists" \in Sql /\ o \in Payments
    BY BaseFact, PaymentFact
  <2>2. Post(statements, "exists", o) \in Statements
    BY <2>1, PostFact
  <2> QED BY <1>3, <2>1, <2>2
<1>5. to_gate' \in [Gates -> Seq(DealMsgs)]
  <2>1. Deal(o) \in DealMsgs
    BY DEF DealMsgs
  <2>2. ASSUME NEW g \in Gates PROVE Put(to_gate, g, Deal(o)) \in [Gates -> Seq(DealMsgs)]
    BY <2>1, BaseFact, PutFact
  <2> QED BY <1>3, <2>2, BaseFact
<1>6. Rows' /\ Messages'
  BY <1>1, <1>2, <1>4, <1>5 DEF Base, Rows, Messages, Statements
<1> QED BY <1>1, <1>6, PlacesFrame, MarksFrame DEF Base

LEMMA ConfigHearsBase == ASSUME Base, NEW g \in Gates, ConfigHears(g) PROVE Base'
<1>1. UNCHANGED <<server_status, waiting, done, found, asked, paid, refund, to_gate, to_game,
                  to_client, config, client_session_, live, obj, load>>
  BY DEF ConfigHears, player_vars, money_vars
<1>2. Head(to_config[g]) \in ConfigMsgs /\ to_config' \in [Gates -> Seq(ConfigMsgs)]
  BY BaseFact, PopFact DEF ConfigHears
<1>3. PICK msg \in ConfigMsgs :
        \/ /\ msg.type = "GF_PlayerIn" /\ m_mpPlayer_Gate' = SetPlayer_Gate(msg.p, g)
           /\ UNCHANGED statements
        \/ /\ msg.type = "GF_PlayerOut" /\ m_mpPlayer_Gate' = ErasePlayer_Gate(msg.p)
           /\ UNCHANGED statements
        \/ /\ msg.type = "FS_ChangMoneyDeal" /\ statements' = Post(statements, "exists", msg.o)
           /\ UNCHANGED m_mpPlayer_Gate
  BY <1>2 DEF ConfigHears
<1>4. statements' \in Statements
  <2>1. CASE msg.type # "FS_ChangMoneyDeal"
    BY <1>3, <2>1, BaseFact
  <2>2. CASE msg.type = "FS_ChangMoneyDeal"
    <3>1. msg.o \in Payments
      BY <2>2, MessageFact, PaymentFact
    <3>2. statements' = Post(statements, "exists", msg.o)
      BY <1>3, <2>2
    <3> QED BY <3>1, <3>2, BaseFact, PaymentFact, PostFact
  <2> QED BY <2>1, <2>2
<1>5. m_mpPlayer_Gate' \in [Players -> Gates \union {None, Zero}]
  BY <1>3 DEF SetPlayer_Gate, ErasePlayer_Gate, Base, Places
<1>6. Rows'
  BY <1>1, <1>4, BaseFact, RowsFrame
<1>7. Messages' /\ Places' /\ OneObject'
  BY <1>1, <1>2, <1>5 DEF Base, Messages, Places, OneObject
<1> QED BY <1>1, <1>6, <1>7, MarksFrame DEF Base

LEMMA GateDealsBase == ASSUME Base, NEW g \in Gates, GateDeals(g) PROVE Base'
<1>1. UNCHANGED <<server_status, waiting, done, statements, found, asked, paid, refund, to_client,
                  m_mpPlayer_Gate, config, client_session_, live, obj, load>>
  BY DEF GateDeals, player_vars, money_vars, db_vars, config_vars
<1>2. Head(to_gate[g]) \in DealMsgs /\ to_gate' \in [Gates -> Seq(DealMsgs)]
  BY BaseFact, PopFact DEF GateDeals
<1>3. PICK o \in Orders : o = Head(to_gate[g]).o
  BY <1>2, MessageFact
<1>4. PICK s : s = client_session_[g][Owner[o]] /\ s \in Games \union {None}
  BY PaymentFact DEF Base, Places
<1>5. \/ s = None /\ to_config' = Put(to_config, g, Deal(o)) /\ UNCHANGED to_game
      \/ s # None /\ to_game' = Put(to_game, <<g, s>>, Deal(o)) /\ UNCHANGED to_config
  BY <1>3, <1>4 DEF GateDeals, NotHere
<1>6. Deal(o) \in ConfigMsgs /\ Deal(o) \in GameMsgs
  BY DEF ConfigMsgs, GameMsgs, DealMsgs
<1>7. to_config' \in [Gates -> Seq(ConfigMsgs)]
  BY <1>5, <1>6, BaseFact, PutFact
<1>8. to_game' \in [Gates \X Games -> Seq(GameMsgs)]
  <2>1. CASE s = None
    BY <1>5, <2>1, BaseFact
  <2>2. CASE s # None
    <3>1. <<g, s>> \in Gates \X Games
      BY <1>4, <2>2
    <3>2. Put(to_game, <<g, s>>, Deal(o)) \in [Gates \X Games -> Seq(GameMsgs)]
      BY <1>6, <3>1, BaseFact, PutFact
    <3> QED BY <1>5, <2>2, <3>2
  <2> QED BY <2>1, <2>2
<1>9. Rows' /\ Messages'
  BY <1>1, <1>2, <1>7, <1>8, BaseFact DEF Base, Rows, Messages
<1> QED BY <1>1, <1>9, PlacesFrame, MarksFrame DEF Base

LEMMA GateHearsBase == ASSUME Base, NEW p \in Players, GateHears(p) PROVE Base'
<1>1. UNCHANGED <<server_status, waiting, done, statements, found, asked, paid, refund, to_gate,
                  to_game, m_mpPlayer_Gate, config, live, obj, load>>
  BY DEF GateHears, money_vars, db_vars, config_vars
<1>2. to_client[p] \in Letters
  BY DEF GateHears, Base, Messages
<1>3. PICK g \in Gates, s \in Games :
        /\ client_session_' = [client_session_ EXCEPT ![g][p] = s]
        /\ to_config' = to_config \/ to_config' = Put(to_config, g, PlayerIn(p))
  BY <1>2 DEF GateHears, Letters
<1>4. to_config' \in [Gates -> Seq(ConfigMsgs)]
  <2>1. PlayerIn(p) \in ConfigMsgs
    BY DEF ConfigMsgs
  <2> QED BY <1>3, <2>1, BaseFact, PutFact
<1>5. to_client' \in [Players -> {None} \union Letters]
  BY DEF GateHears, Base, Messages
<1>6. client_session_' \in [Gates -> [Players -> Games \union {None}]]
  BY <1>3 DEF Base, Places
<1>7. Rows' /\ Messages' /\ Places' /\ OneObject'
  BY <1>1, <1>4, <1>5, <1>6 DEF Base, Rows, Messages, Places, OneObject
<1> QED BY <1>1, <1>7, MarksFrame DEF Base

\* A key that a net does not have is not written.
LEMMA PutAnyFact ==
    ASSUME NEW K, NEW M, NEW net \in [K -> Seq(M)], NEW k, NEW msg \in M
    PROVE  Put(net, k, msg) \in [K -> Seq(M)]
<1>1. CASE k \in K
  BY <1>1, PutFact
<1>2. CASE k \notin K
  BY <1>2 DEF Put
<1> QED BY <1>1, <1>2

LEMMA OnClosedBase == ASSUME Base, NEW p \in Players, OnClosed(p) PROVE Base'
<1>1. UNCHANGED <<server_status, waiting, done, statements, found, asked, paid, refund, to_gate,
                  to_client, m_mpPlayer_Gate, config, obj, load>>
  BY DEF OnClosed, money_vars, db_vars, config_vars
<1>2. PICK g \in Gates, s \in Games \union {None}, user_data \in BOOLEAN :
        /\ to_game' = Put(to_game, <<g, s>>, LogoutMsg(p))
        /\ to_config' = Put(to_config, g, PlayerOut(p))
        /\ client_session_' = IF user_data THEN client_session_
                              ELSE [client_session_ EXCEPT ![g][p] = None]
  <2>1. live[p] \in Gates
    BY DEF OnClosed, Base, Places
  <2>2. PICK user_data \in BOOLEAN :
          client_session_' = IF user_data THEN client_session_
                             ELSE [client_session_ EXCEPT ![live[p]][p] = None]
    BY DEF OnClosed
  <2>3. /\ to_game' = Put(to_game, <<live[p], client_session_[live[p]][p]>>, LogoutMsg(p))
        /\ to_config' = Put(to_config, live[p], PlayerOut(p))
    BY DEF OnClosed
  <2>4. client_session_[live[p]][p] \in Games \union {None}
    BY <2>1 DEF Base, Places
  <2> QED BY <2>1, <2>2, <2>3, <2>4, Zenon
<1>3. LogoutMsg(p) \in GameMsgs /\ PlayerOut(p) \in ConfigMsgs
  BY DEF GameMsgs, ConfigMsgs
<1>4. to_game' \in [Gates \X Games -> Seq(GameMsgs)]
  BY <1>2, <1>3, BaseFact, PutAnyFact
<1>5. to_config' \in [Gates -> Seq(ConfigMsgs)]
  BY <1>2, <1>3, BaseFact, PutAnyFact
<1>6. client_session_' \in [Gates -> [Players -> Games \union {None}]]
  BY <1>2 DEF Base, Places
<1>7. live' \in [Players -> Gates \union {None}]
  BY DEF OnClosed, Base, Places
<1>8. Rows' /\ Messages' /\ Places' /\ OneObject'
  BY <1>1, <1>4, <1>5, <1>6, <1>7 DEF Base, Rows, Messages, Places, OneObject
<1> QED BY <1>1, <1>8, MarksFrame DEF Base

LEMMA SetToSeqFact ==
    ASSUME NEW S, IsFiniteSet(S)
    PROVE  \E n \in Nat : SetToSeq(S) \in [1..n -> S]
<1>1. Cardinality(S) \in Nat /\ ExistsBijection(1..Cardinality(S), S)
  BY FS_CardinalityType
<1>2. \E f \in [1..Cardinality(S) -> S] : IsInjective(f)
  BY <1>1 DEF ExistsBijection, Bijection, Injection
<1>3. SetToSeq(S) \in [1..Cardinality(S) -> S]
  BY <1>2 DEF SetToSeq
<1> QED BY <1>1, <1>3

\* Reconnect empties a queue and fills the other one with players.
LEMMA ReconnectFact ==
    ASSUME Base, NEW g \in Gates, Reconnect(g)
    PROVE  /\ to_gate' = [to_gate EXCEPT ![g] = <<>>]
           /\ \E hail \in Seq({PlayerIn(p) : p \in Players}) :
                to_config' = [to_config EXCEPT ![g] = hail]
<1>1. PICK S \in SUBSET Players :
        to_config' = [to_config EXCEPT ![g] = [i \in DOMAIN SetToSeq(S) |-> PlayerIn(SetToSeq(S)[i])]]
  BY DEF Reconnect
<1>2. IsFiniteSet(S)
  BY FS_Subset, RechargeAssumption DEF RechargeAssumption
<1>3. PICK n \in Nat : SetToSeq(S) \in [1..n -> S]
  BY <1>2, SetToSeqFact
<1>4. [i \in DOMAIN SetToSeq(S) |-> PlayerIn(SetToSeq(S)[i])] \in [1..n -> {PlayerIn(p) : p \in Players}]
  BY <1>3
<1>5. [i \in DOMAIN SetToSeq(S) |-> PlayerIn(SetToSeq(S)[i])] \in Seq({PlayerIn(p) : p \in Players})
  BY <1>4, SeqDef
<1> QED BY <1>1, <1>5 DEF Reconnect

LEMMA ReconnectBase == ASSUME Base, NEW g \in Gates, Reconnect(g) PROVE Base'
<1>1. UNCHANGED <<server_status, waiting, done, statements, found, asked, paid, refund, to_game,
                  to_client, m_mpPlayer_Gate, client_session_, live, obj, load>>
  BY DEF Reconnect, player_vars, money_vars, db_vars
<1>2. PICK hail \in Seq({PlayerIn(p) : p \in Players}) :
        to_gate' = [to_gate EXCEPT ![g] = <<>>] /\ to_config' = [to_config EXCEPT ![g] = hail]
  BY ReconnectFact
<1>3. hail \in Seq(ConfigMsgs)
  <2>1. hail \in [1..Len(hail) -> {PlayerIn(p) : p \in Players}] /\ Len(hail) \in Nat
    BY LenProperties
  <2>2. hail \in [1..Len(hail) -> ConfigMsgs]
    BY <2>1 DEF ConfigMsgs
  <2> QED BY <2>1, <2>2, SeqDef
<1>4. <<>> \in Seq(DealMsgs)
  BY EmptySeq
<1>5. Messages'
  BY <1>1, <1>2, <1>3, <1>4 DEF Base, Messages
<1>6. Places' /\ OneObject'
  BY <1>1 DEF Reconnect, Base, Places, OneObject
<1>7. Rows'
  BY <1>1, BaseFact, RowsFrame
<1> QED BY <1>1, <1>5, <1>6, <1>7, MarksFrame DEF Base

LEMMA LetInBase ==
    ASSUME Base, NEW p \in Players, NEW g \in Gates, NEW s \in Games, LetIn(p, g, s) PROVE Base'
<1>1. UNCHANGED <<server_status, waiting, done, statements, found, asked, paid, refund, to_gate,
                  to_config, to_game, m_mpPlayer_Gate, config, client_session_>>
  BY DEF LetIn, money_vars, config_vars
<1>2. Rows'
  BY <1>1, BaseFact, RowsFrame
<1>3. Messages'
  <2>1. [type |-> "LC_Login", gate |-> g, game |-> s] \in Letters
    BY DEF Letters
  <2>2. to_client' \in [Players -> {None} \union Letters]
    BY <2>1 DEF LetIn, Base, Messages
  <2> QED BY <1>1, <2>2 DEF Base, Messages
<1>4. Places'
  <2>1. live' \in [Players -> Gates \union {None}]
    BY DEF LetIn, Base, Places
  <2>2. obj' = obj \/ obj' = [obj EXCEPT ![s][p] = "loading"]
    BY DEF LetIn
  <2>3. obj' \in [Games -> [Players -> {None, "loading", "ready"}]]
    BY <2>2 DEF Base, Places
  <2> QED BY <1>1, <2>1, <2>3 DEF Base, Places
<1>5. OneObject'
  <2>1. \A t \in Games : obj[t][p] = None \/ t = s
    BY DEF LetIn, CanEnter
  <2>2. \A q \in Players, t \in Games : obj'[t][q] = obj[t][q] \/ (q = p /\ t = s)
    BY DEF LetIn, Base, Places
  <2> QED BY <2>1, <2>2 DEF Base, OneObject
<1>6. Marks'
  <2>1. CASE UNCHANGED load
    BY <1>1, <2>1, MarksFrame
  <2>2. CASE load' = [load EXCEPT ![p] = [game |-> s, read |-> FALSE, left |-> [q \in Payments |-> 0]]]
    <3>1. [game |-> s, read |-> FALSE, left |-> [q \in Payments |-> 0]] \in Loads
      BY DEF Loads
    <3>2. load' \in [Players -> {None} \union Loads]
      BY <2>2, <3>1 DEF Base, Marks
    <3>3. \A q \in Players : q # p => load'[q] = load[q]
      BY <2>2 DEF Base, Marks
    <3>4. \A q \in Payments : load'[p].left[q] = 0
      BY <2>2 DEF Base, Marks
    <3>5. \A q \in Payments : 0 <= IF Owner[q] = p THEN waiting[q] ELSE 0
      BY BaseFact
    <3> QED BY <1>1, <3>2, <3>3, <3>4, <3>5 DEF Base, Marks
  <2> QED BY <2>1, <2>2 DEF LetIn
<1> QED BY <1>2, <1>3, <1>4, <1>5, <1>6 DEF Base

LEMMA ChangeGameBase ==
    ASSUME Base, NEW p \in Players, NEW s \in Games, NEW t \in Games, ChangeGame(p, s, t) PROVE Base'
<1>1. UNCHANGED <<server_status, waiting, done, statements, found, asked, paid, refund, to_gate,
                  to_config, to_game, m_mpPlayer_Gate, config, client_session_, live, load>>
  BY DEF ChangeGame, money_vars, config_vars, db_vars
<1>2. Messages'
  <2>1. [type |-> "SC_EnterRoomAndSitDown", gate |-> live[p], game |-> t] \in Letters
    BY DEF Letters, ChangeGame, Base, Places
  <2>2. to_client' \in [Players -> {None} \union Letters]
    BY <2>1 DEF ChangeGame, Base, Messages
  <2> QED BY <1>1, <2>2 DEF Base, Messages
<1>3. Places'
  BY <1>1 DEF ChangeGame, Base, Places
<1>4. OneObject'
  <2>1. obj[s][p] # None /\ s # t
    BY NoneFact DEF ChangeGame, Loaded
  <2>2. \A u \in Games : obj[u][p] # None => u = s
    BY <2>1 DEF Base, OneObject
  <2>3. \A q \in Players, u \in Games : q # p => obj'[u][q] = obj[u][q]
    BY DEF ChangeGame, Base, Places
  <2>4. \A u \in Games : u # t => obj'[u][p] = None
    <3>1. obj'[s][p] = None
      BY <2>1 DEF ChangeGame, Base, Places
    <3>2. \A u \in Games : u # s /\ u # t => obj'[u][p] = obj[u][p]
      BY DEF ChangeGame, Base, Places
    <3> QED BY <2>2, <3>1, <3>2
  <2> QED BY <2>3, <2>4 DEF Base, OneObject
<1> QED BY <1>1, <1>2, <1>3, <1>4, BaseFact, RowsFrame, MarksFrame DEF Base

\* Objects that go or become ready.
LEMMA ObjectsFrame ==
    ASSUME Base, obj' \in [Games -> [Players -> {None, "loading", "ready"}]],
           \A p \in Players, s \in Games : obj[s][p] = None => obj'[s][p] = None,
           UNCHANGED <<m_mpPlayer_Gate, config, client_session_, live>>
    PROVE  Places' /\ OneObject'
BY DEF Base, Places, OneObject

LEMMA GoneFact ==
    ASSUME Base, NEW p \in Players, NEW s \in Games
    PROVE  /\ [obj EXCEPT ![s][p] = None] \in [Games -> [Players -> {None, "loading", "ready"}]]
           /\ \A q \in Players, t \in Games :
                obj[t][q] = None => [obj EXCEPT ![s][p] = None][t][q] = None
BY DEF Base, Places

LEMMA LeaveTableBase ==
    ASSUME Base, NEW p \in Players, NEW s \in Games, LeaveTable(s, p) PROVE Base'
<1>1. UNCHANGED <<server_status, waiting, done, statements, found, asked, paid, refund, to_gate,
                  to_config, to_game, to_client, m_mpPlayer_Gate, config, client_session_, live, load>>
  BY DEF LeaveTable, money_vars, config_vars, db_vars, link_vars
<1>2. Places' /\ OneObject'
  BY <1>1, GoneFact, ObjectsFrame DEF LeaveTable
<1> QED BY <1>1, <1>2, BaseFact, RowsFrame, MessagesFrame, MarksFrame DEF Base

LEMMA PaidFact ==
    ASSUME Base, NEW q \in Payments, Pay(q)
    PROVE  /\ paid' \in [Payments -> Nat] /\ paid'[q] = paid[q] + 1
           /\ \A x \in Payments : x # q => paid'[x] = paid[x]
<1>1. paid \in [Payments -> Nat]
  BY DEF Base, Rows
<1> QED BY <1>1, AddFact DEF Pay

LEMMA MarksPaid ==
    ASSUME Base, UNCHANGED <<load, waiting, done>>, paid' \in [Payments -> Nat],
           \A q \in Payments : paid[q] <= paid'[q]
    PROVE  Marks'
<1>1. ASSUME NEW q \in Payments PROVE done'[q] <= paid'[q]
  <2>1. done[q] <= paid[q]
    BY DEF Base, Marks
  <2>2. done[q] \in Nat /\ paid[q] \in Nat /\ paid'[q] \in Nat /\ paid[q] <= paid'[q]
    BY BaseFact
  <2>3. done'[q] = done[q]
    OBVIOUS
  <2> QED BY <2>1, <2>2, <2>3
<1>2. /\ load' \in [Players -> {None} \union Loads]
      /\ \A p \in Players, q \in Payments :
           load'[p] # None => load'[p].left[q] <= IF Owner[q] = p THEN waiting'[q] ELSE 0
  BY DEF Base, Marks
<1> QED BY <1>1, <1>2 DEF Marks

LEMMA GameHearsBase ==
    ASSUME Base, NEW g \in Gates, NEW s \in Games, GameHears(g, s) PROVE Base'
<1>1. UNCHANGED <<server_status, waiting, done, load, found, to_gate, to_config, to_client,
                  m_mpPlayer_Gate, config, client_session_, live, refund, asked>>
  BY DEF GameHears, config_vars
<1>2. <<g, s>> \in Gates \X Games
  OBVIOUS
<1>3. Head(to_game[<<g, s>>]) \in GameMsgs /\ to_game' \in [Gates \X Games -> Seq(GameMsgs)]
  BY <1>2, BaseFact, PopFact DEF GameHears
<1>4. PICK msg \in GameMsgs :
        \/ msg.type = "S_Logout" /\ LogsOut(s, msg.p)
        \/ msg.type = "FS_ChangMoneyDeal" /\ Dealt(s, msg.o)
  BY <1>3 DEF GameHears
<1>5. CASE msg.type = "S_Logout" /\ LogsOut(s, msg.p)
  <2>1. PICK p \in Players : LogsOut(s, p)
    BY <1>5, MessageFact
  <2>2. UNCHANGED <<statements, paid>> /\ (obj' = obj \/ obj' = [obj EXCEPT ![s][p] = None])
    BY <2>1 DEF LogsOut
  <2>3. Places' /\ OneObject'
    <3>1. CASE obj' = obj
      BY <1>1, <3>1, PlacesFrame
    <3>2. CASE obj' = [obj EXCEPT ![s][p] = None]
      BY <1>1, <3>2, GoneFact, ObjectsFrame
    <3> QED BY <2>2, <3>1, <3>2
  <2>4. Messages'
    BY <1>1, <1>3 DEF Base, Messages
  <2> QED BY <1>1, <2>2, <2>3, <2>4, BaseFact, RowsFrame, MarksFrame DEF Base
<1>6. CASE msg.type = "FS_ChangMoneyDeal" /\ Dealt(s, msg.o)
  <2>1. PICK o \in Orders : Dealt(s, o)
    BY <1>6, MessageFact
  <2>2. Messages'
    BY <1>1, <1>3 DEF Base, Messages
  <2>3. CASE Pay(o) /\ statements' = Post(statements, "mark_paid", o) /\ UNCHANGED obj
    <3>1. o \in Payments /\ "mark_paid" \in Sql
      BY PaymentFact
    <3>2. statements' \in Statements
      BY <2>3, <3>1, BaseFact, PostFact
    <3>3. paid' \in [Payments -> Nat] /\ \A q \in Payments : paid[q] <= paid'[q]
      <4>1. paid' \in [Payments -> Nat] /\ paid'[o] = paid[o] + 1
            /\ \A x \in Payments : x # o => paid'[x] = paid[x]
        BY <2>3, <3>1, PaidFact
      <4>2. ASSUME NEW q \in Payments PROVE paid[q] <= paid'[q]
        <5>1. CASE q = o
          BY <4>1, <5>1, BaseFact
        <5>2. CASE q # o
          BY <4>1, <5>2, BaseFact
        <5> QED BY <5>1, <5>2
      <4> QED BY <4>1, <4>2
    <3>4. Rows'
      BY <1>1, <3>2, <3>3 DEF Base, Rows, Statements
    <3> QED BY <1>1, <2>2, <2>3, <3>3, <3>4, PlacesFrame, MarksPaid DEF Base
  <2>4. CASE UNCHANGED <<obj, paid, statements>>
    BY <1>1, <2>2, <2>4, BaseFact, RowsFrame, PlacesFrame, MarksFrame DEF Base
  <2> QED BY <2>1, <2>3, <2>4 DEF Dealt
<1> QED BY <1>4, <1>5, <1>6

LEMMA CashMoneyBase ==
    ASSUME Base, NEW r \in Refunds, NEW s \in Games, CashMoney(r, s) PROVE Base'
<1>1. UNCHANGED <<server_status, waiting, done, statements, found, asked, paid, to_gate, to_config,
                  to_game, to_client, m_mpPlayer_Gate, config, client_session_, live, obj, load>>
  BY DEF CashMoney, config_vars, db_vars, link_vars, player_vars
<1>2. Rows'
  BY <1>1 DEF CashMoney, Base, Rows
<1> QED BY <1>1, <1>2, MessagesFrame, PlacesFrame, MarksFrame DEF Base

LEMMA OnDsCashMoneyBase == ASSUME Base, NEW r \in Refunds, OnDsCashMoney(r) PROVE Base'
<1>1. UNCHANGED <<server_status, waiting, done, found, asked, to_gate, to_config, to_game, to_client,
                  m_mpPlayer_Gate, config, client_session_, live, obj, load>>
  BY DEF OnDsCashMoney, config_vars, link_vars, player_vars
<1>2. refund' \in [Refunds -> Games \union {None, "done"}]
  BY DEF OnDsCashMoney, Base, Rows
<1>3. r \in Payments /\ "exists" \in Sql
  BY PaymentFact
<1>4. \/ Pay(r) /\ UNCHANGED statements
      \/ statements' = Post(statements, "exists", r) /\ UNCHANGED paid
  BY DEF OnDsCashMoney
<1>5. statements' \in Statements
  <2>1. Post(statements, "exists", r) \in Statements
    BY <1>3, BaseFact, PostFact
  <2> QED BY <1>4, <2>1, BaseFact
<1>6. paid' \in [Payments -> Nat] /\ \A q \in Payments : paid[q] <= paid'[q]
  <2>1. CASE Pay(r)
    <3>1. paid' \in [Payments -> Nat] /\ paid'[r] = paid[r] + 1
          /\ \A x \in Payments : x # r => paid'[x] = paid[x]
      BY <1>3, <2>1, PaidFact
    <3>2. ASSUME NEW q \in Payments PROVE paid[q] <= paid'[q]
      <4>1. CASE q = r
        BY <3>1, <4>1, BaseFact
      <4>2. CASE q # r
        BY <3>1, <4>2, BaseFact
      <4> QED BY <4>1, <4>2
    <3> QED BY <3>1, <3>2
  <2>2. CASE UNCHANGED paid
    BY <2>2, BaseFact DEF Base, Rows
  <2> QED BY <1>4, <2>1, <2>2
<1>7. Rows'
  BY <1>1, <1>2, <1>5, <1>6 DEF Base, Rows, Statements
<1> QED BY <1>1, <1>6, <1>7, MessagesFrame, PlacesFrame, MarksPaid DEF Base

LEMMA RunOrderBase == ASSUME Base, NEW o \in Orders, RunOrder(o) PROVE Base'
<1>1. UNCHANGED <<server_status, waiting, done, asked, paid, refund, to_gate, to_config, to_game,
                  to_client, m_mpPlayer_Gate, config, client_session_, live, obj, load>>
  BY DEF RunOrder, config_vars, player_vars, money_vars
<1>2. statements' \in Statements
  <2>1. statements["order"][o] > 0 /\ statements' = Taken("order", o)
    BY DEF RunOrder
  <2> QED BY <2>1, BaseFact, PaymentFact, TakenFact
<1>3. found' \in [Orders -> Nat]
  BY DEF RunOrder, Base, Rows
<1>4. Rows'
  BY <1>1, <1>2, <1>3 DEF Base, Rows, Statements
<1> QED BY <1>1, <1>4, MessagesFrame, PlacesFrame, MarksFrame DEF Base

\* A statement that takes the place of another one.
LEMMA InsteadFact ==
    ASSUME statements \in Statements, NEW k \in Sql, NEW j \in Sql, NEW q \in Payments,
           statements[k][q] > 0, j # k
    PROVE  /\ Post(Taken(k, q), j, q) \in Statements
           /\ Post(Taken(k, q), j, q)[k][q] = statements[k][q] - 1
           /\ Post(Taken(k, q), j, q)[j][q] = statements[j][q] + 1
           /\ \A i \in Sql, x \in Payments :
                (i # k /\ i # j) \/ x # q => Post(Taken(k, q), j, q)[i][x] = statements[i][x]
<1>1. /\ Taken(k, q) \in Statements
      /\ Taken(k, q)[k][q] = statements[k][q] - 1
      /\ \A i \in Sql, x \in Payments : i # k \/ x # q => Taken(k, q)[i][x] = statements[i][x]
  BY TakenFact
<1>2. /\ Post(Taken(k, q), j, q) \in Statements
      /\ Post(Taken(k, q), j, q)[j][q] = Taken(k, q)[j][q] + 1
      /\ \A i \in Sql, x \in Payments :
           i # j \/ x # q => Post(Taken(k, q), j, q)[i][x] = Taken(k, q)[i][x]
  BY <1>1, PostFact
<1> QED BY <1>1, <1>2

LEMMA RunExistsBase == ASSUME Base, NEW q \in Payments, RunExists(q) PROVE Base'
<1>1. UNCHANGED <<server_status, waiting, done, found, asked, paid, refund, to_gate, to_config,
                  to_game, to_client, m_mpPlayer_Gate, config, client_session_, live, obj, load>>
  BY DEF RunExists, config_vars, player_vars, money_vars, link_vars
<1>2. /\ statements["exists"][q] > 0 /\ "exists" \in Sql /\ "insert" \in Sql
      /\ statements' = Taken("exists", q) \/ statements' = Post(Taken("exists", q), "insert", q)
  BY PaymentFact DEF RunExists
<1>3. Taken("exists", q) \in Statements /\ Post(Taken("exists", q), "insert", q) \in Statements
  BY <1>2, BaseFact, TakenFact, InsteadFact
<1> QED BY <1>1, <1>2, <1>3, BaseFact, RowsFrame, MessagesFrame, PlacesFrame, MarksFrame DEF Base

\* What RunInsert does to the statements and to the rows.
LEMMA RunInsertFact ==
    ASSUME Base, NEW q \in Payments, RunInsert(q)
    PROVE  /\ statements' \in Statements /\ waiting' \in [Payments -> Nat]
           /\ statements["insert"][q] > 0 /\ statements'["insert"][q] = statements["insert"][q] - 1
           /\ q \in Orders => statements'["mark_put_down"][q] = statements["mark_put_down"][q] + 1
           /\ \A i \in Sql, x \in Payments :
                (i # "insert" /\ i # "mark_put_down") \/ x # q => statements'[i][x] = statements[i][x]
           /\ waiting'[q] = waiting[q] + 1
           /\ \A x \in Payments : x # q => waiting'[x] = waiting[x]
<1>1. /\ statements["insert"][q] > 0 /\ "insert" \in Sql /\ "mark_put_down" \in Sql
      /\ statements' = IF q \in Orders THEN Post(Taken("insert", q), "mark_put_down", q)
                       ELSE Taken("insert", q)
      /\ waiting' = [waiting EXCEPT ![q] = @ + 1]
  BY PaymentFact DEF RunInsert
<1>2. /\ waiting' \in [Payments -> Nat] /\ waiting'[q] = waiting[q] + 1
      /\ \A x \in Payments : x # q => waiting'[x] = waiting[x]
  BY <1>1, AddFact DEF Base, Rows
<1>3. CASE q \in Orders
  <2>1. statements' = Post(Taken("insert", q), "mark_put_down", q)
    BY <1>1, <1>3
  <2>2. /\ statements' \in Statements
        /\ statements'["insert"][q] = statements["insert"][q] - 1
        /\ statements'["mark_put_down"][q] = statements["mark_put_down"][q] + 1
        /\ \A i \in Sql, x \in Payments :
             (i # "insert" /\ i # "mark_put_down") \/ x # q => statements'[i][x] = statements[i][x]
    <3>1. statements \in Statements /\ "insert" # "mark_put_down"
      BY BaseFact
    <3>2. /\ Post(Taken("insert", q), "mark_put_down", q) \in Statements
          /\ Post(Taken("insert", q), "mark_put_down", q)["insert"][q] = statements["insert"][q] - 1
          /\ Post(Taken("insert", q), "mark_put_down", q)["mark_put_down"][q] = statements["mark_put_down"][q] + 1
          /\ \A i \in Sql, x \in Payments :
               (i # "insert" /\ i # "mark_put_down") \/ x # q =>
                 Post(Taken("insert", q), "mark_put_down", q)[i][x] = statements[i][x]
      BY <1>1, <3>1, InsteadFact
    <3> QED BY <2>1, <3>2, Zenon
  <2> QED BY <1>1, <1>2, <2>2
<1>4. CASE q \notin Orders
  <2>1. statements' = Taken("insert", q)
    BY <1>1, <1>4
  <2>2. /\ statements' \in Statements
        /\ statements'["insert"][q] = statements["insert"][q] - 1
        /\ \A i \in Sql, x \in Payments :
             i # "insert" \/ x # q => statements'[i][x] = statements[i][x]
    <3>1. statements \in Statements
      BY BaseFact
    <3>2. /\ Taken("insert", q) \in Statements
          /\ Taken("insert", q)["insert"][q] = statements["insert"][q] - 1
          /\ \A i \in Sql, x \in Payments :
               i # "insert" \/ x # q => Taken("insert", q)[i][x] = statements[i][x]
      BY <1>1, <3>1, TakenFact
    <3> QED BY <2>1, <3>2, Zenon
  <2> QED BY <1>1, <1>2, <1>4, <2>2
<1> QED BY <1>3, <1>4

LEMMA RunInsertBase == ASSUME Base, NEW q \in Payments, RunInsert(q) PROVE Base'
<1>1. UNCHANGED <<server_status, done, found, asked, paid, refund, to_gate, to_config,
                  to_game, to_client, m_mpPlayer_Gate, config, client_session_, live, obj, load>>
  BY DEF RunInsert, config_vars, player_vars, money_vars, link_vars
<1>2. Rows'
  BY <1>1, RunInsertFact DEF Base, Rows, Statements
<1>3. \A x \in Payments : waiting[x] <= waiting'[x] /\ waiting[x] \in Nat /\ waiting'[x] \in Nat
  <2>1. waiting'[q] = waiting[q] + 1 /\ waiting[q] \in Nat
    BY RunInsertFact, BaseFact
  <2>2. \A x \in Payments : x # q => waiting'[x] = waiting[x] /\ waiting[x] \in Nat
    BY RunInsertFact, BaseFact
  <2> QED BY <2>1, <2>2
<1>4. Marks'
  <2>1. ASSUME NEW p \in Players, NEW x \in Payments, load'[p] # None
        PROVE  load'[p].left[x] <= IF Owner[x] = p THEN waiting'[x] ELSE 0
    <3>1. load[p] # None /\ load'[p] = load[p]
      BY <1>1, <2>1
    <3>2. load[p].left[x] <= IF Owner[x] = p THEN waiting[x] ELSE 0
      BY <3>1 DEF Base, Marks
    <3>3. load[p].left[x] \in Nat
      BY <3>1 DEF Base, Marks, Loads
    <3> QED BY <1>3, <3>1, <3>2, <3>3
  <2> QED BY <1>1, <2>1 DEF Base, Marks
<1> QED BY <1>1, <1>2, <1>4, MessagesFrame, PlacesFrame DEF Base

LEMMA RunStatusFact ==
    ASSUME Base, NEW o \in Orders, RunStatus(o)
    PROVE  \E k \in {"mark_paid", "mark_put_down"} :
             /\ k \in Sql /\ o \in Payments
             /\ statements[k][o] > 0 /\ statements' \in Statements
             /\ statements'[k][o] = statements[k][o] - 1
             /\ \A i \in Sql, x \in Payments : i # k \/ x # o => statements'[i][x] = statements[i][x]
             /\ server_status' \in [Orders -> {0, 1, 6}] /\ server_status'[o] # 0
             /\ \A x \in Orders : x # o => server_status'[x] = server_status[x]
<1>1. PICK k \in {"mark_paid", "mark_put_down"} :
        /\ statements[k][o] > 0 /\ statements' = Taken(k, o)
        /\ server_status' = [server_status EXCEPT ![o] = IF k = "mark_paid" THEN 1 ELSE 6]
  BY DEF RunStatus
<1>2. k \in Sql /\ o \in Payments
  BY PaymentFact
<1>3. /\ statements' \in Statements /\ statements'[k][o] = statements[k][o] - 1
      /\ \A i \in Sql, x \in Payments : i # k \/ x # o => statements'[i][x] = statements[i][x]
  BY <1>1, <1>2, BaseFact, TakenFact
<1>4. /\ server_status' \in [Orders -> {0, 1, 6}] /\ server_status'[o] # 0
      /\ \A x \in Orders : x # o => server_status'[x] = server_status[x]
  <2>1. \/ server_status' = [server_status EXCEPT ![o] = 1]
        \/ server_status' = [server_status EXCEPT ![o] = 6]
    BY <1>1
  <2>2. server_status \in [Orders -> {0, 1, 6}]
    BY DEF Base, Rows
  <2>3. CASE server_status' = [server_status EXCEPT ![o] = 1]
    <3>1. [server_status EXCEPT ![o] = 1] \in [Orders -> {0, 1, 6}]
      BY <2>2
    <3>2. server_status'[o] = 1
      BY <2>2, <2>3
    <3>3. \A x \in Orders : x # o => server_status'[x] = server_status[x]
      BY <2>2, <2>3
    <3>4. server_status'[o] # 0
      BY <3>2
    <3> QED BY <2>3, <3>1, <3>3, <3>4, Zenon
  <2>4. CASE server_status' = [server_status EXCEPT ![o] = 6]
    <3>1. [server_status EXCEPT ![o] = 6] \in [Orders -> {0, 1, 6}]
      BY <2>2
    <3>2. server_status'[o] = 6
      BY <2>2, <2>4
    <3>3. \A x \in Orders : x # o => server_status'[x] = server_status[x]
      BY <2>2, <2>4
    <3>4. server_status'[o] # 0
      BY <3>2
    <3> QED BY <2>4, <3>1, <3>3, <3>4, Zenon
  <2> QED BY <2>1, <2>3, <2>4
<1> QED BY <1>1, <1>2, <1>3, <1>4

LEMMA RunStatusBase == ASSUME Base, NEW o \in Orders, RunStatus(o) PROVE Base'
<1>1. UNCHANGED <<waiting, done, found, asked, paid, refund, to_gate, to_config,
                  to_game, to_client, m_mpPlayer_Gate, config, client_session_, live, obj, load>>
  BY DEF RunStatus, config_vars, player_vars, money_vars, link_vars
<1>2. Rows'
  BY <1>1, RunStatusFact DEF Base, Rows, Statements
<1> QED BY <1>1, <1>2, MessagesFrame, PlacesFrame, MarksFrame DEF Base

LEMMA LoadFact ==
    ASSUME Base, NEW p \in Players, load[p] # None
    PROVE  /\ load[p] \in Loads /\ load[p].left \in [Payments -> Nat] /\ load[p].game \in Games
           /\ \A q \in Payments : load[p].left[q] <= IF Owner[q] = p THEN waiting[q] ELSE 0
BY DEF Base, Marks, Loads

LEMMA LoadsFact ==
    ASSUME NEW r \in Loads, NEW rows \in [Payments -> Nat]
    PROVE  [r EXCEPT !.left = rows] \in Loads /\ [r EXCEPT !.left = rows].left = rows
BY DEF Loads

LEMMA RunRowsBase == ASSUME Base, NEW p \in Players, RunRows(p) PROVE Base'
<1>1. UNCHANGED <<server_status, waiting, done, statements, found, asked, paid, refund, to_gate,
                  to_config, to_game, to_client, m_mpPlayer_Gate, config, client_session_, live, obj>>
  BY DEF RunRows, config_vars, player_vars, money_vars, link_vars
<1>2. load[p] # None
  BY DEF RunRows
<1>3. PICK rows \in [Payments -> Nat] :
        rows = [q \in Payments |-> IF Owner[q] = p THEN waiting[q] ELSE 0]
  BY BaseFact
<1>4. load' = [load EXCEPT ![p] = [[load[p] EXCEPT !.read = TRUE] EXCEPT !.left = rows]]
  BY <1>3 DEF RunRows, Base, Marks
<1>5. PICK r \in Loads : r = [[load[p] EXCEPT !.read = TRUE] EXCEPT !.left = rows] /\ r.left = rows
  <2>1. load[p] \in Loads
    BY <1>2, LoadFact
  <2>2. [load[p] EXCEPT !.read = TRUE] \in Loads
    BY <2>1 DEF Loads
  <2>3. [[load[p] EXCEPT !.read = TRUE] EXCEPT !.left = rows] \in Loads
    BY <2>2, LoadsFact
  <2>4. [[load[p] EXCEPT !.read = TRUE] EXCEPT !.left = rows].left = rows
    BY <2>2, LoadsFact
  <2> QED BY <2>3, <2>4, Zenon
<1>6. Marks'
  <2>1. load' = [load EXCEPT ![p] = r]
    BY <1>4, <1>5
  <2>2. load' \in [Players -> {None} \union Loads]
    BY <2>1 DEF Base, Marks
  <2>3. \A x \in Players : x # p => load'[x] = load[x]
    BY <2>1 DEF Base, Marks
  <2>4. load'[p].left = rows
    BY <1>5, <2>1 DEF Base, Marks
  <2>5. \A q \in Payments : rows[q] <= IF Owner[q] = p THEN waiting[q] ELSE 0
    BY <1>3, BaseFact
  <2> QED BY <1>1, <2>2, <2>3, <2>4, <2>5 DEF Base, Marks
<1> QED BY <1>1, <1>6, BaseFact, RowsFrame, MessagesFrame, PlacesFrame DEF Base

\* A row that is marked has been waiting, and is paid.
LEMMA RunMarkFact ==
    ASSUME Base, NEW p \in Players, NEW q \in Payments, RunMark(p, q)
    PROVE  /\ load[p] # None /\ Owner[q] = p /\ waiting[q] > 0 /\ load[p].left[q] > 0
           /\ waiting' \in [Payments -> Nat] /\ waiting'[q] = waiting[q] - 1
           /\ \A x \in Payments : x # q => waiting'[x] = waiting[x]
           /\ done' \in [Payments -> Nat] /\ done'[q] = done[q] + 1
           /\ \A x \in Payments : x # q => done'[x] = done[x]
           /\ paid' \in [Payments -> Nat] /\ paid'[q] = paid[q] + 1
           /\ \A x \in Payments : x # q => paid'[x] = paid[x]
<1>1. load[p] # None /\ load[p].left[q] > 0
  BY DEF RunMark
<1>2. /\ load[p].left[q] \in Nat /\ waiting[q] \in Nat
      /\ load[p].left[q] <= IF Owner[q] = p THEN waiting[q] ELSE 0
  BY <1>1, LoadFact, BaseFact
<1>3. Owner[q] = p /\ waiting[q] > 0
  BY <1>1, <1>2
<1>4. waiting \in [Payments -> Nat] /\ done \in [Payments -> Nat]
  BY DEF Base, Rows
<1>5. /\ waiting' = [waiting EXCEPT ![q] = @ - 1] /\ done' = [done EXCEPT ![q] = @ + 1] /\ Pay(q)
  BY DEF RunMark
<1>6. /\ waiting' \in [Payments -> Nat] /\ waiting'[q] = waiting[q] - 1
      /\ \A x \in Payments : x # q => waiting'[x] = waiting[x]
  BY <1>3, <1>4, <1>5, TakeFact
<1>7. /\ done' \in [Payments -> Nat] /\ done'[q] = done[q] + 1
      /\ \A x \in Payments : x # q => done'[x] = done[x]
  BY <1>4, <1>5, AddFact
<1>8. /\ paid' \in [Payments -> Nat] /\ paid'[q] = paid[q] + 1
      /\ \A x \in Payments : x # q => paid'[x] = paid[x]
  BY <1>5, PaidFact
<1> QED BY <1>1, <1>3, <1>6, <1>7, <1>8

LEMMA RunMarkBase ==
    ASSUME Base, NEW p \in Players, NEW q \in Payments, RunMark(p, q) PROVE Base'
<1>1. UNCHANGED <<server_status, statements, found, asked, refund, to_gate,
                  to_config, to_game, to_client, m_mpPlayer_Gate, config, client_session_, live, obj>>
  BY DEF RunMark, config_vars, player_vars, link_vars
<1>2. Rows'
  BY <1>1, RunMarkFact DEF Base, Rows
<1>3. load[p] # None
  BY RunMarkFact
<1>4. PICK s \in Games, is \in BOOLEAN, rows \in [Payments -> Nat] :
        load[p] = [game |-> s, read |-> is, left |-> rows]
  BY <1>3, LoadFact DEF Loads
<1>5. rows[q] > 0
  BY <1>4, RunMarkFact
<1>6. PICK less \in [Payments -> Nat] :
        /\ less = [rows EXCEPT ![q] = @ - 1] /\ less[q] = rows[q] - 1
        /\ \A x \in Payments : x # q => less[x] = rows[x]
  <2>1. /\ [rows EXCEPT ![q] = @ - 1] \in [Payments -> Nat]
        /\ [rows EXCEPT ![q] = @ - 1][q] = rows[q] - 1
        /\ \A x \in Payments : x # q => [rows EXCEPT ![q] = @ - 1][x] = rows[x]
    BY <1>5, TakeFact
  <2> QED BY <2>1, Zenon
<1>7. load' = [load EXCEPT ![p] = [game |-> s, read |-> is, left |-> less]]
  <2>1. load' = [load EXCEPT ![p].left[q] = @ - 1]
    BY DEF RunMark
  <2>2. load' = [load EXCEPT ![p] = [load[p] EXCEPT !.left = [load[p].left EXCEPT ![q] = @ - 1]]]
    BY <2>1 DEF Base, Marks
  <2>3. [load[p] EXCEPT !.left = [load[p].left EXCEPT ![q] = @ - 1]] = [game |-> s, read |-> is, left |-> less]
    BY <1>4, <1>6
  <2> QED BY <2>2, <2>3
<1>8. load' \in [Players -> {None} \union Loads]
  <2>1. [game |-> s, read |-> is, left |-> less] \in Loads
    BY DEF Loads
  <2> QED BY <1>7, <2>1 DEF Base, Marks
<1>9. load'[p].left = less /\ \A x \in Players : x # p => load'[x] = load[x]
  BY <1>7 DEF Base, Marks
<1>10. ASSUME NEW x \in Players, NEW y \in Payments, load'[x] # None
       PROVE  load'[x].left[y] <= IF Owner[y] = x THEN waiting'[y] ELSE 0
  <2>1. CASE x = p
    <3>1. rows[y] <= IF Owner[y] = p THEN waiting[y] ELSE 0
      BY <1>3, <1>4, LoadFact
    <3>2. rows[y] \in Nat /\ waiting[y] \in Nat /\ rows[q] \in Nat /\ waiting[q] \in Nat
      BY BaseFact
    <3>3. CASE y = q
      <4>1. less[q] = rows[q] - 1 /\ waiting'[q] = waiting[q] - 1 /\ Owner[q] = p
        BY <1>6, RunMarkFact
      <4> QED BY <1>9, <2>1, <3>1, <3>2, <3>3, <4>1
    <3>4. CASE y # q
      <4>1. less[y] = rows[y] /\ waiting'[y] = waiting[y]
        BY <1>6, <3>4, RunMarkFact
      <4> QED BY <1>9, <2>1, <3>1, <4>1
    <3> QED BY <3>3, <3>4
  <2>2. CASE x # p
    <3>1. load'[x] = load[x] /\ load[x] # None
      BY <1>9, <1>10, <2>2
    <3>2. load[x].left[y] <= IF Owner[y] = x THEN waiting[y] ELSE 0
      BY <3>1, LoadFact
    <3>3. Owner[y] = x => waiting'[y] = waiting[y]
      BY <2>2, RunMarkFact
    <3> QED BY <3>1, <3>2, <3>3
  <2> QED BY <2>1, <2>2
<1>11. ASSUME NEW x \in Payments PROVE done'[x] <= paid'[x]
  <2>1. done[x] <= paid[x] /\ done[x] \in Nat /\ paid[x] \in Nat
    BY BaseFact DEF Base, Marks
  <2>2. CASE x = q
    BY <2>1, <2>2, RunMarkFact
  <2>3. CASE x # q
    BY <2>1, <2>3, RunMarkFact
  <2> QED BY <2>2, <2>3
<1>12. Marks'
  BY <1>8, <1>10, <1>11 DEF Marks
<1> QED BY <1>1, <1>2, <1>12, MessagesFrame, PlacesFrame DEF Base

LEMMA LoadDoneBase == ASSUME Base, NEW p \in Players, LoadDone(p) PROVE Base'
<1>1. UNCHANGED <<server_status, waiting, done, statements, found, asked, paid, refund, to_gate,
                  to_config, to_game, to_client, m_mpPlayer_Gate, config, client_session_, live>>
  BY DEF LoadDone, config_vars, money_vars, link_vars
<1>2. PICK s \in Games : obj' = [obj EXCEPT ![s][p] = IF @ = "loading" THEN "ready" ELSE @]
  BY LoadFact DEF LoadDone
<1>3. obj' \in [Games -> [Players -> {None, "loading", "ready"}]]
  <2>1. obj[s][p] \in {None, "loading", "ready"} /\ obj \in [Games -> [Players -> {None, "loading", "ready"}]]
    BY DEF Base, Places
  <2>2. CASE obj[s][p] = "loading"
    <3>1. obj' = [obj EXCEPT ![s][p] = "ready"]
      BY <1>2, <2>1, <2>2
    <3> QED BY <2>1, <3>1
  <2>3. CASE obj[s][p] # "loading"
    <3>1. obj' = obj
      BY <1>2, <2>1, <2>3
    <3> QED BY <2>1, <3>1
  <2> QED BY <2>2, <2>3
<1>4. \A q \in Players, t \in Games : obj[t][q] = None => obj'[t][q] = None
  BY <1>2, NoneFact DEF Base, Places
<1>5. Marks'
  <2>1. load' \in [Players -> {None} \union Loads]
    BY DEF LoadDone, Base, Marks
  <2>2. \A q \in Players : load'[q] # None => load'[q] = load[q]
    BY DEF LoadDone, Base, Marks
  <2> QED BY <1>1, <2>1, <2>2 DEF Base, Marks
<1> QED BY <1>1, <1>3, <1>4, <1>5, BaseFact, RowsFrame, MessagesFrame, ObjectsFrame DEF Base

LEMMA NextBase == Base /\ [Next]_vars => Base'
<1> SUFFICES ASSUME Base, [Next]_vars PROVE Base'
  OBVIOUS
<1>1. CASE Delivers
  BY <1>1, PaymentFact, OnDfChangMoneyBase, RunOrderBase, RunStatusBase, RunExistsBase, RunInsertBase,
     ConfigHearsBase, GateDealsBase, GameHearsBase, GateHearsBase, RunRowsBase, LoadDoneBase,
     RunMarkBase, OnDsCashMoneyBase DEF Delivers
<1>2. CASE Plays
  BY <1>2, AskBase, OnClosedBase, LetInBase, ChangeGameBase, LeaveTableBase, CashMoneyBase,
     ReconnectBase DEF Plays
<1>3. CASE UNCHANGED vars
  <2>1. UNCHANGED <<server_status, waiting, done, statements, found, asked, paid, refund, to_gate,
                    to_config, to_game, to_client, m_mpPlayer_Gate, config, client_session_, live,
                    obj, load>>
    BY <1>3 DEF vars, db_vars, link_vars, player_vars, money_vars, config_vars
  <2> QED BY <2>1, BaseFact, RowsFrame, MessagesFrame, PlacesFrame, MarksFrame DEF Base
<1> QED BY <1>1, <1>2, <1>3 DEF Next

LEMMA BaseInvariance == Spec => []Base
  BY InitBase, NextBase, PTL DEF Spec

\* Every variable keeps its type and a player has one object in all game
\* servers, whichever of them he is let in at or sent to.
THEOREM TypeCorrect == Spec => []TypeOK
<1>1. Base => TypeOK
  <2> SUFFICES ASSUME Base PROVE TypeOK
    OBVIOUS
  <2>1. ASSUME NEW p \in Players PROVE Cardinality({s \in Games : obj[s][p] # None}) <= 1
    <3>1. CASE {s \in Games : obj[s][p] # None} = {}
      BY <3>1, FS_EmptySet
    <3>2. CASE \E s \in Games : obj[s][p] # None
      <4>1. PICK s \in Games : obj[s][p] # None
        BY <3>2
      <4>2. {t \in Games : obj[t][p] # None} = {s}
        BY <4>1 DEF Base, OneObject
      <4> QED BY <4>2, FS_Singleton
    <3> QED BY <3>1, <3>2
  <2> QED BY <2>1 DEF TypeOK, Base, Rows, Places
<1> QED BY <1>1, BaseInvariance, PTL

-----------------------------------------------------------------------------
(* Nothing is forgotten *)

\* A queue holds finitely many messages, so that what is under way is a number.
LEMMA DealsFact ==
    ASSUME NEW K, IsFiniteSet(K), NEW M, NEW net \in [K -> Seq(M)], NEW q
    PROVE  IsFiniteSet(Deals(net, q)) /\ Cardinality(Deals(net, q)) \in Nat
<1> DEFINE Part(k) == {k} \X {i \in DOMAIN net[k] : net[k][i] = Deal(q)}
           T == {Part(k) : k \in K}
           f == [k \in K |-> Part(k)]
<1>1. ASSUME NEW k \in K PROVE IsFiniteSet(Part(k))
  <2>1. DOMAIN net[k] = 1..Len(net[k]) /\ Len(net[k]) \in Int
    BY LenProperties
  <2>2. IsFiniteSet(1..Len(net[k]))
    BY <2>1, FS_Interval
  <2>3. {i \in DOMAIN net[k] : net[k][i] = Deal(q)} \in SUBSET (1..Len(net[k]))
    BY <2>1
  <2>4. IsFiniteSet({i \in DOMAIN net[k] : net[k][i] = Deal(q)})
    BY <2>2, <2>3, FS_Subset
  <2>5. IsFiniteSet({k})
    BY FS_Singleton
  <2> QED BY <2>4, <2>5, FS_Product
<1>2. f \in Surjection(K, T)
  BY DEF Surjection
<1>3. IsFiniteSet(T)
  <2> HIDE DEF f, T
  <2> QED BY <1>2, FS_Surjection
<1>4. \A S \in T : IsFiniteSet(S)
  BY <1>1
<1>5. IsFiniteSet(UNION T)
  <2> HIDE DEF T
  <2> QED BY <1>3, <1>4, FS_UNION
<1>6. Deals(net, q) = UNION T
  BY DEF Deals
<1> QED BY <1>5, <1>6, FS_CardinalityType

\* When nothing is under way there is none of the things that could be.
LEMMA IdleFact ==
    ASSUME Base, NEW q \in Payments, Underway(q) <= 0
    PROVE  /\ \A k \in Sql : statements[k][q] = 0
           /\ q \in Orders => found[q] = 0
           /\ Deals(to_gate, q) = {} /\ Deals(to_config, q) = {} /\ Deals(to_game, q) = {}
<1> DEFINE a == statements["order"][q]
           b == statements["exists"][q]
           c == statements["insert"][q]
           d == statements["mark_paid"][q]
           e == statements["mark_put_down"][q]
           f == IF q \in Orders THEN found[q] ELSE 0
           x == Cardinality(Deals(to_gate, q))
           y == Cardinality(Deals(to_config, q))
           z == Cardinality(Deals(to_game, q))
<1>1. a \in Nat /\ b \in Nat /\ c \in Nat /\ d \in Nat /\ e \in Nat /\ f \in Nat
  BY BaseFact, PaymentFact
<1>2. IsFiniteSet(Gates) /\ IsFiniteSet(Gates \X Games)
  BY RechargeAssumption, FS_Product DEF RechargeAssumption
<1>3. IsFiniteSet(Deals(to_gate, q)) /\ x \in Nat
  BY <1>2, BaseFact, DealsFact
<1>4. IsFiniteSet(Deals(to_config, q)) /\ y \in Nat
  BY <1>2, BaseFact, DealsFact
<1>5. IsFiniteSet(Deals(to_game, q)) /\ z \in Nat
  BY <1>2, BaseFact, DealsFact
<1>6. a + b + c + d + e + f + x + y + z <= 0
  BY DEF Underway
<1>7. a = 0 /\ b = 0 /\ c = 0 /\ d = 0 /\ e = 0 /\ f = 0 /\ x = 0 /\ y = 0 /\ z = 0
  <2> HIDE DEF a, b, c, d, e, f, x, y, z
  <2> QED BY <1>1, <1>3, <1>4, <1>5, <1>6
<1>8. Deals(to_gate, q) = {} /\ Deals(to_config, q) = {} /\ Deals(to_game, q) = {}
  BY <1>3, <1>4, <1>5, <1>7, FS_EmptySet
<1>9. \A k \in Sql : statements[k][q] = 0
  BY <1>7, PaymentFact
<1> QED BY <1>7, <1>8, <1>9

Stands == Settled /\ Kept

\* Steps that post or run nothing that stands for a status or a refund.
LEMMA StandsFrame ==
    ASSUME Stands, UNCHANGED <<server_status, waiting, done, paid, refund>>,
           \A o \in Orders : /\ statements'["mark_paid"][o] = statements["mark_paid"][o]
                             /\ statements'["mark_put_down"][o] = statements["mark_put_down"][o],
           \A r \in Refunds : /\ statements'["exists"][r] = statements["exists"][r]
                              /\ statements'["insert"][r] = statements["insert"][r]
    PROVE  Stands'
<1>1. \A q \in Payments : Safe(q)' <=> Safe(q)
  BY DEF Safe
<1>2. Settled'
  BY <1>1, PaymentFact DEF Stands, Settled
<1>3. Kept'
  BY <1>1, PaymentFact DEF Stands, Kept, IsDeal, SameKey
<1> QED BY <1>2, <1>3 DEF Stands

\* What is paid or waits stays so.
LEMMA SafeStays ==
    ASSUME Base, Base', NEW q \in Payments, Safe(q),
           waiting'[q] + paid'[q] >= waiting[q] + paid[q]
    PROVE  Safe(q)'
<1>1. waiting[q] \in Nat /\ paid[q] \in Nat /\ waiting'[q] \in Nat /\ paid'[q] \in Nat
  BY DEF Base, Rows
<1> QED BY <1>1 DEF Safe

\* A row that has been written is there for ever.
LEMMA DealStays ==
    ASSUME Base, Base', NEW r \in Refunds, IsDeal(r),
           \A x \in Refunds : waiting'[x] + done'[x] >= waiting[x] + done[x]
    PROVE  IsDeal(r)'
<1>1. PICK x \in Refunds : waiting[x] + done[x] > 0
  BY PaymentFact DEF IsDeal, SameKey
<1>2. /\ x \in Payments /\ waiting[x] \in Nat /\ done[x] \in Nat
      /\ waiting'[x] \in Nat /\ done'[x] \in Nat
  BY PaymentFact DEF Base, Rows, Marks
<1>3. waiting'[x] + done'[x] > 0
  BY <1>1, <1>2
<1> QED BY <1>3, PaymentFact DEF IsDeal, SameKey

\* An action that leaves the money, the refunds and the statements alone.
LEMMA StandsQuiet ==
    ASSUME Stands, UNCHANGED <<server_status, waiting, done, paid, refund, statements>>
    PROVE  Stands'
BY StandsFrame

\* A statement about an order that is posted on its way to its player.
LEMMA StandsOrder ==
    ASSUME Base, Stands, NEW o \in Orders, NEW k \in {"order", "exists"},
           statements' = statements \/ statements' = Post(statements, k, o),
           UNCHANGED <<server_status, waiting, done, paid, refund>>
    PROVE  Stands'
<1>1. CASE statements' = statements
  BY <1>1, StandsFrame
<1>2. CASE statements' = Post(statements, k, o)
  <2>1. k \in Sql /\ o \in Payments /\ statements \in Statements
    BY BaseFact, PaymentFact
  <2>2. \A j \in Sql, x \in Payments : j # k \/ x # o => statements'[j][x] = statements[j][x]
    BY <1>2, <2>1, PostFact
  <2>3. \A x \in Orders : /\ statements'["mark_paid"][x] = statements["mark_paid"][x]
                           /\ statements'["mark_put_down"][x] = statements["mark_put_down"][x]
    BY <2>2, PaymentFact
  <2>4. \A r \in Refunds : /\ statements'["exists"][r] = statements["exists"][r]
                            /\ statements'["insert"][r] = statements["insert"][r]
    BY <2>2, PaymentFact
  <2> QED BY <2>3, <2>4, StandsFrame
<1> QED BY <1>1, <1>2

LEMMA ConfigHearsStands ==
    ASSUME Base, Stands, NEW g \in Gates, ConfigHears(g) PROVE Stands'
<1>1. UNCHANGED <<server_status, waiting, done, paid, refund>>
  BY DEF ConfigHears, money_vars
<1>2. Head(to_config[g]) \in ConfigMsgs
  BY BaseFact, PopFact DEF ConfigHears
<1>3. PICK msg \in ConfigMsgs :
        \/ msg.type # "FS_ChangMoneyDeal" /\ UNCHANGED statements
        \/ msg.type = "FS_ChangMoneyDeal" /\ statements' = Post(statements, "exists", msg.o)
  BY <1>2 DEF ConfigHears
<1>4. CASE msg.type # "FS_ChangMoneyDeal"
  BY <1>1, <1>3, <1>4, StandsQuiet
<1>5. CASE msg.type = "FS_ChangMoneyDeal"
  <2>1. PICK o \in Orders : statements' = Post(statements, "exists", o)
    BY <1>3, <1>5, MessageFact
  <2> QED BY <1>1, <2>1, StandsOrder
<1> QED BY <1>4, <1>5

\* A player who is there is paid, and the statement that says so is posted.
LEMMA GameHearsStands ==
    ASSUME Base, Base', Stands, NEW g \in Gates, NEW s \in Games, GameHears(g, s) PROVE Stands'
<1>1. UNCHANGED <<server_status, waiting, done, refund>>
  BY DEF GameHears
<1>2. <<g, s>> \in Gates \X Games
  OBVIOUS
<1>3. Head(to_game[<<g, s>>]) \in GameMsgs
  BY <1>2, BaseFact, PopFact DEF GameHears
<1>4. PICK msg \in GameMsgs :
        \/ msg.type = "S_Logout" /\ LogsOut(s, msg.p)
        \/ msg.type = "FS_ChangMoneyDeal" /\ Dealt(s, msg.o)
  BY <1>3 DEF GameHears
<1>5. \/ UNCHANGED <<statements, paid>>
      \/ \E o \in Orders : Pay(o) /\ statements' = Post(statements, "mark_paid", o)
  BY <1>4, MessageFact DEF LogsOut, Dealt
<1>6. CASE UNCHANGED <<statements, paid>>
  BY <1>1, <1>6, StandsQuiet
<1>7. CASE \E o \in Orders : Pay(o) /\ statements' = Post(statements, "mark_paid", o)
  <2>1. PICK o \in Orders : Pay(o) /\ statements' = Post(statements, "mark_paid", o)
    BY <1>7
  <2>2. o \in Payments /\ "mark_paid" \in Sql /\ statements \in Statements
    BY BaseFact, PaymentFact
  <2>3. \A j \in Sql, x \in Payments : j # "mark_paid" \/ x # o => statements'[j][x] = statements[j][x]
    BY <2>1, <2>2, PostFact
  <2>4. paid'[o] = paid[o] + 1 /\ \A x \in Payments : x # o => paid'[x] = paid[x]
    BY <2>1, <2>2, PaidFact
  <2>5. Safe(o)'
    BY <1>1, <2>2, <2>4, BaseFact DEF Safe
  <2>6. \A x \in Payments : x # o => (Safe(x)' <=> Safe(x))
    BY <1>1, <2>4 DEF Safe
  <2>7. Settled'
    BY <1>1, <2>3, <2>5, <2>6, PaymentFact DEF Stands, Settled
  <2>8. Kept'
    BY <1>1, <2>3, <2>6, PaymentFact DEF Stands, Kept, IsDeal, SameKey
  <2> QED BY <2>7, <2>8 DEF Stands
<1> QED BY <1>5, <1>6, <1>7

LEMMA CashMoneyStands ==
    ASSUME Base, Stands, NEW r \in Refunds, NEW s \in Games, CashMoney(r, s) PROVE Stands'
<1>1. UNCHANGED <<server_status, waiting, done, paid, statements>>
  BY DEF CashMoney, db_vars
<1>2. \A x \in Refunds : refund'[x] = "done" => refund[x] = "done"
  BY NoneFact DEF CashMoney, Base, Rows
<1> QED BY <1>1, <1>2 DEF Stands, Settled, Kept, Safe, IsDeal

LEMMA OnDsCashMoneyStands ==
    ASSUME Base, Base', Stands, NEW r \in Refunds, OnDsCashMoney(r) PROVE Stands'
<1>1. UNCHANGED <<server_status, waiting, done>>
  BY DEF OnDsCashMoney
<1>2. \A x \in Refunds : x # r => refund'[x] = refund[x]
  BY DEF OnDsCashMoney, Base, Rows
<1>3. r \in Payments /\ "exists" \in Sql /\ statements \in Statements /\ \A o \in Orders : o # r
  BY BaseFact, PaymentFact
<1>4. CASE Pay(r) /\ UNCHANGED statements
  <2>1. paid'[r] = paid[r] + 1 /\ \A x \in Payments : x # r => paid'[x] = paid[x]
    BY <1>3, <1>4, PaidFact
  <2>2. Safe(r)'
    BY <1>1, <1>3, <2>1, BaseFact DEF Safe
  <2>3. \A x \in Payments : x # r => (Safe(x)' <=> Safe(x))
    BY <1>1, <2>1 DEF Safe
  <2> QED BY <1>1, <1>2, <1>3, <1>4, <2>2, <2>3, PaymentFact DEF Stands, Settled, Kept, IsDeal
<1>5. CASE statements' = Post(statements, "exists", r) /\ UNCHANGED paid
  <2>1. /\ statements'["exists"][r] = statements["exists"][r] + 1
        /\ \A j \in Sql, x \in Payments : j # "exists" \/ x # r => statements'[j][x] = statements[j][x]
    BY <1>3, <1>5, PostFact
  <2>2. statements'["exists"][r] > 0
    BY <1>3, <2>1, BaseFact
  <2>3. \A x \in Payments : Safe(x)' <=> Safe(x)
    BY <1>1, <1>5 DEF Safe
  <2>4. Settled'
    BY <1>1, <1>3, <2>1, <2>3, PaymentFact DEF Stands, Settled
  <2>5. Kept'
    BY <1>1, <1>2, <1>5, <2>1, <2>2, <2>3, PaymentFact DEF Stands, Kept, IsDeal
  <2> QED BY <2>4, <2>5 DEF Stands
<1> QED BY <1>4, <1>5 DEF OnDsCashMoney

LEMMA RunOrderStands == ASSUME Base, Stands, NEW o \in Orders, RunOrder(o) PROVE Stands'
<1>1. UNCHANGED <<server_status, waiting, done, paid, refund>>
  BY DEF RunOrder, money_vars
<1>2. o \in Payments /\ "order" \in Sql /\ statements \in Statements
  BY BaseFact, PaymentFact
<1>3. statements["order"][o] > 0 /\ statements' = Taken("order", o)
  BY DEF RunOrder
<1>4. \A j \in Sql, x \in Payments : j # "order" => statements'[j][x] = statements[j][x]
  BY <1>2, <1>3, TakenFact
<1> QED BY <1>1, <1>4, PaymentFact, StandsFrame

\* A row that is found stays one, a refund's or another one's that has its order_id.
LEMMA RunExistsStands == ASSUME Base, Stands, NEW q \in Payments, RunExists(q) PROVE Stands'
<1>1. UNCHANGED <<server_status, waiting, done, paid, refund>>
  BY DEF RunExists, money_vars
<1>2. /\ "exists" \in Sql /\ "insert" \in Sql /\ statements \in Statements
      /\ statements["exists"][q] > 0
      /\ statements' = IF IsDeal(q) THEN Taken("exists", q) ELSE Post(Taken("exists", q), "insert", q)
  BY BaseFact, PaymentFact DEF RunExists
<1>3. CASE IsDeal(q)
  <2>1. statements' = Taken("exists", q)
    BY <1>2, <1>3
  <2>2. \A j \in Sql, x \in Payments : j # "exists" \/ x # q => statements'[j][x] = statements[j][x]
    BY <1>2, <2>1, TakenFact
  <2>3. Settled'
    BY <1>1, <2>2, PaymentFact DEF Stands, Settled, Safe
  <2>4. IsDeal(q)' /\ \A x \in Refunds : IsDeal(x)' <=> IsDeal(x)
    BY <1>1, <1>3 DEF IsDeal
  <2>5. Kept'
    BY <1>1, <1>3, <2>2, <2>4, PaymentFact DEF Stands, Kept, Safe
  <2> QED BY <2>3, <2>5 DEF Stands
<1>4. CASE ~IsDeal(q)
  <2>1. statements' = Post(Taken("exists", q), "insert", q)
    BY <1>2, <1>4
  <2>2. /\ Post(Taken("exists", q), "insert", q)["insert"][q] = statements["insert"][q] + 1
        /\ \A j \in Sql, x \in Payments :
             (j # "exists" /\ j # "insert") \/ x # q =>
               Post(Taken("exists", q), "insert", q)[j][x] = statements[j][x]
    BY <1>2, InsteadFact
  <2>3. statements'["insert"][q] > 0
    BY <1>2, <2>1, <2>2, BaseFact
  <2>4. \A j \in Sql, x \in Payments :
          (j # "exists" /\ j # "insert") \/ x # q => statements'[j][x] = statements[j][x]
    BY <2>1, <2>2
  <2>5. Settled'
    BY <1>1, <2>4, PaymentFact DEF Stands, Settled, Safe
  <2>6. Kept'
    BY <1>1, <2>3, <2>4, PaymentFact DEF Stands, Kept, Safe, IsDeal
  <2> QED BY <2>5, <2>6 DEF Stands
<1> QED BY <1>3, <1>4

LEMMA RunInsertStands == ASSUME Base, Base', Stands, NEW q \in Payments, RunInsert(q) PROVE Stands'
<1>1. UNCHANGED <<server_status, done, paid, refund>>
  BY DEF RunInsert, money_vars
<1>2. Safe(q)'
  BY <1>1, RunInsertFact, BaseFact DEF Safe
<1>3. \A x \in Payments : x # q => (Safe(x)' <=> Safe(x))
  BY <1>1, RunInsertFact DEF Safe
<1>4. \A j \in Sql, x \in Payments : x # q => statements'[j][x] = statements[j][x]
  BY RunInsertFact
<1>5. Settled'
  BY <1>1, <1>2, <1>3, <1>4, PaymentFact DEF Stands, Settled
<1>6. \A r \in Refunds : IsDeal(r) => IsDeal(r)'
  <2>1. ASSUME NEW x \in Refunds PROVE waiting'[x] + done'[x] >= waiting[x] + done[x]
    <3>1. x \in Payments /\ waiting[x] \in Nat /\ done[x] \in Nat
      BY PaymentFact, BaseFact DEF Base, Marks
    <3>2. CASE x = q
      BY <1>1, <3>1, <3>2, RunInsertFact
    <3>3. CASE x # q
      BY <1>1, <3>1, <3>3, RunInsertFact
    <3> QED BY <3>2, <3>3
  <2> QED BY <2>1, DealStays
<1>7. Kept'
  BY <1>1, <1>2, <1>3, <1>4, <1>6, PaymentFact DEF Stands, Kept
<1> QED BY <1>5, <1>7 DEF Stands

LEMMA RunStatusStands == ASSUME Base, Stands, NEW o \in Orders, RunStatus(o) PROVE Stands'
<1>1. UNCHANGED <<waiting, done, paid, refund>>
  BY DEF RunStatus, money_vars
<1>2. PICK k \in {"mark_paid", "mark_put_down"} :
        /\ statements[k][o] > 0 /\ statements'[k][o] = statements[k][o] - 1
        /\ \A i \in Sql, x \in Payments : i # k \/ x # o => statements'[i][x] = statements[i][x]
        /\ \A x \in Orders : x # o => server_status'[x] = server_status[x]
  BY RunStatusFact
<1>3. Safe(o)
  BY <1>2 DEF Stands, Settled
<1>4. \A x \in Payments : Safe(x)' <=> Safe(x)
  BY <1>1 DEF Safe
<1>5. Settled'
  BY <1>2, <1>3, <1>4, PaymentFact DEF Stands, Settled
<1>6. \A r \in Refunds : /\ statements'["exists"][r] = statements["exists"][r]
                         /\ statements'["insert"][r] = statements["insert"][r]
  BY <1>2, PaymentFact
<1>7. Kept'
  BY <1>1, <1>4, <1>6, PaymentFact DEF Stands, Kept, IsDeal, SameKey
<1> QED BY <1>5, <1>7 DEF Stands

LEMMA RunMarkStands ==
    ASSUME Base, Base', Stands, NEW p \in Players, NEW q \in Payments, RunMark(p, q) PROVE Stands'
<1>1. UNCHANGED <<server_status, statements, refund>>
  BY DEF RunMark
<1>2. ASSUME NEW x \in Payments, Safe(x) PROVE Safe(x)'
  <2>1. waiting[x] \in Nat /\ paid[x] \in Nat
    BY BaseFact
  <2>2. waiting'[x] + paid'[x] = waiting[x] + paid[x]
    <3>1. CASE x = q
      BY <2>1, <3>1, RunMarkFact
    <3>2. CASE x # q
      BY <3>2, RunMarkFact
    <3> QED BY <3>1, <3>2
  <2> QED BY <1>2, <2>1, <2>2, SafeStays
<1>3. Settled'
  BY <1>1, <1>2, PaymentFact DEF Stands, Settled
<1>4. \A r \in Refunds : IsDeal(r) => IsDeal(r)'
  <2>1. ASSUME NEW x \in Refunds PROVE waiting'[x] + done'[x] >= waiting[x] + done[x]
    <3>1. x \in Payments /\ waiting[x] \in Nat /\ done[x] \in Nat
      BY PaymentFact, BaseFact DEF Base, Marks
    <3>2. CASE x = q
      BY <3>1, <3>2, RunMarkFact
    <3>3. CASE x # q
      BY <3>1, <3>3, RunMarkFact
    <3> QED BY <3>2, <3>3
  <2> QED BY <2>1, DealStays
<1>5. Kept'
  BY <1>1, <1>2, <1>4, PaymentFact DEF Stands, Kept
<1> QED BY <1>3, <1>5 DEF Stands

LEMMA NextStands == Base /\ Base' /\ Stands /\ [Next]_vars => Stands'
<1> SUFFICES ASSUME Base, Base', Stands, [Next]_vars PROVE Stands'
  OBVIOUS
<1>1. ASSUME NEW o \in Orders, Ask(o) \/ OnDfChangMoney(o) PROVE Stands'
  <2>1. UNCHANGED <<server_status, waiting, done, paid, refund>>
    BY <1>1 DEF Ask, OnDfChangMoney, money_vars
  <2>2. CASE Ask(o)
    <3>1. statements' = Post(statements, "order", o)
      BY <2>2 DEF Ask
    <3> QED BY <2>1, <3>1, StandsOrder
  <2>3. CASE OnDfChangMoney(o)
    <3>1. statements' = statements \/ statements' = Post(statements, "exists", o)
      BY <2>3 DEF OnDfChangMoney
    <3> QED BY <2>1, <3>1, StandsOrder
  <2> QED BY <1>1, <2>2, <2>3
<1>2. ASSUME NEW p \in Players, GateHears(p) \/ RunRows(p) \/ LoadDone(p) \/ OnClosed(p) PROVE Stands'
  BY <1>2, StandsQuiet DEF GateHears, RunRows, LoadDone, OnClosed, db_vars, money_vars
<1>3. ASSUME NEW p \in Players, NEW g \in Gates, NEW s \in Games, NEW t \in Games,
             LetIn(p, g, s) \/ ChangeGame(p, s, t) \/ LeaveTable(s, p) PROVE Stands'
  BY <1>3, StandsQuiet DEF LetIn, ChangeGame, LeaveTable, db_vars, money_vars
<1>4. ASSUME NEW g \in Gates, GateDeals(g) \/ Reconnect(g) PROVE Stands'
  BY <1>4, StandsQuiet DEF GateDeals, Reconnect, db_vars, money_vars
<1>5. CASE Delivers
  BY <1>1, <1>2, <1>4, <1>5, PaymentFact, ConfigHearsStands, GameHearsStands, OnDsCashMoneyStands,
     RunOrderStands, RunExistsStands, RunInsertStands, RunStatusStands, RunMarkStands DEF Delivers
<1>6. ASSUME NEW p \in Players, NEW s \in Games, NEW t \in Games,
             ChangeGame(p, s, t) \/ LeaveTable(s, p) PROVE Stands'
  BY <1>6, StandsQuiet DEF ChangeGame, LeaveTable, db_vars, money_vars
<1>7. CASE Plays
  BY <1>1, <1>2, <1>3, <1>4, <1>6, <1>7, CashMoneyStands DEF Plays
<1>8. CASE UNCHANGED vars
  BY <1>8, StandsQuiet DEF vars, db_vars, money_vars
<1> QED BY <1>5, <1>7, <1>8 DEF Next

LEMMA StandsInvariance == Spec => []Stands
<1>1. Init => Stands
  BY PaymentFact, NoneFact DEF Init, Stands, Settled, Kept, Sql
<1> QED BY <1>1, NextStands, BaseInvariance, PTL DEF Spec

\* An order whose status says that it was dealt with has been paid into its
\* player's bank or waits for him in t_re_recharge, however often the web asks for
\* it and wherever he goes meanwhile.
THEOREM DealtWithSafe == Spec => [](\A o \in Orders : server_status[o] # 0 => Safe(o))
<1>1. Stands => \A o \in Orders : server_status[o] # 0 => Safe(o)
  BY DEF Stands, Settled
<1> QED BY <1>1, StandsInvariance, PTL

\* The same, and a refund is forgotten only because the row of another one was taken
\* for its own, the database having one order_id for all of them.
THEOREM NothingForgottenSafe == Spec => []NothingForgotten
<1>1. Base /\ Stands => NothingForgotten
  <2> SUFFICES ASSUME Base, Stands PROVE NothingForgotten
    OBVIOUS
  <2>1. ASSUME NEW r \in Refunds, refund[r] = "done", Underway(r) = 0, ~TakenForAnother(r) PROVE Safe(r)
    <3>1. statements["exists"][r] = 0 /\ statements["insert"][r] = 0
      BY <2>1, IdleFact, PaymentFact
    <3>2. Safe(r) \/ IsDeal(r)
      BY <2>1, <3>1 DEF Stands, Kept
    <3>3. IsDeal(r) => waiting[r] + done[r] > 0
      BY <2>1, PaymentFact DEF IsDeal, TakenForAnother
    <3>4. done[r] <= paid[r] /\ done[r] \in Nat /\ paid[r] \in Nat /\ waiting[r] \in Nat
      BY PaymentFact, BaseFact DEF Base, Marks
    <3> QED BY <3>2, <3>3, <3>4 DEF Safe
  <2> QED BY <2>1 DEF NothingForgotten, Stands, Settled
<1> QED BY <1>1, StandsInvariance, BaseInvariance, PTL

-----------------------------------------------------------------------------
(* Nothing is paid twice *)

\* A message that is put into one queue of a net, and one that is taken out.
LEMMA NetPut ==
    ASSUME NEW K, IsFiniteSet(K), NEW M, NEW net \in [K -> Seq(M)], NEW k \in K, NEW m \in M, NEW o
    PROVE  /\ Here(Put(net, k, m), o) <= Here(net, o) + 1
           /\ m # Deal(o) => Here(Put(net, k, m), o) <= Here(net, o)
<1> DEFINE new == Put(net, k, m)
           last == <<k, Len(net[k]) + 1>>
<1>1. new \in [K -> Seq(M)] /\ new[k] = Append(net[k], m) /\ \A j \in K : j # k => new[j] = net[j]
  BY PutFact
<1>2. /\ Len(net[k]) \in Nat /\ DOMAIN net[k] = 1..Len(net[k])
      /\ DOMAIN new[k] = 1..(Len(net[k]) + 1) /\ new[k][Len(net[k]) + 1] = m
      /\ \A i \in 1..Len(net[k]) : new[k][i] = net[k][i]
  <2>1. /\ Append(net[k], m) \in Seq(M) /\ Len(Append(net[k], m)) = Len(net[k]) + 1
        /\ \A i \in 1..Len(net[k]) : Append(net[k], m)[i] = net[k][i]
        /\ Append(net[k], m)[Len(net[k]) + 1] = m
    BY AppendProperties
  <2> QED BY <1>1, <2>1, LenProperties
<1>3. ASSUME NEW j \in K, NEW i \in DOMAIN new[j], new[j][i] = Deal(o)
      PROVE  (i \in DOMAIN net[j] /\ net[j][i] = Deal(o)) \/ (<<j, i>> = last /\ m = Deal(o))
  <2>1. CASE j # k
    BY <1>1, <1>3, <2>1
  <2>2. CASE j = k /\ i \in 1..Len(net[k])
    BY <1>2, <1>3, <2>2
  <2>3. CASE j = k /\ i = Len(net[k]) + 1
    BY <1>2, <1>3, <2>3
  <2> QED BY <1>2, <1>3, <2>1, <2>2, <2>3
<1>4. DOMAIN net = K /\ DOMAIN new = K
  BY <1>1
<1>5. Deals(new, o) \subseteq Deals(net, o) \union (IF m = Deal(o) THEN {last} ELSE {})
  <2> HIDE DEF new, last
  <2> QED BY <1>3, <1>4 DEF Deals
<1>6. IsFiniteSet(Deals(net, o)) /\ Here(net, o) \in Nat
  BY DealsFact DEF Here
<1>7. CASE m # Deal(o)
  <2>1. Cardinality(Deals(new, o)) <= Cardinality(Deals(net, o))
    BY <1>5, <1>6, <1>7, FS_Subset
  <2> QED BY <1>6, <1>7, <2>1, FS_Subset, FS_CardinalityType, DealsFact, <1>1 DEF Here
<1>8. CASE m = Deal(o)
  <2>1. /\ IsFiniteSet(Deals(net, o) \union {last})
        /\ Cardinality(Deals(net, o) \union {last}) <= Cardinality(Deals(net, o)) + 1
    <3>1. /\ IsFiniteSet(Deals(net, o) \union {last})
          /\ Cardinality(Deals(net, o) \union {last}) =
               IF last \in Deals(net, o) THEN Cardinality(Deals(net, o)) ELSE Cardinality(Deals(net, o)) + 1
      <4> HIDE DEF last
      <4> QED BY <1>6, FS_AddElement
    <3> QED BY <1>6, <3>1 DEF Here
  <2>2. Cardinality(Deals(new, o)) <= Cardinality(Deals(net, o) \union {last})
    BY <1>5, <1>8, <2>1, FS_Subset
  <2>3. /\ Cardinality(Deals(new, o)) \in Nat /\ Cardinality(Deals(net, o)) \in Nat
        /\ Cardinality(Deals(net, o) \union {last}) \in Nat
    BY <1>1, <1>6, <2>1, DealsFact, FS_CardinalityType
  <2> QED BY <1>8, <2>1, <2>2, <2>3 DEF Here
<1> QED BY <1>7, <1>8

LEMMA NetPop ==
    ASSUME NEW K, IsFiniteSet(K), NEW M, NEW net \in [K -> Seq(M)], NEW k \in K, net[k] # <<>>, NEW o
    PROVE  /\ Here([net EXCEPT ![k] = Tail(@)], o) <= Here(net, o)
           /\ Head(net[k]) = Deal(o) => Here([net EXCEPT ![k] = Tail(@)], o) <= Here(net, o) - 1
<1> DEFINE new == [net EXCEPT ![k] = Tail(@)]
           first == <<k, 1>>
           S == Deals(new, o)
           T == IF Head(net[k]) = Deal(o) THEN Deals(net, o) \ {first} ELSE Deals(net, o)
           f == [d \in S |-> <<d[1], IF d[1] = k THEN d[2] + 1 ELSE d[2]>>]
<1>1. new \in [K -> Seq(M)] /\ new[k] = Tail(net[k]) /\ \A j \in K : j # k => new[j] = net[j]
  BY PopFact
<1>2. /\ Len(net[k]) \in Nat /\ Len(net[k]) > 0 /\ Len(new[k]) = Len(net[k]) - 1
      /\ Head(net[k]) = net[k][1] /\ \A i \in 1..Len(new[k]) : new[k][i] = net[k][i + 1]
      /\ new[k] \in Seq(M)
  BY <1>1, TailFact
<1>3. DOMAIN net[k] = 1..Len(net[k]) /\ DOMAIN new[k] = 1..Len(new[k])
  BY <1>2, LenProperties
<1>4. DOMAIN net = K /\ DOMAIN new = K /\ \A j \in K : DOMAIN new[j] \subseteq Nat
  BY <1>1, LenProperties
<1>5. \A d \in S : /\ d = <<d[1], d[2]>> /\ d[1] \in K /\ d[2] \in DOMAIN new[d[1]]
                   /\ new[d[1]][d[2]] = Deal(o)
  <2> HIDE DEF new
  <2> QED BY <1>4 DEF Deals
<1>6. \A j \in K : \A i \in DOMAIN net[j] : net[j][i] = Deal(o) => <<j, i>> \in Deals(net, o)
  BY <1>4 DEF Deals
<1>7. ASSUME NEW d \in S PROVE f[d] \in T
  <2>1. d[1] \in K /\ d[2] \in Nat /\ d[2] \in DOMAIN new[d[1]] /\ new[d[1]][d[2]] = Deal(o)
    BY <1>4, <1>5
  <2>2. CASE d[1] = k
    <3>1. /\ d[2] + 1 \in DOMAIN net[k] /\ net[k][d[2] + 1] = Deal(o) /\ d[2] + 1 # 1
      <4> DEFINE i == d[2]
      <4>1. i \in 1..Len(new[k]) /\ new[k][i] = Deal(o)
        <5> HIDE DEF new
        <5> QED BY <1>3, <2>1, <2>2
      <4>2. i + 1 \in 1..Len(net[k]) /\ net[k][i + 1] = Deal(o) /\ i + 1 # 1
        <5> HIDE DEF new, i
        <5> QED BY <1>2, <4>1
      <4> QED BY <1>3, <4>2
    <3>2. f[d] = <<k, d[2] + 1>>
      BY <2>2
    <3>3. f[d] # first /\ f[d] \in Deals(net, o)
      BY <1>6, <3>1, <3>2
    <3> QED BY <3>3
  <2>3. CASE d[1] # k
    <3>1. f[d] = <<d[1], d[2]>>
      BY <2>3
    <3>2. d[2] \in DOMAIN net[d[1]] /\ net[d[1]][d[2]] = Deal(o)
      <4> HIDE DEF new
      <4> QED BY <1>1, <2>1, <2>3
    <3>3. f[d] # first /\ f[d] \in Deals(net, o)
      BY <1>6, <2>1, <2>3, <3>1, <3>2
    <3> QED BY <3>3
  <2> QED BY <2>2, <2>3
<1>8. ASSUME NEW c \in S, NEW d \in S, f[c] = f[d] PROVE c = d
  <2>1. /\ c = <<c[1], c[2]>> /\ d = <<d[1], d[2]>> /\ c[2] \in Nat /\ d[2] \in Nat
    BY <1>4, <1>5
  <2>2. c[1] = d[1] /\ (IF c[1] = k THEN c[2] + 1 ELSE c[2]) = (IF d[1] = k THEN d[2] + 1 ELSE d[2])
    BY <1>8
  <2>3. c[2] = d[2]
    BY <2>1, <2>2
  <2> QED BY <2>1, <2>2, <2>3
<1>9. f \in Injection(S, T)
  <2> HIDE DEF S, T
  <2> QED BY <1>7, <1>8 DEF Injection, IsInjective
<1>10. IsFiniteSet(Deals(net, o)) /\ Here(net, o) \in Nat
  BY DealsFact DEF Here
<1>11. Here(new, o) \in Nat
  BY <1>1, DealsFact DEF Here
<1>12. IsFiniteSet(T) /\ Cardinality(T) = (IF Head(net[k]) = Deal(o) THEN Here(net, o) - 1 ELSE Here(net, o))
  <2>1. first \in Deals(net, o) \/ Head(net[k]) # Deal(o)
    BY <1>2, <1>3, <1>6
  <2> QED BY <1>10, <2>1, FS_RemoveElement DEF Here
<1>13. Cardinality(S) <= Cardinality(T)
  <2> HIDE DEF S, T, f
  <2> QED BY <1>9, <1>12, FS_Injection
<1> QED BY <1>10, <1>11, <1>12, <1>13 DEF Here

\* The numbers that OneWay and Back add up, before a step and after it.
LEMMA FiniteFact == IsFiniteSet(Gates) /\ IsFiniteSet(Gates \X Games)
BY RechargeAssumption, FS_Product DEF RechargeAssumption

LEMMA NumberFact ==
    ASSUME Base
    PROVE  /\ \A o \in Orders : /\ Here(to_gate, o) \in Nat /\ Here(to_config, o) \in Nat
                                /\ Here(to_game, o) \in Nat /\ found[o] \in Nat
                                /\ Early(o) \in Nat /\ Marked(o) \in Nat
           /\ \A q \in Payments : /\ \A k \in Sql : statements[k][q] \in Nat
                                  /\ paid[q] \in Nat /\ waiting[q] \in Nat /\ Times(q) \in Nat
<1>1. ASSUME NEW o
      PROVE  Here(to_gate, o) \in Nat /\ Here(to_config, o) \in Nat /\ Here(to_game, o) \in Nat
  <2>1. Here(to_gate, o) \in Nat
    BY FiniteFact, BaseFact, DealsFact DEF Here
  <2>2. Here(to_config, o) \in Nat
    BY FiniteFact, BaseFact, DealsFact DEF Here
  <2>3. Here(to_game, o) \in Nat
    BY FiniteFact, BaseFact, DealsFact DEF Here
  <2> QED BY <2>1, <2>2, <2>3
<1>2. \A o \in Orders : Early(o) \in Nat /\ Marked(o) \in Nat
  <2>1. ASSUME NEW o \in Orders PROVE Early(o) \in Nat /\ Marked(o) \in Nat
    <3>1. /\ statements["exists"][o] \in Nat /\ statements["insert"][o] \in Nat
          /\ statements["mark_paid"][o] \in Nat /\ statements["mark_put_down"][o] \in Nat
          /\ found[o] \in Nat
      BY BaseFact, PaymentFact
    <3> QED BY <1>1, <3>1 DEF Early, Marked
  <2> QED BY <2>1
<1> QED BY <1>1, <1>2, BaseFact DEF Times

LEMMA NumberNext ==
    ASSUME Base'
    PROVE  /\ \A o \in Orders : /\ Here(to_gate', o) \in Nat /\ Here(to_config', o) \in Nat
                                /\ Here(to_game', o) \in Nat /\ found'[o] \in Nat
                                /\ Early(o)' \in Nat /\ Marked(o)' \in Nat
           /\ \A q \in Payments : /\ \A k \in Sql : statements'[k][q] \in Nat
                                  /\ paid'[q] \in Nat /\ waiting'[q] \in Nat /\ Times(q)' \in Nat
<1>1. /\ to_gate' \in [Gates -> Seq(DealMsgs)] /\ to_config' \in [Gates -> Seq(ConfigMsgs)]
      /\ to_game' \in [Gates \X Games -> Seq(GameMsgs)]
  BY DEF Base, Messages
<1>2. ASSUME NEW o
      PROVE  Here(to_gate', o) \in Nat /\ Here(to_config', o) \in Nat /\ Here(to_game', o) \in Nat
  <2>1. Here(to_gate', o) \in Nat
    BY <1>1, FiniteFact, DealsFact DEF Here
  <2>2. Here(to_config', o) \in Nat
    BY <1>1, FiniteFact, DealsFact DEF Here
  <2>3. Here(to_game', o) \in Nat
    BY <1>1, FiniteFact, DealsFact DEF Here
  <2> QED BY <2>1, <2>2, <2>3
<1>3. /\ \A q \in Payments : /\ \A k \in Sql : statements'[k][q] \in Nat
                             /\ paid'[q] \in Nat /\ waiting'[q] \in Nat
      /\ \A o \in Orders : found'[o] \in Nat
  BY DEF Base, Rows
<1>4. \A o \in Orders : Early(o)' \in Nat /\ Marked(o)' \in Nat
  BY <1>2, <1>3, PaymentFact DEF Early, Marked
<1> QED BY <1>2, <1>3, <1>4 DEF Times

\* The kinds of steps an order may see: one on its way, the web's question, the
\* SELECT, the one that comes to something, the UPDATE.
LEMMA WayQuiet ==
    ASSUME Base, Base', NEW o \in Orders, OneWay(o),
           statements'["order"][o] = statements["order"][o], Early(o)' <= Early(o),
           Marked(o)' = Marked(o), server_status'[o] = server_status[o], Times(o)' = Times(o)
    PROVE  OneWay(o)'
BY NumberFact, NumberNext, PaymentFact DEF OneWay

LEMMA WayAsk ==
    ASSUME Base, Base', NEW o \in Orders, OneWay(o),
           statements["order"][o] = 0, Early(o) = 0, Marked(o) = 0,
           statements'["order"][o] = 1, Early(o)' = 0, Marked(o)' = 0,
           server_status'[o] = server_status[o], Times(o)' = Times(o)
    PROVE  OneWay(o)'
BY DEF OneWay

LEMMA WayOrder ==
    ASSUME Base, Base', NEW o \in Orders, OneWay(o),
           statements'["order"][o] = statements["order"][o] - 1,
           Early(o)' = Early(o) \/ (server_status[o] = 0 /\ Early(o)' = Early(o) + 1),
           Marked(o)' = Marked(o), server_status'[o] = server_status[o], Times(o)' = Times(o)
    PROVE  OneWay(o)'
BY NumberFact, NumberNext, PaymentFact DEF OneWay

LEMMA WayDone ==
    ASSUME Base, Base', NEW o \in Orders, OneWay(o),
           statements'["order"][o] = statements["order"][o], Early(o)' <= Early(o) - 1,
           Marked(o)' = Marked(o) + 1, server_status'[o] = server_status[o],
           Times(o)' = Times(o) + 1
    PROVE  OneWay(o)'
<1>1. /\ Early(o) \in Nat /\ Marked(o) \in Nat /\ Times(o) \in Nat /\ Early(o)' \in Nat
      /\ statements["order"][o] \in Nat
  BY NumberFact, NumberNext, PaymentFact
<1>2. statements["order"][o] + Early(o) + Marked(o) <= 1
  BY DEF OneWay
<1>3. Early(o) = 1 /\ Marked(o) = 0 /\ statements["order"][o] = 0 /\ Early(o)' = 0
  BY <1>1, <1>2
<1>4. Times(o) = 0
  BY <1>3 DEF OneWay
<1> QED BY <1>3, <1>4 DEF OneWay

LEMMA WayStatus ==
    ASSUME Base, Base', NEW o \in Orders, OneWay(o),
           statements'["order"][o] = statements["order"][o], Early(o)' = Early(o),
           Marked(o)' = Marked(o) - 1, server_status'[o] # 0, Times(o)' = Times(o)
    PROVE  OneWay(o)'
<1>1. /\ Early(o) \in Nat /\ Marked(o) \in Nat /\ Marked(o)' \in Nat
      /\ statements["order"][o] \in Nat
  BY NumberFact, NumberNext, PaymentFact
<1>2. statements["order"][o] + Early(o) + Marked(o) <= 1
  BY DEF OneWay
<1>3. Early(o) = 0 /\ Marked(o) = 1 /\ statements["order"][o] = 0 /\ Marked(o)' = 0
  BY <1>1, <1>2
<1> QED BY <1>3 DEF OneWay

\* An order that a step does not touch, or loses.
LEMMA WaySame ==
    ASSUME Base, Base', NEW o \in Orders, OneWay(o),
           \A k \in Sql : statements'[k][o] = statements[k][o],
           found'[o] = found[o], Here(to_gate', o) <= Here(to_gate, o),
           Here(to_config', o) <= Here(to_config, o), Here(to_game', o) <= Here(to_game, o),
           server_status'[o] = server_status[o], paid'[o] = paid[o], waiting'[o] = waiting[o]
    PROVE  OneWay(o)'
<1>1. Early(o)' <= Early(o)
  BY NumberFact, NumberNext, PaymentFact DEF Early
<1>2. Marked(o)' = Marked(o) /\ Times(o)' = Times(o) /\ "order" \in Sql
  BY PaymentFact DEF Marked, Times
<1> QED BY <1>1, <1>2, WayQuiet

\* A refund that a step does not touch.
LEMMA BackSame ==
    ASSUME NEW r \in Refunds, Back(r), refund'[r] = "done" <=> refund[r] = "done",
           \A k \in Sql : statements'[k][r] = statements[k][r],
           paid'[r] = paid[r], waiting'[r] = waiting[r]
    PROVE  Back(r)'
BY PaymentFact DEF Back, Returned, Times

\* An action that leaves the money and the statements alone and puts no order
\* anywhere.
LEMMA OnceQuiet ==
    ASSUME Base, Base', Once,
           UNCHANGED <<server_status, waiting, statements, found, paid, refund>>,
           \A o \in Orders : /\ Here(to_gate', o) <= Here(to_gate, o)
                             /\ Here(to_config', o) <= Here(to_config, o)
                             /\ Here(to_game', o) <= Here(to_game, o)
    PROVE  Once'
<1>1. ASSUME NEW o \in Orders PROVE OneWay(o)'
  BY WaySame DEF Once
<1>2. ASSUME NEW r \in Refunds PROVE Back(r)'
  BY BackSame DEF Once
<1> QED BY <1>1, <1>2 DEF Once

LEMMA OnceStill ==
    ASSUME Base, Base', Once,
           UNCHANGED <<server_status, waiting, statements, found, paid, refund, to_gate, to_config, to_game>>
    PROVE  Once'
BY NumberFact, OnceQuiet


\* The web asks for an order that nothing is under way for.
LEMMA UnderwayIs ==
    ASSUME Base, NEW o \in Orders
    PROVE  Underway(o) = statements["order"][o] + Early(o) + Marked(o)
<1>1. /\ Here(to_gate, o) \in Nat /\ Here(to_config, o) \in Nat /\ Here(to_game, o) \in Nat
      /\ statements["order"][o] \in Nat /\ found[o] \in Nat
      /\ statements["exists"][o] \in Nat /\ statements["insert"][o] \in Nat
      /\ statements["mark_paid"][o] \in Nat /\ statements["mark_put_down"][o] \in Nat
  BY NumberFact, PaymentFact
<1>2. Underway(o) =
        statements["order"][o] + statements["exists"][o] + statements["insert"][o]
          + statements["mark_paid"][o] + statements["mark_put_down"][o] + found[o]
          + Here(to_gate, o) + Here(to_config, o) + Here(to_game, o)
  BY DEF Underway, Here
<1> QED BY <1>1, <1>2 DEF Early, Marked

LEMMA AskOnce ==
    ASSUME AsksAtOnce <= 1, Base, Base', Once, NEW o \in Orders, Ask(o) PROVE Once'
<1>1. UNCHANGED <<server_status, waiting, found, paid, refund, to_gate, to_config, to_game>>
  BY DEF Ask, link_vars
<1>2. "order" \in Sql /\ o \in Payments /\ statements \in Statements
  BY BaseFact, PaymentFact
<1>3. /\ statements'["order"][o] = statements["order"][o] + 1
      /\ \A k \in Sql, x \in Payments : k # "order" \/ x # o => statements'[k][x] = statements[k][x]
  BY <1>2, PostFact DEF Ask
<1>4. \A x \in Payments : Times(x)' = Times(x)
  BY <1>1 DEF Times
<1>5. \A x \in Orders : Early(x)' = Early(x) /\ Marked(x)' = Marked(x)
  BY <1>1, <1>3, PaymentFact DEF Early, Marked
<1>6. statements["order"][o] = 0 /\ Early(o) = 0 /\ Marked(o) = 0
  <2>1. Underway(o) < AsksAtOnce /\ AsksAtOnce \in Nat
    BY RechargeAssumption DEF Ask, RechargeAssumption
  <2>2. statements["order"][o] \in Nat /\ Early(o) \in Nat /\ Marked(o) \in Nat
    BY <1>2, NumberFact
  <2> QED BY <2>1, <2>2, UnderwayIs
<1>7. OneWay(o)'
  BY <1>1, <1>2, <1>3, <1>4, <1>5, <1>6, WayAsk DEF Once
<1>8. ASSUME NEW x \in Orders, x # o PROVE OneWay(x)'
  BY <1>1, <1>2, <1>3, <1>8, NumberFact, PaymentFact, WaySame DEF Once
<1>9. ASSUME NEW r \in Refunds PROVE Back(r)'
  BY <1>1, <1>2, <1>3, <1>9, PaymentFact, BackSame DEF Once
<1> QED BY <1>7, <1>8, <1>9 DEF Once

\* An order that goes on: one number goes down, and at most one up.
LEMMA OnceOn ==
    ASSUME Base, Base', Once, NEW o \in Orders,
           UNCHANGED <<server_status, waiting, paid, refund>>,
           \A k \in Sql, x \in Payments : x # o => statements'[k][x] = statements[k][x],
           \A x \in Orders : x # o => /\ found'[x] = found[x]
                                      /\ Here(to_gate', x) <= Here(to_gate, x)
                                      /\ Here(to_config', x) <= Here(to_config, x)
                                      /\ Here(to_game', x) <= Here(to_game, x),
           \A k \in {"order", "mark_paid", "mark_put_down"} : statements'[k][o] = statements[k][o],
           Early(o)' <= Early(o)
    PROVE  Once'
<1>1. Marked(o)' = Marked(o) /\ Times(o)' = Times(o) /\ statements'["order"][o] = statements["order"][o]
  BY DEF Marked, Times
<1>2. OneWay(o)'
  BY <1>1, WayQuiet DEF Once
<1>3. ASSUME NEW x \in Orders, x # o PROVE OneWay(x)'
  BY <1>3, PaymentFact, WaySame DEF Once
<1>4. ASSUME NEW r \in Refunds PROVE Back(r)'
  BY <1>4, PaymentFact, BackSame DEF Once
<1> QED BY <1>2, <1>3, <1>4 DEF Once

LEMMA DealIs == \A x, o : Deal(x) = Deal(o) <=> x = o
BY DEF Deal

LEMMA OtherMessages ==
    /\ \A m \in ConfigMsgs : m.type # "FS_ChangMoneyDeal" => \A o \in Orders : m # Deal(o)
    /\ \A m \in GameMsgs : m.type # "FS_ChangMoneyDeal" => \A o \in Orders : m # Deal(o)
BY DEF Deal

LEMMA OnDfChangMoneyOnce ==
    ASSUME Base, Base', Once, NEW o \in Orders, OnDfChangMoney(o) PROVE Once'
<1>1. UNCHANGED <<server_status, waiting, paid, refund, to_config, to_game>>
  BY DEF OnDfChangMoney, money_vars
<1>2. found'[o] = found[o] - 1 /\ \A x \in Orders : x # o => found'[x] = found[x]
  BY DEF OnDfChangMoney, Base, Rows
<1>3. "exists" \in Sql /\ o \in Payments /\ statements \in Statements
  BY BaseFact, PaymentFact
<1>4. \/ statements' = Post(statements, "exists", o) /\ to_gate' = to_gate
      \/ statements' = statements /\ to_gate' = to_gate
      \/ statements' = statements /\ \E g \in Gates : to_gate' = Put(to_gate, g, Deal(o))
  BY DEF OnDfChangMoney
<1>5. /\ \A k \in Sql, x \in Payments : k # "exists" \/ x # o => statements'[k][x] = statements[k][x]
      /\ \A x \in Orders : x # o => Here(to_gate', x) <= Here(to_gate, x)
      /\ statements'["exists"][o] + Here(to_gate', o) <= statements["exists"][o] + Here(to_gate, o) + 1
  <2>1. CASE statements' = Post(statements, "exists", o) /\ to_gate' = to_gate
    <3>1. /\ statements'["exists"][o] = statements["exists"][o] + 1
          /\ \A k \in Sql, x \in Payments : k # "exists" \/ x # o => statements'[k][x] = statements[k][x]
      BY <1>3, <2>1, PostFact
    <3> QED BY <2>1, <3>1, <1>3, NumberFact
  <2>2. CASE statements' = statements /\ to_gate' = to_gate
    BY <2>2, <1>3, NumberFact
  <2>3. CASE statements' = statements /\ \E g \in Gates : to_gate' = Put(to_gate, g, Deal(o))
    <3>1. PICK g \in Gates : to_gate' = Put(to_gate, g, Deal(o))
      BY <2>3
    <3>2. Deal(o) \in DealMsgs /\ to_gate \in [Gates -> Seq(DealMsgs)] /\ IsFiniteSet(Gates)
      BY BaseFact, FiniteFact DEF DealMsgs
    <3>3. ASSUME NEW x
          PROVE  /\ Here(Put(to_gate, g, Deal(o)), x) <= Here(to_gate, x) + 1
                 /\ Deal(o) # Deal(x) => Here(Put(to_gate, g, Deal(o)), x) <= Here(to_gate, x)
      BY <3>2, NetPut
    <3>4. ASSUME NEW x
          PROVE  /\ Here(to_gate', x) <= Here(to_gate, x) + 1
                 /\ Deal(o) # Deal(x) => Here(to_gate', x) <= Here(to_gate, x)
      BY <3>1, <3>3, Zenon
    <3>5. \A x \in Orders : x # o => Here(to_gate', x) <= Here(to_gate, x)
      BY <3>4, DealIs
    <3> QED BY <2>3, <3>4, <3>5, <1>3, NumberFact, NumberNext
  <2> QED BY <1>4, <2>1, <2>2, <2>3
<1>6. Early(o)' <= Early(o)
  BY <1>1, <1>2, <1>3, <1>5, NumberFact, NumberNext, PaymentFact DEF Early
<1>7. \A k \in {"order", "mark_paid", "mark_put_down"} : statements'[k][o] = statements[k][o]
  BY <1>3, <1>5, PaymentFact
<1> QED BY <1>1, <1>2, <1>5, <1>6, <1>7, NumberFact, OnceOn

\* What a queue has of an order when its first message is taken.
LEMMA TakenHere ==
    ASSUME NEW K, IsFiniteSet(K), NEW M, NEW net \in [K -> Seq(M)], NEW new, NEW k \in K,
           net[k] # <<>>, new = [net EXCEPT ![k] = Tail(@)], NEW o
    PROVE  /\ Here(new, o) <= Here(net, o)
           /\ Head(net[k]) = Deal(o) => Here(new, o) <= Here(net, o) - 1
BY NetPop

LEMMA PutHere ==
    ASSUME NEW K, IsFiniteSet(K), NEW M, NEW net \in [K -> Seq(M)], NEW new, NEW k \in K, NEW m \in M,
           new = Put(net, k, m), NEW o
    PROVE  /\ Here(new, o) <= Here(net, o) + 1
           /\ m # Deal(o) => Here(new, o) <= Here(net, o)
BY NetPut

LEMMA ConfigHearsOnce ==
    ASSUME Base, Base', Once, NEW g \in Gates, ConfigHears(g) PROVE Once'
<1>1. UNCHANGED <<server_status, waiting, found, paid, refund, to_gate, to_game>>
  BY DEF ConfigHears, money_vars
<1>2. /\ to_config \in [Gates -> Seq(ConfigMsgs)] /\ to_config[g] # <<>> /\ IsFiniteSet(Gates)
      /\ to_config' = [to_config EXCEPT ![g] = Tail(@)]
  BY BaseFact, FiniteFact DEF ConfigHears
<1>3. \A x : /\ Here(to_config', x) <= Here(to_config, x)
             /\ Head(to_config[g]) = Deal(x) => Here(to_config', x) <= Here(to_config, x) - 1
  BY <1>2, TakenHere
<1>4. PICK msg \in ConfigMsgs :
        /\ msg = Head(to_config[g])
        /\ \/ msg.type # "FS_ChangMoneyDeal" /\ UNCHANGED statements
           \/ msg.type = "FS_ChangMoneyDeal" /\ statements' = Post(statements, "exists", msg.o)
  <2>1. Head(to_config[g]) \in ConfigMsgs
    BY <1>2, PopFact
  <2> QED BY <2>1 DEF ConfigHears
<1>5. CASE UNCHANGED statements
  BY <1>1, <1>3, <1>5, NumberFact, OnceQuiet
<1>6. CASE msg.type = "FS_ChangMoneyDeal" /\ statements' = Post(statements, "exists", msg.o)
  <2>1. PICK o \in Orders : msg = Deal(o) /\ statements' = Post(statements, "exists", o)
    BY <1>6, MessageFact
  <2>2. "exists" \in Sql /\ o \in Payments /\ statements \in Statements
    BY BaseFact, PaymentFact
  <2>3. /\ statements'["exists"][o] = statements["exists"][o] + 1
        /\ \A k \in Sql, x \in Payments : k # "exists" \/ x # o => statements'[k][x] = statements[k][x]
    BY <2>1, <2>2, PostFact
  <2>4. Here(to_config', o) <= Here(to_config, o) - 1
    BY <1>3, <1>4, <2>1
  <2>5. Early(o)' <= Early(o)
    BY <1>1, <2>2, <2>3, <2>4, NumberFact, NumberNext, PaymentFact DEF Early
  <2>6. \A k \in {"order", "mark_paid", "mark_put_down"} : statements'[k][o] = statements[k][o]
    BY <2>2, <2>3, PaymentFact
  <2> QED BY <1>1, <1>3, <2>3, <2>5, <2>6, NumberFact, OnceOn
<1> QED BY <1>4, <1>5, <1>6

LEMMA GateDealsOnce ==
    ASSUME Base, Base', Once, NEW g \in Gates, GateDeals(g) PROVE Once'
<1>1. UNCHANGED <<server_status, waiting, statements, found, paid, refund>>
  BY DEF GateDeals, db_vars, money_vars
<1>2. /\ to_gate \in [Gates -> Seq(DealMsgs)] /\ to_gate[g] # <<>> /\ IsFiniteSet(Gates)
      /\ to_gate' = [to_gate EXCEPT ![g] = Tail(@)]
  BY BaseFact, FiniteFact DEF GateDeals
<1>3. \A x : /\ Here(to_gate', x) <= Here(to_gate, x)
             /\ Head(to_gate[g]) = Deal(x) => Here(to_gate', x) <= Here(to_gate, x) - 1
  BY <1>2, TakenHere
<1>4. PICK o \in Orders : Head(to_gate[g]).o = o /\ Head(to_gate[g]) = Deal(o)
  <2>1. Head(to_gate[g]) \in DealMsgs
    BY <1>2, PopFact
  <2> QED BY <2>1, MessageFact
<1>5. PICK s : s = client_session_[g][Owner[o]] /\ s \in Games \union {None}
  BY PaymentFact DEF Base, Places
<1>6. \/ s = None /\ to_config' = Put(to_config, g, Deal(o)) /\ UNCHANGED to_game
      \/ s # None /\ to_game' = Put(to_game, <<g, s>>, Deal(o)) /\ UNCHANGED to_config
  BY <1>4, <1>5 DEF GateDeals, NotHere
<1>7. Deal(o) \in ConfigMsgs /\ Deal(o) \in GameMsgs
  BY DEF ConfigMsgs, GameMsgs, DealMsgs
<1>8. /\ \A x \in Orders : x # o => /\ Here(to_config', x) <= Here(to_config, x)
                                    /\ Here(to_game', x) <= Here(to_game, x)
      /\ Here(to_config', o) + Here(to_game', o) <= Here(to_config, o) + Here(to_game, o) + 1
  <2>1. CASE to_config' = Put(to_config, g, Deal(o)) /\ UNCHANGED to_game
    <3>1. ASSUME NEW x
          PROVE  /\ Here(to_config', x) <= Here(to_config, x) + 1
                 /\ Deal(o) # Deal(x) => Here(to_config', x) <= Here(to_config, x)
      <4>1. Deal(o) \in ConfigMsgs /\ to_config \in [Gates -> Seq(ConfigMsgs)] /\ IsFiniteSet(Gates)
        BY <1>7, BaseFact, FiniteFact
      <4>2. /\ Here(Put(to_config, g, Deal(o)), x) <= Here(to_config, x) + 1
            /\ Deal(o) # Deal(x) => Here(Put(to_config, g, Deal(o)), x) <= Here(to_config, x)
        BY <4>1, NetPut
      <4> QED BY <2>1, <4>2, Zenon
    <3> QED BY <2>1, <3>1, DealIs, NumberFact, NumberNext
  <2>2. CASE s # None /\ to_game' = Put(to_game, <<g, s>>, Deal(o)) /\ UNCHANGED to_config
    <3>1. <<g, s>> \in Gates \X Games
      BY <1>5, <2>2
    <3>2. ASSUME NEW x
          PROVE  /\ Here(to_game', x) <= Here(to_game, x) + 1
                 /\ Deal(o) # Deal(x) => Here(to_game', x) <= Here(to_game, x)
      <4>1. /\ Deal(o) \in GameMsgs /\ to_game \in [Gates \X Games -> Seq(GameMsgs)]
            /\ IsFiniteSet(Gates \X Games)
        BY <1>7, BaseFact, FiniteFact
      <4> DEFINE k == <<g, s>>
      <4>2. k \in Gates \X Games
        BY <3>1
      <4>3. to_game' = Put(to_game, k, Deal(o))
        BY <2>2
      <4> HIDE DEF k
      <4>4. /\ Here(Put(to_game, k, Deal(o)), x) <= Here(to_game, x) + 1
            /\ Deal(o) # Deal(x) => Here(Put(to_game, k, Deal(o)), x) <= Here(to_game, x)
        BY <4>1, <4>2, NetPut
      <4> QED BY <4>3, <4>4, Zenon
    <3> QED BY <2>2, <3>2, DealIs, NumberFact, NumberNext
  <2> QED BY <1>6, <2>1, <2>2
<1>9. Early(o)' <= Early(o)
  <2>1. Here(to_gate', o) <= Here(to_gate, o) - 1
    BY <1>3, <1>4
  <2>2. o \in Payments /\ "exists" \in Sql /\ "insert" \in Sql
    BY PaymentFact
  <2> QED BY <1>1, <1>8, <2>1, <2>2, NumberFact, NumberNext DEF Early
<1> QED BY <1>1, <1>3, <1>8, <1>9, PaymentFact, OnceOn

\* A message to ConfigServer or to a game server that is about no order.
LEMMA OtherHere ==
    ASSUME NEW K, IsFiniteSet(K), NEW M, NEW net \in [K -> Seq(M)], NEW new, NEW k, NEW m \in M,
           new = Put(net, k, m), NEW o, m # Deal(o), Here(net, o) \in Nat
    PROVE  Here(new, o) <= Here(net, o)
<1>1. CASE k \in K
  BY <1>1, PutHere
<1>2. CASE k \notin K
  <2>1. new = net
    BY <1>2 DEF Put
  <2> QED BY <2>1
<1> QED BY <1>1, <1>2

LEMMA NotDeals ==
    \A p \in Players, o \in Orders :
        PlayerIn(p) # Deal(o) /\ PlayerOut(p) # Deal(o) /\ LogoutMsg(p) # Deal(o)
BY DEF PlayerIn, PlayerOut, LogoutMsg, Deal

LEMMA GateHearsOnce ==
    ASSUME Base, Base', Once, NEW p \in Players, GateHears(p) PROVE Once'
<1>1. UNCHANGED <<server_status, waiting, statements, found, paid, refund, to_gate, to_game>>
  BY DEF GateHears, db_vars, money_vars
<1>2. to_config' = to_config \/ \E g : to_config' = Put(to_config, g, PlayerIn(p))
  BY DEF GateHears
<1>3. PlayerIn(p) \in ConfigMsgs /\ to_config \in [Gates -> Seq(ConfigMsgs)] /\ IsFiniteSet(Gates)
  BY BaseFact, FiniteFact DEF ConfigMsgs
<1>4. ASSUME NEW o \in Orders PROVE Here(to_config', o) <= Here(to_config, o)
  <2>1. Here(to_config, o) \in Nat
    BY NumberFact
  <2>2. CASE to_config' = to_config
    BY <2>1, <2>2
  <2>3. CASE \E g : to_config' = Put(to_config, g, PlayerIn(p))
    BY <1>3, <2>1, <2>3, NotDeals, OtherHere
  <2> QED BY <1>2, <2>2, <2>3
<1> QED BY <1>1, <1>4, NumberFact, OnceQuiet

LEMMA OnClosedOnce ==
    ASSUME Base, Base', Once, NEW p \in Players, OnClosed(p) PROVE Once'
<1>1. UNCHANGED <<server_status, waiting, statements, found, paid, refund, to_gate>>
  BY DEF OnClosed, db_vars, money_vars
<1>2. /\ \E k : to_game' = Put(to_game, k, LogoutMsg(p))
      /\ \E g : to_config' = Put(to_config, g, PlayerOut(p))
  BY DEF OnClosed
<1>3. /\ PlayerOut(p) \in ConfigMsgs /\ to_config \in [Gates -> Seq(ConfigMsgs)] /\ IsFiniteSet(Gates)
      /\ LogoutMsg(p) \in GameMsgs /\ to_game \in [Gates \X Games -> Seq(GameMsgs)]
      /\ IsFiniteSet(Gates \X Games)
  BY BaseFact, FiniteFact DEF ConfigMsgs, GameMsgs
<1>4. ASSUME NEW o \in Orders
      PROVE  Here(to_config', o) <= Here(to_config, o) /\ Here(to_game', o) <= Here(to_game, o)
  <2>1. Here(to_config, o) \in Nat /\ Here(to_game, o) \in Nat
    BY NumberFact
  <2>2. Here(to_config', o) <= Here(to_config, o)
    BY <1>2, <1>3, <2>1, NotDeals, OtherHere
  <2>3. Here(to_game', o) <= Here(to_game, o)
    BY <1>2, <1>3, <2>1, NotDeals, OtherHere
  <2> QED BY <2>2, <2>3
<1> QED BY <1>1, <1>4, NumberFact, OnceQuiet

\* What was on the connection that broke is gone, and the greeting is about no
\* order.
LEMMA FilledHere ==
    ASSUME NEW K, IsFiniteSet(K), NEW M, NEW net \in [K -> Seq(M)], NEW k \in K,
           NEW N, NEW msgs \in Seq(N), NEW o, Deal(o) \notin N
    PROVE  Here([net EXCEPT ![k] = msgs], o) <= Here(net, o)
<1> DEFINE new == [net EXCEPT ![k] = msgs]
<1>1. new[k] = msgs /\ DOMAIN new = K /\ DOMAIN net = K /\ \A j \in K : j # k => new[j] = net[j]
  OBVIOUS
<1>2. \A i \in DOMAIN msgs : msgs[i] \in N
  BY LenProperties, ElementOfSeq
<1>3. Deals(new, o) \subseteq Deals(net, o)
  <2> HIDE DEF new
  <2>1. ASSUME NEW j \in K, NEW i \in DOMAIN new[j], new[j][i] = Deal(o)
        PROVE  i \in DOMAIN net[j] /\ net[j][i] = Deal(o)
    BY <1>1, <1>2, <2>1
  <2> QED BY <1>1, <2>1 DEF Deals
<1>4. IsFiniteSet(Deals(net, o)) /\ Cardinality(Deals(new, o)) <= Cardinality(Deals(net, o))
  <2> HIDE DEF new
  <2> QED BY <1>3, DealsFact, FS_Subset
<1> QED BY <1>4 DEF Here

LEMMA ReconnectOnce ==
    ASSUME Base, Base', Once, NEW g \in Gates, Reconnect(g) PROVE Once'
<1>1. UNCHANGED <<server_status, waiting, statements, found, paid, refund, to_game>>
  BY DEF Reconnect, db_vars, money_vars
<1>2. PICK hail \in Seq({PlayerIn(p) : p \in Players}) :
        to_config' = [to_config EXCEPT ![g] = hail] /\ to_gate' = [to_gate EXCEPT ![g] = <<>>]
  BY ReconnectFact
<1>3. <<>> \in Seq({PlayerIn(p) : p \in Players})
  BY EmptySeq
<1>4. ASSUME NEW o \in Orders
      PROVE  Here(to_config', o) <= Here(to_config, o) /\ Here(to_gate', o) <= Here(to_gate, o)
  <2>1. Deal(o) \notin {PlayerIn(p) : p \in Players}
    BY NotDeals
  <2>2. Here([to_config EXCEPT ![g] = hail], o) <= Here(to_config, o)
    BY <2>1, BaseFact, FiniteFact, FilledHere
  <2>3. Here([to_gate EXCEPT ![g] = <<>>], o) <= Here(to_gate, o)
    <3>1. to_gate \in [Gates -> Seq(DealMsgs)] /\ IsFiniteSet(Gates)
      BY BaseFact, FiniteFact
    <3> QED BY <1>3, <2>1, <3>1, FilledHere
  <2> QED BY <1>2, <2>2, <2>3, Zenon
<1> QED BY <1>1, <1>4, NumberFact, OnceQuiet

\* An order that is paid, or whose row is written, and its UPDATE posted.
LEMMA OnceDone ==
    ASSUME Base, Base', Once, NEW o \in Orders,
           UNCHANGED <<server_status, found, refund>>,
           \A k \in Sql, x \in Payments : x # o => statements'[k][x] = statements[k][x],
           \A x \in Orders : x # o => /\ Here(to_gate', x) <= Here(to_gate, x)
                                      /\ Here(to_config', x) <= Here(to_config, x)
                                      /\ Here(to_game', x) <= Here(to_game, x),
           \A x \in Payments : x # o => paid'[x] = paid[x] /\ waiting'[x] = waiting[x],
           statements'["order"][o] = statements["order"][o],
           Early(o)' <= Early(o) - 1, Marked(o)' = Marked(o) + 1, Times(o)' = Times(o) + 1
    PROVE  Once'
<1>1. OneWay(o)'
  BY WayDone DEF Once
<1>2. ASSUME NEW x \in Orders, x # o PROVE OneWay(x)'
  BY <1>2, PaymentFact, WaySame DEF Once
<1>3. ASSUME NEW r \in Refunds PROVE Back(r)'
  BY <1>3, PaymentFact, BackSame DEF Once
<1> QED BY <1>1, <1>2, <1>3 DEF Once

LEMMA GameHearsOnce ==
    ASSUME Base, Base', Once, NEW g \in Gates, NEW s \in Games, GameHears(g, s) PROVE Once'
<1>1. UNCHANGED <<server_status, waiting, found, refund, to_gate, to_config>>
  BY DEF GameHears
<1> DEFINE k == <<g, s>>
<1>2. /\ k \in Gates \X Games /\ to_game[k] # <<>> /\ to_game' = [to_game EXCEPT ![k] = Tail(@)]
      /\ \E msg : /\ msg = Head(to_game[k])
                  /\ \/ msg.type = "S_Logout" /\ LogsOut(s, msg.p)
                     \/ msg.type = "FS_ChangMoneyDeal" /\ Dealt(s, msg.o)
  BY DEF GameHears
<1> HIDE DEF k
<1>3. /\ to_game \in [Gates \X Games -> Seq(GameMsgs)] /\ IsFiniteSet(Gates \X Games)
  BY BaseFact, FiniteFact
<1>4. \A x : /\ Here(to_game', x) <= Here(to_game, x)
             /\ Head(to_game[k]) = Deal(x) => Here(to_game', x) <= Here(to_game, x) - 1
  BY <1>2, <1>3, TakenHere
<1>5. Head(to_game[k]) \in GameMsgs
  BY <1>2, <1>3, PopFact
<1>6. \/ UNCHANGED <<statements, paid>>
      \/ \E o \in Orders : /\ Head(to_game[k]) = Deal(o)
                           /\ Pay(o) /\ statements' = Post(statements, "mark_paid", o)
  BY <1>2, <1>5, MessageFact DEF LogsOut, Dealt
<1>7. CASE UNCHANGED <<statements, paid>>
  BY <1>1, <1>4, <1>7, NumberFact, OnceQuiet
<1>8. CASE \E o \in Orders : /\ Head(to_game[k]) = Deal(o)
                             /\ Pay(o) /\ statements' = Post(statements, "mark_paid", o)
  <2>1. PICK o \in Orders : /\ Head(to_game[k]) = Deal(o)
                            /\ Pay(o) /\ statements' = Post(statements, "mark_paid", o)
    BY <1>8
  <2>2. o \in Payments /\ "mark_paid" \in Sql /\ statements \in Statements
    BY BaseFact, PaymentFact
  <2>3. /\ statements'["mark_paid"][o] = statements["mark_paid"][o] + 1
        /\ \A j \in Sql, x \in Payments : j # "mark_paid" \/ x # o => statements'[j][x] = statements[j][x]
    BY <2>1, <2>2, PostFact
  <2>4. paid'[o] = paid[o] + 1 /\ \A x \in Payments : x # o => paid'[x] = paid[x]
    BY <2>1, <2>2, PaidFact
  <2>5. Here(to_game', o) <= Here(to_game, o) - 1
    BY <1>4, <2>1
  <2>6. Early(o)' <= Early(o) - 1
    BY <1>1, <2>2, <2>3, <2>5, NumberFact, NumberNext, PaymentFact DEF Early
  <2>7. Marked(o)' = Marked(o) + 1
    BY <2>2, <2>3, NumberFact, PaymentFact DEF Marked
  <2>8. Times(o)' = Times(o) + 1
    BY <1>1, <2>2, <2>4, NumberFact DEF Times
  <2>9. statements'["order"][o] = statements["order"][o]
    BY <2>2, <2>3, PaymentFact
  <2> QED BY <1>1, <1>4, <2>3, <2>4, <2>6, <2>7, <2>8, <2>9, NumberFact, OnceDone
<1> QED BY <1>6, <1>7, <1>8

LEMMA RunInsertOnce ==
    ASSUME Base, Base', Once, NEW q \in Payments, RunInsert(q) PROVE Once'
<1>1. UNCHANGED <<server_status, found, paid, refund, to_gate, to_config, to_game>>
  BY DEF RunInsert, money_vars, link_vars
<1>2. /\ statements'["insert"][q] = statements["insert"][q] - 1
      /\ q \in Orders => statements'["mark_put_down"][q] = statements["mark_put_down"][q] + 1
      /\ \A i \in Sql, x \in Payments :
           (i # "insert" /\ i # "mark_put_down") \/ x # q => statements'[i][x] = statements[i][x]
      /\ waiting'[q] = waiting[q] + 1
      /\ \A x \in Payments : x # q => waiting'[x] = waiting[x]
  BY RunInsertFact
<1>3. Times(q)' = Times(q) + 1
  BY <1>1, <1>2, NumberFact DEF Times
<1>4. CASE q \in Orders
  <2>1. Early(q)' <= Early(q) - 1
    BY <1>1, <1>2, <1>4, NumberFact, NumberNext, PaymentFact DEF Early
  <2>2. Marked(q)' = Marked(q) + 1
    BY <1>2, <1>4, NumberFact, PaymentFact DEF Marked
  <2>3. statements'["order"][q] = statements["order"][q]
    BY <1>2, PaymentFact
  <2> QED BY <1>1, <1>2, <1>3, <1>4, <2>1, <2>2, <2>3, NumberFact, OnceDone
<1>5. CASE q \in Refunds
  <2>1. ASSUME NEW o \in Orders PROVE OneWay(o)'
    <3>1. o # q /\ o \in Payments
      BY <1>5, PaymentFact
    <3> QED BY <1>1, <1>2, <3>1, NumberFact, WaySame DEF Once
  <2>2. ASSUME NEW r \in Refunds, r # q PROVE Back(r)'
    BY <1>1, <1>2, <2>2, PaymentFact, BackSame DEF Once
  <2>3. Returned(q)' = Returned(q)
    BY <1>2, <1>3, <1>5, NumberFact, PaymentFact DEF Returned
  <2>4. Back(q)'
    BY <1>1, <1>5, <2>3 DEF Once, Back
  <2> QED BY <2>1, <2>2, <2>4 DEF Once
<1> QED BY <1>4, <1>5 DEF Payments

LEMMA RunMarkOnce ==
    ASSUME Base, Base', Once, NEW p \in Players, NEW q \in Payments, RunMark(p, q) PROVE Once'
<1>1. UNCHANGED <<server_status, statements, found, refund, to_gate, to_config, to_game>>
  BY DEF RunMark, link_vars
<1>2. \A x \in Payments : Times(x)' = Times(x)
  <2>1. ASSUME NEW x \in Payments PROVE waiting'[x] + paid'[x] = waiting[x] + paid[x]
    <3>1. CASE x = q
      BY <3>1, RunMarkFact, NumberFact
    <3>2. CASE x # q
      BY <3>2, RunMarkFact
    <3> QED BY <3>1, <3>2
  <2> QED BY <2>1, NumberFact, NumberNext DEF Times
<1>3. ASSUME NEW o \in Orders PROVE OneWay(o)'
  <2>1. Early(o)' = Early(o) /\ Marked(o)' = Marked(o)
    BY <1>1 DEF Early, Marked
  <2> QED BY <1>1, <1>2, <2>1, NumberFact, PaymentFact, WayQuiet DEF Once
<1>4. ASSUME NEW r \in Refunds PROVE Back(r)'
  BY <1>1, <1>2, PaymentFact DEF Once, Back, Returned
<1> QED BY <1>3, <1>4 DEF Once

LEMMA RunStatusOnce ==
    ASSUME Base, Base', Once, NEW o \in Orders, RunStatus(o) PROVE Once'
<1>1. UNCHANGED <<waiting, found, paid, refund, to_gate, to_config, to_game>>
  BY DEF RunStatus, money_vars, link_vars
<1>2. PICK k \in {"mark_paid", "mark_put_down"} :
        /\ statements[k][o] > 0 /\ statements'[k][o] = statements[k][o] - 1
        /\ \A i \in Sql, x \in Payments : i # k \/ x # o => statements'[i][x] = statements[i][x]
        /\ server_status'[o] # 0
        /\ \A x \in Orders : x # o => server_status'[x] = server_status[x]
  BY RunStatusFact
<1>3. k \in Sql /\ o \in Payments
  BY PaymentFact
<1>4. Marked(o)' = Marked(o) - 1
  <2>1. CASE k = "mark_paid"
    BY <1>2, <1>3, <2>1, NumberFact, PaymentFact DEF Marked
  <2>2. CASE k = "mark_put_down"
    BY <1>2, <1>3, <2>2, NumberFact, PaymentFact DEF Marked
  <2> QED BY <2>1, <2>2
<1>5. /\ statements'["order"][o] = statements["order"][o]
      /\ statements'["exists"][o] = statements["exists"][o]
      /\ statements'["insert"][o] = statements["insert"][o]
  BY <1>2, <1>3, PaymentFact
<1>6. Early(o)' = Early(o) /\ Times(o)' = Times(o)
  BY <1>1, <1>5 DEF Early, Times
<1>7. OneWay(o)'
  BY <1>2, <1>4, <1>5, <1>6, WayStatus DEF Once
<1>8. ASSUME NEW x \in Orders, x # o PROVE OneWay(x)'
  BY <1>1, <1>2, <1>8, NumberFact, PaymentFact, WaySame DEF Once
<1>9. ASSUME NEW r \in Refunds PROVE Back(r)'
  BY <1>1, <1>2, <1>9, PaymentFact, BackSame DEF Once
<1> QED BY <1>7, <1>8, <1>9 DEF Once

LEMMA RunOrderOnce ==
    ASSUME Base, Base', Once, NEW o \in Orders, RunOrder(o) PROVE Once'
<1>1. UNCHANGED <<server_status, waiting, paid, refund, to_gate, to_config, to_game>>
  BY DEF RunOrder, money_vars
<1>2. "order" \in Sql /\ o \in Payments /\ statements \in Statements
  BY BaseFact, PaymentFact
<1>3. /\ statements'["order"][o] = statements["order"][o] - 1
      /\ \A j \in Sql, x \in Payments : j # "order" \/ x # o => statements'[j][x] = statements[j][x]
  BY <1>2, TakenFact DEF RunOrder
<1>4. /\ found'[o] = found[o] \/ (server_status[o] = 0 /\ found'[o] = found[o] + 1)
      /\ \A x \in Orders : x # o => found'[x] = found[x]
  <2>1. found' = [found EXCEPT ![o] = @ + 1] \/ found' = found
    BY DEF RunOrder
  <2>2. server_status[o] = 0 \/ found' = found
    BY DEF RunOrder, Payable
  <2> QED BY <2>1, <2>2 DEF Base, Rows
<1>5. Early(o)' = Early(o) \/ (server_status[o] = 0 /\ Early(o)' = Early(o) + 1)
  <2>1. /\ statements'["exists"][o] = statements["exists"][o]
        /\ statements'["insert"][o] = statements["insert"][o]
    BY <1>2, <1>3, PaymentFact
  <2>2. CASE found'[o] = found[o]
    BY <1>1, <2>1, <2>2 DEF Early
  <2>3. CASE server_status[o] = 0 /\ found'[o] = found[o] + 1
    BY <1>1, <1>2, <2>1, <2>3, NumberFact, PaymentFact DEF Early
  <2> QED BY <1>4, <2>2, <2>3
<1>6. Marked(o)' = Marked(o) /\ Times(o)' = Times(o)
  BY <1>1, <1>2, <1>3, PaymentFact DEF Marked, Times
<1>7. OneWay(o)'
  BY <1>1, <1>3, <1>5, <1>6, WayOrder DEF Once
<1>8. ASSUME NEW x \in Orders, x # o PROVE OneWay(x)'
  BY <1>1, <1>3, <1>4, <1>8, NumberFact, PaymentFact, WaySame DEF Once
<1>9. ASSUME NEW r \in Refunds PROVE Back(r)'
  BY <1>1, <1>2, <1>3, <1>9, PaymentFact, BackSame DEF Once
<1> QED BY <1>7, <1>8, <1>9 DEF Once

LEMMA RunExistsOnce ==
    ASSUME Base, Base', Once, NEW q \in Payments, RunExists(q) PROVE Once'
<1>1. UNCHANGED <<server_status, waiting, found, paid, refund, to_gate, to_config, to_game>>
  BY DEF RunExists, money_vars, link_vars
<1>2. /\ "exists" \in Sql /\ "insert" \in Sql /\ statements \in Statements /\ statements["exists"][q] > 0
      /\ statements' = Taken("exists", q) \/ statements' = Post(Taken("exists", q), "insert", q)
  BY BaseFact, PaymentFact DEF RunExists
<1>3. /\ statements'["exists"][q] + statements'["insert"][q] <= statements["exists"][q] + statements["insert"][q]
      /\ \A i \in Sql, x \in Payments :
           (i # "exists" /\ i # "insert") \/ x # q => statements'[i][x] = statements[i][x]
  <2>1. CASE statements' = Taken("exists", q)
    <3>1. /\ statements'["exists"][q] = statements["exists"][q] - 1
          /\ \A i \in Sql, x \in Payments : i # "exists" \/ x # q => statements'[i][x] = statements[i][x]
      BY <1>2, <2>1, TakenFact
    <3> QED BY <1>2, <3>1, NumberFact
  <2>2. CASE statements' = Post(Taken("exists", q), "insert", q)
    <3>1. /\ Post(Taken("exists", q), "insert", q)["exists"][q] = statements["exists"][q] - 1
          /\ Post(Taken("exists", q), "insert", q)["insert"][q] = statements["insert"][q] + 1
          /\ \A i \in Sql, x \in Payments :
               (i # "exists" /\ i # "insert") \/ x # q =>
                 Post(Taken("exists", q), "insert", q)[i][x] = statements[i][x]
      BY <1>2, InsteadFact
    <3>2. /\ statements'["exists"][q] = statements["exists"][q] - 1
          /\ statements'["insert"][q] = statements["insert"][q] + 1
          /\ \A i \in Sql, x \in Payments :
               (i # "exists" /\ i # "insert") \/ x # q => statements'[i][x] = statements[i][x]
      BY <2>2, <3>1, Zenon
    <3> QED BY <1>2, <3>2, NumberFact
  <2> QED BY <1>2, <2>1, <2>2
<1>4. CASE q \in Orders
  <2>1. Early(q)' <= Early(q)
    BY <1>1, <1>2, <1>3, <1>4, NumberFact, NumberNext, PaymentFact DEF Early
  <2>2. \A k \in {"order", "mark_paid", "mark_put_down"} : statements'[k][q] = statements[k][q]
    BY <1>3, PaymentFact
  <2> QED BY <1>1, <1>3, <1>4, <2>1, <2>2, NumberFact, OnceOn
<1>5. CASE q \in Refunds
  <2>1. ASSUME NEW o \in Orders PROVE OneWay(o)'
    <3>1. o # q /\ o \in Payments
      BY <1>5, PaymentFact
    <3> QED BY <1>1, <1>3, <3>1, NumberFact, WaySame DEF Once
  <2>2. ASSUME NEW r \in Refunds, r # q PROVE Back(r)'
    BY <1>1, <1>3, <2>2, PaymentFact, BackSame DEF Once
  <2>3. Returned(q)' <= Returned(q) /\ Returned(q)' \in Nat /\ Returned(q) \in Nat
    <3>1. Times(q)' = Times(q)
      BY <1>1 DEF Times
    <3> QED BY <1>2, <1>3, <3>1, NumberFact, NumberNext DEF Returned
  <2>4. Back(q)'
    BY <1>1, <1>5, <2>3 DEF Once, Back
  <2> QED BY <2>1, <2>2, <2>4 DEF Once
<1> QED BY <1>4, <1>5 DEF Payments

LEMMA CashMoneyOnce ==
    ASSUME Base, Base', Once, NEW r \in Refunds, NEW s \in Games, CashMoney(r, s) PROVE Once'
<1>1. UNCHANGED <<server_status, waiting, found, paid, statements, to_gate, to_config, to_game>>
  BY DEF CashMoney, db_vars, link_vars
<1>2. \A x \in Refunds : refund'[x] = "done" <=> refund[x] = "done"
  BY NoneFact DEF CashMoney, Base, Rows
<1>3. ASSUME NEW o \in Orders PROVE OneWay(o)'
  BY <1>1, NumberFact, PaymentFact, WaySame DEF Once
<1>4. ASSUME NEW x \in Refunds PROVE Back(x)'
  BY <1>1, <1>2, PaymentFact, BackSame DEF Once
<1> QED BY <1>3, <1>4 DEF Once

\* The database's answer about a refund comes once.
LEMMA OnDsCashMoneyOnce ==
    ASSUME Base, Base', Once, NEW r \in Refunds, OnDsCashMoney(r) PROVE Once'
<1>1. UNCHANGED <<server_status, waiting, found, to_gate, to_config, to_game>>
  BY DEF OnDsCashMoney, link_vars
<1>2. /\ refund[r] # "done" /\ refund'[r] = "done"
      /\ \A x \in Refunds : x # r => refund'[x] = refund[x]
  BY NoneFact DEF OnDsCashMoney, Base, Rows
<1>3. r \in Payments /\ "exists" \in Sql /\ "insert" \in Sql /\ statements \in Statements
  BY BaseFact, PaymentFact
<1>4. /\ \A k \in Sql, x \in Payments : x # r => statements'[k][x] = statements[k][x]
      /\ \A x \in Payments : x # r => paid'[x] = paid[x]
      /\ Returned(r)' = Returned(r) + 1
  <2>1. CASE Pay(r) /\ UNCHANGED statements
    <3>1. paid'[r] = paid[r] + 1 /\ \A x \in Payments : x # r => paid'[x] = paid[x]
      BY <1>3, <2>1, PaidFact
    <3> QED BY <1>1, <1>3, <2>1, <3>1, NumberFact DEF Returned, Times
  <2>2. CASE statements' = Post(statements, "exists", r) /\ UNCHANGED paid
    <3>1. /\ statements'["exists"][r] = statements["exists"][r] + 1
          /\ \A j \in Sql, x \in Payments : j # "exists" \/ x # r => statements'[j][x] = statements[j][x]
      BY <1>3, <2>2, PostFact
    <3>2. statements'["insert"][r] = statements["insert"][r] /\ Times(r)' = Times(r)
      BY <1>1, <1>3, <2>2, <3>1 DEF Times
    <3>3. statements["exists"][r] \in Nat /\ statements["insert"][r] \in Nat /\ Times(r) \in Nat
      BY <1>3, NumberFact
    <3>4. Returned(r)' = Returned(r) + 1
      BY <3>1, <3>2, <3>3 DEF Returned
    <3> QED BY <2>2, <3>1, <3>4
  <2> QED BY <2>1, <2>2 DEF OnDsCashMoney
<1>5. ASSUME NEW o \in Orders PROVE OneWay(o)'
  <2>1. o # r /\ o \in Payments
    BY PaymentFact
  <2> QED BY <1>1, <1>4, <2>1, NumberFact, WaySame DEF Once
<1>6. ASSUME NEW x \in Refunds, x # r PROVE Back(x)'
  BY <1>1, <1>2, <1>4, <1>6, PaymentFact, BackSame DEF Once
<1>7. Back(r)'
  <2>1. Returned(r) = 0
    BY <1>2 DEF Once, Back
  <2> QED BY <1>2, <1>4, <2>1 DEF Back
<1> QED BY <1>5, <1>6, <1>7 DEF Once

LEMMA NextOnce == AsksAtOnce <= 1 => (Base /\ Base' /\ Once /\ [Next]_vars => Once')
<1> SUFFICES ASSUME AsksAtOnce <= 1, Base, Base', Once, [Next]_vars PROVE Once'
  OBVIOUS
<1>1. ASSUME NEW p \in Players, RunRows(p) \/ LoadDone(p) PROVE Once'
  BY <1>1, OnceStill DEF RunRows, LoadDone, money_vars, link_vars
<1>2. ASSUME NEW p \in Players, NEW g \in Gates, NEW s \in Games, LetIn(p, g, s) PROVE Once'
  BY <1>2, OnceStill DEF LetIn, money_vars
<1>3. ASSUME NEW p \in Players, NEW s \in Games, NEW t \in Games,
             ChangeGame(p, s, t) \/ LeaveTable(s, p) PROVE Once'
  BY <1>3, OnceStill DEF ChangeGame, LeaveTable, db_vars, money_vars, link_vars
<1>4. CASE Delivers
  BY <1>1, <1>4, PaymentFact, OnDfChangMoneyOnce, ConfigHearsOnce, GateDealsOnce, GateHearsOnce,
     GameHearsOnce, OnDsCashMoneyOnce, RunOrderOnce, RunExistsOnce, RunInsertOnce, RunStatusOnce,
     RunMarkOnce DEF Delivers
<1>5. CASE Plays
  BY <1>2, <1>3, <1>5, AskOnce, OnClosedOnce, ReconnectOnce, CashMoneyOnce DEF Plays
<1>6. CASE UNCHANGED vars
  BY <1>6, OnceStill DEF vars, db_vars, money_vars, link_vars
<1> QED BY <1>4, <1>5, <1>6 DEF Next

LEMMA InitOnce == Init => Once
<1> SUFFICES ASSUME Init PROVE Once
  OBVIOUS
<1>1. \A k \in Sql, q \in Payments : statements[k][q] = 0
  BY DEF Init
<1>2. \A q \in Payments : Times(q) = 0
  BY DEF Init, Times
<1>3. ASSUME NEW o \in Orders PROVE Early(o) = 0 /\ Marked(o) = 0
  <2>1. Deals(to_gate, o) = {} /\ Deals(to_config, o) = {} /\ Deals(to_game, o) = {}
    BY DEF Init, Deals
  <2>2. Cardinality({}) = 0
    BY FS_EmptySet
  <2>3. found[o] = 0
    BY DEF Init
  <2> QED BY <1>1, <2>1, <2>2, <2>3, PaymentFact DEF Early, Marked, Here
<1>4. \A o \in Orders : OneWay(o)
  BY <1>1, <1>2, <1>3, PaymentFact DEF OneWay
<1>5. \A r \in Refunds : Back(r)
  BY <1>1, <1>2, PaymentFact DEF Back, Returned
<1> QED BY <1>4, <1>5 DEF Once

\* Nothing is added to a bank twice, whichever way it takes, as long as the web
\* asks for an order only when nothing is under way for it.
THEOREM PaidOnceSafe == ASSUME AsksAtOnce <= 1 PROVE Spec => []PaidOnce
<1>1. Base /\ Once => PaidOnce
  <2> SUFFICES ASSUME Base, Once, NEW q \in Payments PROVE paid[q] <= 1
    BY DEF PaidOnce
  <2>1. Times(q) <= 1
    <3>1. CASE q \in Orders
      BY <3>1 DEF Once, OneWay
    <3>2. CASE q \in Refunds
      BY <3>2, NumberFact, PaymentFact DEF Once, Back, Returned
    <3> QED BY <3>1, <3>2 DEF Payments
  <2> QED BY <2>1, NumberFact DEF Times
<1>2. Base /\ Base' /\ Once /\ [Next]_vars => Once'
  BY NextOnce
<1> QED BY <1>1, <1>2, InitOnce, BaseInvariance, PTL DEF Spec
=============================================================================
