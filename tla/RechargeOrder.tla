--------------------------- MODULE RechargeOrder ---------------------------
(***************************************************************************)
(* The way of a recharge from the web to a player's bank, and of the       *)
(* refund of a cash-out the database has refused.  ConfigServer has the    *)
(* database look at the order, looks up the gate the player is at          *)
(* (m_mpPlayer_Gate, which the gates report to it) and hands the order     *)
(* over to him by way of gate and game server; where one of them finds     *)
(* that he is not there it goes to the database, is put down in            *)
(* t_re_recharge and is paid when his data is loaded the next time.        *)
(*                                                                         *)
(* The database server is reduced to its pool for the recharges: a         *)
(* statement is pending until one of the pool's threads runs it, in any    *)
(* order, and the message that asks for it is part of the pending one, as  *)
(* nothing depends on the order of these messages.  The web's answers      *)
(* (DF_Reply) are left out.  Who is let in when is AccountLogin, and what  *)
(* becomes of a balance between two saves is PlayerMoney.                  *)
(***************************************************************************)
EXTENDS Integers, Sequences, FiniteSets, SequencesExt

CONSTANTS
    Orders,        \* t_recharge_order.id, with type LOG_MONEY_OPT_TYPE_RECHARGE_MONEY
    Refunds,       \* cash-outs of which the INSERT into t_cash fails
    Players,
    Owner,         \* the guid of an order or a refund
    Gates,
    Games,         \* game servers
    None,          \* nobody, nowhere; the -1 of GetPlayer_Gate
    Zero,          \* server_id_ of a ConfigSession that was never told one
    AsksAtOnce,    \* bound: what is under way for an order when the web asks for it is less
    MaxMoves,      \* bound: logins and changes of the game server
    MaxBreaks      \* bound: connections between a gate and ConfigServer that break

Payments == Orders \union Refunds

ASSUME RechargeAssumption ==
    /\ Orders \intersect Refunds = {}
    /\ Owner \in [Payments -> Players]
    /\ IsFiniteSet(Players) /\ IsFiniteSet(Gates) /\ IsFiniteSet(Games)
    /\ None \notin Gates \union Games \union {Zero, "loading", "ready", "done"}
    /\ Zero \notin Gates /\ "done" \notin Games
    /\ {AsksAtOnce, MaxMoves, MaxBreaks} \subseteq Nat

VARIABLES
    server_status,   \* of t_recharge_order: 0, 1 paid, 6 put down
    waiting,         \* rows of t_re_recharge with status 0, by what they are for
    done,            \* rows with status 1
    statements,      \* statements posted to the pool of the recharges
    load,            \* the load of a player's data under way
    found,           \* DF_ChangMoney on the way to ConfigServer
    m_mpPlayer_Gate, \* ConfigServer
    config,          \* ConfigServer's session with a gate: "gate" or "unknown" (type_ 0)
    to_gate, to_config, to_game,
    to_client,       \* LC_Login or SC_EnterRoomAndSitDown on the way to the player's gate
    client_session_, \* of each gate: the game server of the session of a player
    live,            \* the gate at which the player's connection is open
    obj,             \* the player's object in a game server; "loading": without pb_base_info
    refund,          \* the game server that waits for DS_CashMoney
    asked,           \* the orders WF_Recharge has come for
    paid,            \* how often an order or a refund has been added to a bank
    moves, breaks

db_vars == <<server_status, waiting, done, statements, load>>
link_vars == <<found, to_gate, to_config, to_game, to_client>>
player_vars == <<client_session_, live, obj>>
money_vars == <<refund, asked, paid>>
config_vars == <<m_mpPlayer_Gate, config>>
vars == <<db_vars, link_vars, player_vars, money_vars, config_vars, moves, breaks>>

Sql == {"order", "exists", "insert", "mark_paid", "mark_put_down"}

PlayerIn(p) == [type |-> "GF_PlayerIn", p |-> p]
PlayerOut(p) == [type |-> "GF_PlayerOut", p |-> p]
Deal(o) == [type |-> "FS_ChangMoneyDeal", o |-> o]
LogoutMsg(p) == [type |-> "S_Logout", p |-> p]

Init ==
    /\ server_status = [o \in Orders |-> 0]
    /\ waiting = [q \in Payments |-> 0] /\ done = [q \in Payments |-> 0]
    /\ statements = [k \in Sql |-> [q \in Payments |-> 0]]
    /\ load = [p \in Players |-> None]
    /\ found = [o \in Orders |-> 0]
    /\ m_mpPlayer_Gate = [p \in Players |-> None]
    /\ config = [g \in Gates |-> "gate"]
    /\ to_gate = [g \in Gates |-> <<>>] /\ to_config = [g \in Gates |-> <<>>]
    /\ to_game = [k \in Gates \X Games |-> <<>>]
    /\ to_client = [p \in Players |-> None]
    /\ client_session_ = [g \in Gates |-> [p \in Players |-> None]]
    /\ live = [p \in Players |-> None]
    /\ obj = [s \in Games |-> [p \in Players |-> None]]
    /\ refund = [r \in Refunds |-> None]
    /\ asked = {} /\ paid = [q \in Payments |-> 0]
    /\ moves = 0 /\ breaks = 0

Post(st, k, q) == [st EXCEPT ![k][q] = @ + 1]
Taken(k, q) == [statements EXCEPT ![k][q] = @ - 1]
Put(net, k, msg) == [net EXCEPT ![k] = Append(@, msg)]
Pay(q) == paid' = [paid EXCEPT ![q] = @ + 1]
Loaded(s, p) == obj[s][p] = "ready"

(* What is under way for an order or a refund. *)
Deals(net, q) == UNION {{k} \X {i \in DOMAIN net[k] : net[k][i] = Deal(q)} : k \in DOMAIN net}
Underway(q) ==
    statements["order"][q] + statements["exists"][q] + statements["insert"][q]
      + statements["mark_paid"][q] + statements["mark_put_down"][q] + (IF q \in Orders THEN found[q] ELSE 0)
      + Cardinality(Deals(to_gate, q)) + Cardinality(Deals(to_config, q)) + Cardinality(Deals(to_game, q))

-----------------------------------------------------------------------------
(* The web and ConfigServer *)

(* on_WF_Recharge: FD_ChangMoney, for which on_fd_changemoney posts a SELECT. *)
Ask(o) ==
    /\ Underway(o) < AsksAtOnce
    /\ asked' = asked \union {o}
    /\ statements' = Post(statements, "order", o)
    /\ UNCHANGED <<server_status, waiting, done, load, link_vars, player_vars, refund, paid,
                   config_vars, moves, breaks>>

(* on_DF_ChangMoney: a gate that cannot be reached is not noticed. *)
OnDfChangMoney(o) ==
    /\ found[o] > 0
    /\ found' = [found EXCEPT ![o] = @ - 1]
    /\ LET g == m_mpPlayer_Gate[Owner[o]] IN
       \/ /\ g = None
          /\ statements' = Post(statements, "exists", o)
          /\ UNCHANGED to_gate
       \/ /\ g \in Gates /\ config[g] = "gate"
          /\ to_gate' = Put(to_gate, g, Deal(o))
          /\ UNCHANGED statements
       \/ /\ g # None /\ (g \in Gates => config[g] # "gate")
          /\ UNCHANGED <<statements, to_gate>>
    /\ UNCHANGED <<server_status, waiting, done, load, to_config, to_game, to_client, player_vars,
                   money_vars, config_vars, moves, breaks>>

(* on_GF_PlayerIn, on_GF_PlayerOut, on_FS_ChangMoneyDeal. *)
SetPlayer_Gate(p, g) == [m_mpPlayer_Gate EXCEPT ![p] = IF config[g] = "gate" THEN g ELSE Zero]
Bug_ErasePlayer_Gate(p) == m_mpPlayer_Gate
ErasePlayer_Gate(p) == [m_mpPlayer_Gate EXCEPT ![p] = None]

ConfigHears(g) ==
    /\ to_config[g] # <<>>
    /\ to_config' = [to_config EXCEPT ![g] = Tail(@)]
    /\ LET msg == Head(to_config[g]) IN
       \/ /\ msg.type = "GF_PlayerIn" /\ m_mpPlayer_Gate' = SetPlayer_Gate(msg.p, g)
          /\ UNCHANGED statements
       \/ /\ msg.type = "GF_PlayerOut" /\ m_mpPlayer_Gate' = ErasePlayer_Gate(msg.p)
          /\ UNCHANGED statements
       \/ /\ msg.type = "FS_ChangMoneyDeal" /\ statements' = Post(statements, "exists", msg.o)
          /\ UNCHANGED m_mpPlayer_Gate
    /\ UNCHANGED <<server_status, waiting, done, load, found, to_gate, to_game, to_client,
                   player_vars, money_vars, config, moves, breaks>>

-----------------------------------------------------------------------------
(* The gates *)

(* on_FS_ChangMoneyDeal, with find_gameid_by_guid. *)
NotHere(g, o) == to_config' = Put(to_config, g, Deal(o))

GateDeals(g) ==
    /\ to_gate[g] # <<>>
    /\ to_gate' = [to_gate EXCEPT ![g] = Tail(@)]
    /\ LET o == Head(to_gate[g]).o
           s == client_session_[g][Owner[o]] IN
       \/ s = None /\ NotHere(g, o) /\ UNCHANGED to_game
       \/ s # None /\ to_game' = Put(to_game, <<g, s>>, Deal(o)) /\ UNCHANGED to_config
    /\ UNCHANGED <<db_vars, found, to_client, player_vars, money_vars, config_vars, moves, breaks>>

(* LC_Login and SC_EnterRoomAndSitDown, from a game server. *)
GateHears(p) ==
    /\ to_client[p] # None
    /\ to_client' = [to_client EXCEPT ![p] = None]
    /\ LET g == to_client[p].gate IN
       /\ client_session_' = [client_session_ EXCEPT ![g][p] = to_client[p].game]
       /\ to_config' = IF to_client[p].type = "LC_Login" THEN Put(to_config, g, PlayerIn(p)) ELSE to_config
    /\ UNCHANGED <<db_vars, found, to_gate, to_game, live, obj, money_vars, config_vars, moves, breaks>>

(* GateClientSession::on_closed.  A session that was kicked, user_data_, *)
(* stays in client_session_.                                             *)
OnClosed(p) ==
    /\ live[p] # None /\ to_client[p] = None
    /\ LET g == live[p] IN
       /\ to_game' = Put(to_game, <<g, client_session_[g][p]>>, LogoutMsg(p))
       /\ to_config' = Put(to_config, g, PlayerOut(p))
       /\ \E user_data \in BOOLEAN :
            client_session_' = IF user_data THEN client_session_ ELSE [client_session_ EXCEPT ![g][p] = None]
    /\ live' = [live EXCEPT ![p] = None]
    /\ UNCHANGED <<db_vars, found, to_gate, to_client, obj, money_vars, config_vars, moves, breaks>>

(* The connection of a gate to ConfigServer breaks, with what is on it, and *)
(* on_connect of the next one tells who is there (SendOnLine).  It does not *)
(* ask for the configuration again, so that ConfigServer's new session has  *)
(* neither type nor number (on_S_RequestServerConfig).                      *)
Reconnect(g) ==
    /\ breaks < MaxBreaks /\ breaks' = breaks + 1
    /\ config' = [config EXCEPT ![g] = "unknown"]
    /\ to_gate' = [to_gate EXCEPT ![g] = <<>>]
    /\ LET here == SetToSeq({p \in Players : client_session_[g][p] # None}) IN
       to_config' = [to_config EXCEPT ![g] = [i \in DOMAIN here |-> PlayerIn(here[i])]]
    /\ UNCHANGED <<db_vars, found, to_game, to_client, player_vars, money_vars, m_mpPlayer_Gate, moves>>

-----------------------------------------------------------------------------
(* The game servers *)

(* The login server lets p in at gate g and game server s: what AccountLogin *)
(* shows is that p is out before, or has left his object at s behind, which  *)
(* he takes over.  A client asks for its data as soon as it is let in.       *)
Bug_CanEnter(p, s) == TRUE
CanEnter(p, s) == \A t \in Games : obj[t][p] = None \/ t = s
LoggingOut(p) == \E k \in Gates \X Games : Contains(to_game[k], LogoutMsg(p))

LetIn(p, g, s) ==
    /\ moves < MaxMoves /\ moves' = moves + 1
    /\ live[p] = None /\ ~LoggingOut(p) /\ load[p] = None
    /\ CanEnter(p, s)
    /\ live' = [live EXCEPT ![p] = g]
    /\ to_client' = [to_client EXCEPT ![p] = [type |-> "LC_Login", gate |-> g, game |-> s]]
    /\ IF obj[s][p] = None
       THEN /\ obj' = [obj EXCEPT ![s][p] = "loading"]
            /\ load' = [load EXCEPT ![p] = [game |-> s, read |-> FALSE, left |-> [q \in Payments |-> 0]]]
       ELSE UNCHANGED <<obj, load>>
    /\ UNCHANGED <<server_status, waiting, done, statements, found, to_gate, to_config, to_game,
                   client_session_, money_vars, config_vars, breaks>>

(* on_cs_change_game, taken as one step. *)
ChangeGame(p, s, t) ==
    /\ moves < MaxMoves /\ moves' = moves + 1
    /\ live[p] # None /\ to_client[p] = None
    /\ Loaded(s, p) /\ obj[t][p] = None
    /\ obj' = [obj EXCEPT ![s][p] = None, ![t][p] = "ready"]
    /\ to_client' = [to_client EXCEPT ![p] = [type |-> "SC_EnterRoomAndSitDown", gate |-> live[p], game |-> t]]
    /\ UNCHANGED <<db_vars, found, to_gate, to_config, to_game, client_session_, live, money_vars,
                   config_vars, breaks>>

(* logout: one who is playing stays, and his table logs him out when the    *)
(* hand is over.                                                            *)
LogsOut(s, p) ==
    /\ \/ obj' = [obj EXCEPT ![s][p] = None]
       \/ Loaded(s, p) /\ UNCHANGED obj
    /\ UNCHANGED <<statements, paid>>
LeaveTable(s, p) ==
    /\ Loaded(s, p) /\ live[p] = None
    /\ obj' = [obj EXCEPT ![s][p] = None]
    /\ UNCHANGED <<db_vars, link_vars, client_session_, live, money_vars, config_vars, moves, breaks>>

(* on_changmoney_deal.  For one who is not there it sends the message that  *)
(* is meant for a success, under the type of the other: the encoder raises  *)
(* an error at the first field that FD_ChangMoneyDeal does not have, and    *)
(* nothing is sent.                                                         *)
Dealt(s, o) ==
    \/ /\ Loaded(s, Owner[o]) /\ Pay(o)
       /\ statements' = Post(statements, "mark_paid", o)
       /\ UNCHANGED obj
    \/ ~Loaded(s, Owner[o]) /\ UNCHANGED <<obj, paid, statements>>

GameHears(g, s) ==
    /\ to_game[<<g, s>>] # <<>>
    /\ to_game' = [to_game EXCEPT ![<<g, s>>] = Tail(@)]
    /\ LET msg == Head(to_game[<<g, s>>]) IN
       \/ msg.type = "S_Logout" /\ LogsOut(s, msg.p)
       \/ msg.type = "FS_ChangMoneyDeal" /\ Dealt(s, msg.o)
    /\ UNCHANGED <<server_status, waiting, done, load, found, to_gate, to_config, to_client,
                   client_session_, live, refund, asked, config_vars, moves, breaks>>

(* on_cs_cash_money of a cash-out that on_sd_cash_money cannot insert, and  *)
(* on_ds_cash_money, for an order_id of -1.                                 *)
CashMoney(r, s) ==
    /\ refund[r] = None /\ Loaded(s, Owner[r]) /\ live[Owner[r]] # None
    /\ refund' = [refund EXCEPT ![r] = s]
    /\ UNCHANGED <<db_vars, link_vars, player_vars, asked, paid, config_vars, moves, breaks>>

OnDsCashMoney(r) ==
    /\ refund[r] \in Games
    /\ refund' = [refund EXCEPT ![r] = "done"]
    /\ \/ Loaded(refund[r], Owner[r]) /\ Pay(r) /\ UNCHANGED statements
       \/ ~Loaded(refund[r], Owner[r]) /\ statements' = Post(statements, "exists", r) /\ UNCHANGED paid
    /\ UNCHANGED <<server_status, waiting, done, load, link_vars, player_vars, asked, config_vars,
                   moves, breaks>>

-----------------------------------------------------------------------------
(* The pool of the recharges *)

(* The SELECT of on_fd_changemoney, with what it does with the row. *)
Bug_Payable(o) == TRUE
Payable(o) == server_status[o] = 0
RunOrder(o) ==
    /\ statements["order"][o] > 0
    /\ statements' = Taken("order", o)
    /\ found' = IF Payable(o) THEN [found EXCEPT ![o] = @ + 1] ELSE found
    /\ UNCHANGED <<server_status, waiting, done, load, to_gate, to_config, to_game, to_client,
                   player_vars, money_vars, config_vars, moves, breaks>>

(* insert_into_changemoney: the SELECT on t_re_recharge, which knows the    *)
(* refunds only by their order_id of -1, the INSERT, and the UPDATE after.  *)
SameKey(q) == IF q \in Orders THEN {q} ELSE Refunds
IsDeal(q) == \E r \in SameKey(q) : waiting[r] + done[r] > 0
Bug_RunExists(q) ==
    /\ statements["exists"][q] > 0
    /\ statements' =
         IF IsDeal(q) THEN Taken("exists", q)
         ELSE Post(IF q \in Orders THEN Post(Taken("exists", q), "mark_put_down", q) ELSE Taken("exists", q), "insert", q)
    /\ UNCHANGED <<server_status, waiting, done, load, link_vars, player_vars, money_vars,
                   config_vars, moves, breaks>>
RunExists(q) ==
    /\ statements["exists"][q] > 0
    /\ statements' = IF IsDeal(q) THEN Taken("exists", q) ELSE Post(Taken("exists", q), "insert", q)
    /\ UNCHANGED <<server_status, waiting, done, load, link_vars, player_vars, money_vars,
                   config_vars, moves, breaks>>

RunInsert(q) ==
    /\ statements["insert"][q] > 0
    /\ waiting' = [waiting EXCEPT ![q] = @ + 1]
    /\ statements' = IF q \in Orders THEN Post(Taken("insert", q), "mark_put_down", q) ELSE Taken("insert", q)
    /\ UNCHANGED <<server_status, done, load, link_vars, player_vars, money_vars, config_vars, moves, breaks>>

(* The UPDATE of on_sd_changemoney (1) and of insert_into_changemoney (6). *)
RunStatus(o) ==
    /\ \E k \in {"mark_paid", "mark_put_down"} :
         /\ statements[k][o] > 0
         /\ statements' = Taken(k, o)
         /\ server_status' = [server_status EXCEPT ![o] = IF k = "mark_paid" THEN 1 ELSE 6]
    /\ UNCHANGED <<waiting, done, load, link_vars, player_vars, money_vars, config_vars, moves, breaks>>

(* on_sd_query_player_data: the rows that wait for p are read, each of them *)
(* is marked and its money added, and DS_LoadPlayerData is sent.  The       *)
(* UPDATE that would set server_status to 1 compares serial_order_no with   *)
(* the id of the order, and finds nothing.                                  *)
RunRows(p) ==
    /\ load[p] # None /\ ~load[p].read
    /\ load' = [load EXCEPT ![p].read = TRUE,
                            ![p].left = [q \in Payments |-> IF Owner[q] = p THEN waiting[q] ELSE 0]]
    /\ UNCHANGED <<server_status, waiting, done, statements, link_vars, player_vars, money_vars,
                   config_vars, moves, breaks>>

RunMark(p, q) ==
    /\ load[p] # None /\ load[p].left[q] > 0
    /\ load' = [load EXCEPT ![p].left[q] = @ - 1]
    /\ waiting' = [waiting EXCEPT ![q] = @ - 1]
    /\ done' = [done EXCEPT ![q] = @ + 1]
    /\ Pay(q)
    /\ UNCHANGED <<server_status, statements, link_vars, player_vars, refund, asked, config_vars,
                   moves, breaks>>

LoadDone(p) ==
    /\ load[p] # None /\ load[p].read /\ \A q \in Payments : load[p].left[q] = 0
    /\ load' = [load EXCEPT ![p] = None]
    /\ obj' = [obj EXCEPT ![load[p].game][p] = IF @ = "loading" THEN "ready" ELSE @]
    /\ UNCHANGED <<server_status, waiting, done, statements, link_vars, client_session_, live,
                   money_vars, config_vars, moves, breaks>>

-----------------------------------------------------------------------------
Delivers ==
    \/ \E o \in Orders : OnDfChangMoney(o) \/ RunOrder(o) \/ RunStatus(o)
    \/ \E q \in Payments : RunExists(q) \/ RunInsert(q)
    \/ \E g \in Gates : ConfigHears(g) \/ GateDeals(g) \/ \E s \in Games : GameHears(g, s)
    \/ \E p \in Players : GateHears(p) \/ RunRows(p) \/ LoadDone(p) \/ \E q \in Payments : RunMark(p, q)
    \/ \E r \in Refunds : OnDsCashMoney(r)

Plays ==
    \/ \E o \in Orders : Ask(o)
    \/ \E p \in Players :
         \/ OnClosed(p)
         \/ \E g \in Gates, s \in Games : LetIn(p, g, s)
         \/ \E s, t \in Games : ChangeGame(p, s, t)
         \/ \E s \in Games : LeaveTable(s, p)
    \/ \E r \in Refunds, s \in Games : CashMoney(r, s)
    \/ \E g \in Gates : Reconnect(g)

Next == Delivers \/ Plays

(* The processes take their messages and the pool's threads their           *)
(* statements.  Nothing makes a player come or go, or the web ask.          *)
Fairness ==
    /\ \A o \in Orders : WF_vars(OnDfChangMoney(o)) /\ WF_vars(RunOrder(o)) /\ WF_vars(RunStatus(o))
    /\ \A q \in Payments : WF_vars(RunExists(q)) /\ WF_vars(RunInsert(q))
    /\ \A g \in Gates : WF_vars(ConfigHears(g)) /\ WF_vars(GateDeals(g))
    /\ \A g \in Gates, s \in Games : WF_vars(GameHears(g, s))
    /\ \A p \in Players : WF_vars(GateHears(p)) /\ WF_vars(RunRows(p)) /\ WF_vars(LoadDone(p))
    /\ \A p \in Players, q \in Payments : WF_vars(RunMark(p, q))

Spec == Init /\ [][Next]_vars /\ Fairness

-----------------------------------------------------------------------------
(* Properties *)

(* The variables have their types, and a player has at most one object in   *)
(* all game servers: the one an order is paid at.                           *)
TypeOK ==
    /\ server_status \in [Orders -> {0, 1, 6}]
    /\ waiting \in [Payments -> Nat] /\ done \in [Payments -> Nat]
    /\ statements \in [Sql -> [Payments -> Nat]]
    /\ found \in [Orders -> Nat] /\ asked \subseteq Orders /\ paid \in [Payments -> Nat]
    /\ m_mpPlayer_Gate \in [Players -> Gates \union {None, Zero}]
    /\ config \in [Gates -> {"gate", "unknown"}]
    /\ client_session_ \in [Gates -> [Players -> Games \union {None}]]
    /\ live \in [Players -> Gates \union {None}]
    /\ refund \in [Refunds -> Games \union {None, "done"}]
    /\ obj \in [Games -> [Players -> {None, "loading", "ready"}]]
    /\ \A p \in Players : Cardinality({s \in Games : obj[s][p] # None}) <= 1

(* An order or a refund is added to a bank at most once, whichever of the   *)
(* two ways it takes, as long as the web asks for one order at a time:      *)
(* what stands between is the server_status that on_fd_changemoney reads,   *)
(* and the row that insert_into_changemoney looks for.                      *)
PaidOnce == \A q \in Payments : paid[q] <= 1

(* An order that t_recharge_order counts as dealt with has been paid, or    *)
(* its row waits for the player; and a refund that nothing is under way for *)
(* any more has been, or its row does, unless the row of another refund,    *)
(* which has the same order_id, was taken for it.                           *)
Safe(q) == paid[q] + waiting[q] > 0
TakenForAnother(r) == \E x \in SameKey(r) \ {r} : waiting[x] + done[x] > 0
NothingForgotten ==
    /\ \A o \in Orders : server_status[o] # 0 => Safe(o)
    /\ \A r \in Refunds : refund[r] = "done" /\ Underway(r) = 0 => Safe(r) \/ TakenForAnother(r)

(* An order the web does not stop asking for is paid or put down, as long   *)
(* as ConfigServer knows the gates: an attempt may meet a player who is     *)
(* gone, or whose data is not loaded, and vanish, but not all of them do.   *)
RetryWins ==
    \A o \in Orders :
        [](\A g \in Gates : config[g] = "gate") /\ []<><<Ask(o)>>_vars => <>Safe(o)

(* What the comment at on_fd_changemoney says, a change of money that       *)
(* failed is inserted into the database: an order that was asked for and    *)
(* that nothing is under way for any more is paid or put down.              *)
FailedIsInserted == \A o \in asked : Underway(o) = 0 => server_status[o] # 0
=============================================================================
