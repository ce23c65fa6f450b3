----------------------------- MODULE PlayerMoney -----------------------------
(***************************************************************************)
(* The money of the players: kept in the memory of the game server a       *)
(* player is in (pb_base_info.bank), loaded from the database and saved to *)
(* it, carried along when the player changes the game server, and moved    *)
(* from one player to another by a transfer, which goes through the login  *)
(* server and Redis when the two are not in the same game server.          *)
(*                                                                         *)
(* The processes are the game servers, one for each type of game, a login  *)
(* server with its logic thread and its Redis thread, and the database     *)
(* server with its two pools of threads, one for the players' rows and one *)
(* for the recharges.  Links between processes are first in, first out;    *)
(* <<s, Redis>> is the queue of the Redis thread of game server s.         *)
(***************************************************************************)
EXTENDS Integers, Sequences, FiniteSets, SequencesExt

CONSTANTS
    Players,
    Servers,       \* game servers
    None,          \* no game server, no player object
    Nobody,        \* a guid that is not in t_player
    Start,         \* what every player has in t_player at the beginning
    Recharged,     \* the players with an unpaid row in t_re_recharge
    MaxTransfers,  \* bound on the transfers
    MaxMoves,      \* bound on the logins and the changes of server
    Threads,       \* threads of the pool for the players' rows
    Patient,       \* players wait for the answer to a load or a change of server: see Waits
    DbKeepsUp      \* the database server keeps up with the players: see Settled

ASSUME MoneyAssumption ==
    /\ IsFiniteSet(Players) /\ IsFiniteSet(Servers)
    /\ None \notin Servers \union [bank : Int, dirty : BOOLEAN, asked : BOOLEAN]
    /\ Nobody \notin Players /\ {"login", "db", "redis"} \intersect Servers = {}
    /\ Recharged \subseteq Players
    /\ Start \in Nat /\ MaxTransfers \in Nat /\ MaxMoves \in Nat
    /\ Threads \in Nat \ {0}
    /\ {Patient, DbKeepsUp} \subseteq BOOLEAN

Login == "login"
Db == "db"
Redis == "redis"
Links ==
    (Servers \X {Login}) \union ({Login} \X Servers) \union (Servers \X {Db})
      \union ({Db} \X Servers) \union {<<Login, Db>>} \union (Servers \X {Redis})

NotLoaded == -1     \* pb_base_info is nil

VARIABLES
    gameid,        \* Redis player_online_gameid
    obj,           \* init_player_ of each game server: what it knows of a player
    net,           \* the messages on each link
    lookups,       \* transfers waiting for the Redis thread of the login server
    found,         \* closures it sent back: the transfer and the server of its target
    bank,          \* t_player.bank
    orders,        \* t_re_recharge: the players whose row has status 0
    pool,          \* statements posted to the pool of the players' rows
    recharges,     \* statements posted to the pool of the recharges
    transfers,     \* how many transfers were accepted
    moves          \* how many logins and changes were asked for

login_vars == <<lookups, found>>
db_vars == <<bank, orders, pool, recharges>>
vars == <<gameid, obj, net, login_vars, db_vars, transfers, moves>>

(* A new player object. *)
Fresh(b) == [bank |-> b, dirty |-> FALSE, asked |-> FALSE]

(* Some players are in and loaded already. *)
Init ==
    /\ gameid \in [Players -> Servers \union {None}]
    /\ obj = [s \in Servers |-> [p \in Players |-> IF gameid[p] = s THEN Fresh(Start) ELSE None]]
    /\ net = [k \in Links |-> <<>>]
    /\ lookups = <<>> /\ found = <<>>
    /\ bank = [p \in Players |-> Start]
    /\ orders = Recharged
    /\ pool = <<>> /\ recharges = <<>>
    /\ transfers = 0 /\ moves = 0

-----------------------------------------------------------------------------
(* Messages *)

Put(n, k, m) == [n EXCEPT ![k] = Append(@, m)]
Took(k) == [net EXCEPT ![k] = Tail(@)]
Arrives(k, type) == net[k] # <<>> /\ Head(net[k]).type = type

LoginNotify(p) == [type |-> "LS_LoginNotify", p |-> p]
ChangeMsg(type, p, from, to, b) == [type |-> type, p |-> p, from |-> from, to |-> to, bank |-> b]
TransferMsg(p, s, to) == [type |-> "S_BankTransferByGuid", p |-> p, s |-> s, to |-> to]
Closure(p, s, to, at) == [type |-> "closure", p |-> p, s |-> s, to |-> to, at |-> at]
CreditMsg(p) == [type |-> "LS_BankTransferByGuid", p |-> p]
RefusedMsg(p) == [type |-> "DS_BankTransferByGuid", p |-> p]
QueryMsg(p) == [type |-> "SD_QueryPlayerData", p |-> p]
SaveMsg(p, b) == [type |-> "SD_SavePlayerData", p |-> p, bank |-> b]
LoadedMsg(p, b) == [type |-> "DS_LoadPlayerData", p |-> p, bank |-> b]
RedisMsg(p, s) == [type |-> "redis", p |-> p, s |-> s]

Present(s, p) == obj[s][p] # None
Loaded(s, p) == Present(s, p) /\ obj[s][p].bank # NotLoaded

(* A change of server of p is under way. *)
Changing(p) ==
    \E k \in Links : \E i \in DOMAIN net[k] :
        /\ net[k][i].type \in {"SS_ChangeGame", "LS_ChangeGameResult", "SL_ChangeGameResult"}
        /\ net[k][i].p = p

(* What a patient player's requests wait for. *)
Waits(s, p) == obj[s][p].asked \/ Changing(p)

(* The loads and saves of p that were asked for are done and answered.     *)
(* Game server and database have a direct link, and a message about p that *)
(* could overtake them goes through the login server.                      *)
Settled(p) ==
    /\ \A s \in Servers : \A i \in DOMAIN net[<<s, Db>>] : net[<<s, Db>>][i].p # p
    /\ \A i \in DOMAIN pool : pool[i].type = "add" \/ pool[i].p # p
    /\ \A i \in DOMAIN recharges : recharges[i].p # p
    /\ \A s \in Servers : \A i \in DOMAIN net[<<Db, s>>] :
         net[<<Db, s>>][i].type = "DS_LoadPlayerData" => net[<<Db, s>>][i].p # p

-----------------------------------------------------------------------------
(* Coming and going.  That one session of a player is in at a time, and    *)
(* that nothing of the last one is left when the next one is let in, is    *)
(* what AccountLogin shows.                                                *)

(* The login server lets p in: player_online_gameid, then LS_LoginNotify. *)
LetIn(p, s) ==
    /\ moves < MaxMoves
    /\ \A t \in Servers : ~Present(t, p)
    /\ \A t \in Servers : \A i \in DOMAIN net[<<Login, t>>] : net[<<Login, t>>][i] # LoginNotify(p)
    /\ Patient => ~Changing(p)
    /\ gameid' = [gameid EXCEPT ![p] = s]
    /\ net' = Put(net, <<Login, s>>, LoginNotify(p))
    /\ moves' = moves + 1
    /\ UNCHANGED <<obj, login_vars, db_vars, transfers>>

OnLsLoginNotify(s) ==
    /\ Arrives(<<Login, s>>, "LS_LoginNotify")
    /\ LET p == Head(net[<<Login, s>>]).p IN
       /\ DbKeepsUp => Settled(p)
       /\ obj' = [obj EXCEPT ![s][p] = Fresh(NotLoaded)]
       /\ net' = Took(<<Login, s>>)
       /\ UNCHANGED <<gameid, login_vars, db_vars, transfers, moves>>

(* CS_RequestPlayerInfo: a second one waits for the answer to the first. *)
RequestPlayerInfo(s, p) ==
    /\ Present(s, p) /\ ~obj[s][p].asked
    /\ Patient => ~Loaded(s, p) /\ ~Changing(p)
    /\ obj' = [obj EXCEPT ![s][p].asked = TRUE]
    /\ net' = Put(net, <<s, Db>>, QueryMsg(p))
    /\ UNCHANGED <<gameid, login_vars, db_vars, transfers, moves>>

(* What was loaded replaces pb_base_info; flag_base_info stays. *)
OnDsLoadPlayerData(s) ==
    /\ Arrives(<<Db, s>>, "DS_LoadPlayerData")
    /\ LET m == Head(net[<<Db, s>>]) IN
       obj' = IF Present(s, m.p)
                THEN [obj EXCEPT ![s][m.p].bank = m.bank, ![s][m.p].asked = FALSE]
                ELSE obj
    /\ net' = Took(<<Db, s>>)
    /\ UNCHANGED <<gameid, login_vars, db_vars, transfers, moves>>

(* As base_player:save would be without the test of flag_base_info *)
Bug_SavesAlways(n, s, p) == Put(n, <<s, Db>>, SaveMsg(p, obj[s][p].bank))
(* As logout and on_LS_ChangeGameResult would be without player:save *)
Bug_SavesNever(n, s, p) == n

(* base_player:save *)
Saves(n, s, p) ==
    IF obj[s][p].dirty THEN Put(n, <<s, Db>>, SaveMsg(p, obj[s][p].bank)) ELSE n

(* logout of a player who sits at no table *)
Logout(s, p) ==
    /\ Present(s, p)
    /\ net' = Put(Saves(net, s, p), <<s, Redis>>, RedisMsg(p, None))
    /\ obj' = [obj EXCEPT ![s][p] = None]
    /\ UNCHANGED <<gameid, login_vars, db_vars, transfers, moves>>

(* on_tick: base_player:save_all.  The order of the messages is that of a  *)
(* Lua table and does not matter: each is about a player of its own.       *)
SaveAll(s) ==
    LET dirty == {p \in Players : Present(s, p) /\ obj[s][p].dirty}
        Saved(p) == SaveMsg(p, obj[s][p].bank)
    IN /\ dirty # {}
       /\ net' = [net EXCEPT ![<<s, Db>>] = @ \o SetToSeq({Saved(p) : p \in dirty})]
       /\ obj' = [obj EXCEPT ![s] = [p \in Players |->
                    IF p \in dirty THEN [obj[s][p] EXCEPT !.dirty = FALSE] ELSE obj[s][p]]]
       /\ UNCHANGED <<gameid, login_vars, db_vars, transfers, moves>>

(* The Redis thread of a game server: HSET or HDEL player_online_gameid *)
RunRedis(s) ==
    /\ net[<<s, Redis>>] # <<>>
    /\ LET m == Head(net[<<s, Redis>>]) IN gameid' = [gameid EXCEPT ![m.p] = m.s]
    /\ net' = Took(<<s, Redis>>)
    /\ UNCHANGED <<obj, login_vars, db_vars, transfers, moves>>

-----------------------------------------------------------------------------
(* Changing the game server *)

(* CS_ChangeGame for a type of game this server does not have: what is     *)
(* known of the player goes along with the request.                        *)
ChangeGame(s, p, t) ==
    /\ moves < MaxMoves
    /\ s # t /\ Present(s, p)
    /\ Patient => ~Waits(s, p)
    /\ net' = Put(net, <<s, Login>>, ChangeMsg("SS_ChangeGame", p, s, t, obj[s][p].bank))
    /\ moves' = moves + 1
    /\ UNCHANGED <<gameid, obj, login_vars, db_vars, transfers>>

(* The login server finds a game server of the type, or none. *)
OnSsChangeGame(s) ==
    /\ Arrives(<<s, Login>>, "SS_ChangeGame")
    /\ LET m == [Head(net[<<s, Login>>]) EXCEPT !.type = "LS_ChangeGameResult"] IN
       \/ net' = Put(Took(<<s, Login>>), <<Login, s>>, m)
       \/ net' = Took(<<s, Login>>)
    /\ UNCHANGED <<gameid, obj, login_vars, db_vars, transfers, moves>>

OnLsChangeGameResult(s) ==
    /\ Arrives(<<Login, s>>, "LS_ChangeGameResult")
    /\ LET m == [Head(net[<<Login, s>>]) EXCEPT !.type = "SL_ChangeGameResult"]
           rest == Took(<<Login, s>>)
       IN IF Present(s, m.p)
            THEN /\ net' = Put(Saves(rest, s, m.p), <<s, Login>>, m)
                 /\ obj' = [obj EXCEPT ![s][m.p] = None]
            ELSE net' = rest /\ UNCHANGED obj
    /\ UNCHANGED <<gameid, login_vars, db_vars, transfers, moves>>

OnSlChangeGameResult(s) ==
    /\ Arrives(<<s, Login>>, "SL_ChangeGameResult")
    /\ LET m == Head(net[<<s, Login>>]) IN net' = Put(Took(<<s, Login>>), <<Login, m.to>>, m)
    /\ UNCHANGED <<gameid, obj, login_vars, db_vars, transfers, moves>>

(* SS_ChangeGame at the next game server.  An object that is there already *)
(* is dropped as it is.                                                    *)
Enter(s) ==
    /\ Arrives(<<Login, s>>, "SL_ChangeGameResult")
    /\ LET m == Head(net[<<Login, s>>]) IN
       /\ DbKeepsUp => Settled(m.p)
       /\ obj' = [obj EXCEPT ![s][m.p] = Fresh(m.bank)]
       /\ net' = Put(Took(<<Login, s>>), <<s, Redis>>, RedisMsg(m.p, s))
    /\ UNCHANGED <<gameid, login_vars, db_vars, transfers, moves>>

-----------------------------------------------------------------------------
(* Transfers of 1 *)

Credited(o, s, p) == [o EXCEPT ![s][p].bank = @ + 1, ![s][p].dirty = TRUE]
Debited(o, s, p) == [o EXCEPT ![s][p].bank = @ - 1, ![s][p].dirty = TRUE]

(* CS_BankTransferByGuid.  The sender is debited first.  A target in the   *)
(* same server whose data is not loaded raises an error after that.        *)
Transfer(s, p, to) ==
    /\ transfers < MaxTransfers
    /\ p # to /\ Loaded(s, p) /\ obj[s][p].bank >= 1
    /\ Patient => ~Waits(s, p)
    /\ transfers' = transfers + 1
    /\ LET debited == Debited(obj, s, p) IN
       \/ /\ to \in Players /\ Loaded(s, to)
          /\ obj' = Credited(debited, s, to)
          /\ UNCHANGED net
       \/ /\ to \in Players /\ Present(s, to) /\ ~Loaded(s, to)
          /\ obj' = debited
          /\ UNCHANGED net
       \/ /\ to \in Players => ~Present(s, to)
          /\ obj' = debited
          /\ net' = Put(net, <<s, Login>>, TransferMsg(p, s, to))
    /\ UNCHANGED <<gameid, login_vars, db_vars, moves>>

OnSdBankTransfer(s) ==
    /\ Arrives(<<s, Login>>, "S_BankTransferByGuid")
    /\ lookups' = Append(lookups, Head(net[<<s, Login>>]))
    /\ net' = Took(<<s, Login>>)
    /\ UNCHANGED <<gameid, obj, found, db_vars, transfers, moves>>

GetGameidByGuid(p) == IF p \in Players THEN gameid[p] ELSE None

(* The Redis thread of the login server *)
RunLookup ==
    /\ lookups # <<>>
    /\ LET m == Head(lookups) IN
       found' = Append(found, Closure(m.p, m.s, m.to, GetGameidByGuid(m.to)))
    /\ lookups' = Tail(lookups)
    /\ UNCHANGED <<gameid, obj, net, db_vars, transfers, moves>>

(* Its closure in the logic thread.  The notice to the sender changes      *)
(* nothing there and is left out.                                          *)
RunFound ==
    /\ found # <<>>
    /\ LET c == Head(found) IN
       net' = IF c.at = None
                THEN Put(net, <<Login, Db>>, TransferMsg(c.p, c.s, c.to))
                ELSE Put(net, <<Login, c.at>>, CreditMsg(c.to))
    /\ found' = Tail(found)
    /\ UNCHANGED <<gameid, obj, lookups, db_vars, transfers, moves>>

(* A credit for a player who is not here, or not loaded, is an error. *)
OnLsBankTransfer(s) ==
    /\ Arrives(<<Login, s>>, "LS_BankTransferByGuid")
    /\ LET p == Head(net[<<Login, s>>]).p IN
       obj' = IF Loaded(s, p) THEN Credited(obj, s, p) ELSE obj
    /\ net' = Took(<<Login, s>>)
    /\ UNCHANGED <<gameid, login_vars, db_vars, transfers, moves>>

(* The answer of the database to a transfer it refused *)
OnDsBankTransfer(s) ==
    /\ Arrives(<<Db, s>>, "DS_BankTransferByGuid")
    /\ LET p == Head(net[<<Db, s>>]).p IN
       obj' = IF Loaded(s, p) THEN Credited(obj, s, p) ELSE obj
    /\ net' = Took(<<Db, s>>)
    /\ UNCHANGED <<gameid, login_vars, db_vars, transfers, moves>>

-----------------------------------------------------------------------------
(* The database server.  The threads of a pool take its statements in      *)
(* order, and each of them may finish first; a database that keeps up has  *)
(* done a load or a save of a player before the next one of his is posted. *)
(* A result is handled when the statement is done.                         *)

(* A request of game server s: a load or a save of a player's row *)
OnSdPlayerData(s) ==
    /\ net[<<s, Db>>] # <<>>
    /\ LET m == Head(net[<<s, Db>>]) IN
       pool' = Append(pool, IF m.type = "SD_SavePlayerData"
                              THEN [type |-> "save", p |-> m.p, bank |-> m.bank]
                              ELSE [type |-> "load", p |-> m.p, s |-> s])
    /\ net' = Took(<<s, Db>>)
    /\ UNCHANGED <<gameid, obj, login_vars, bank, orders, recharges, transfers, moves>>

OnSBankTransfer ==
    /\ net[<<Login, Db>>] # <<>>
    /\ LET m == Head(net[<<Login, Db>>]) IN
       pool' = Append(pool, [type |-> "add", p |-> m.p, s |-> m.s, to |-> m.to])
    /\ net' = Took(<<Login, Db>>)
    /\ UNCHANGED <<gameid, obj, login_vars, bank, orders, recharges, transfers, moves>>

Runs(i) ==
    /\ i \in DOMAIN pool /\ i <= Threads
    /\ DbKeepsUp /\ pool[i].type # "add" =>
         \A j \in 1..(i - 1) : pool[j].type # "add" => pool[j].p # pool[i].p

(* UPDATE t_player SET ... of a save *)
RunSave(i) ==
    /\ Runs(i) /\ pool[i].type = "save"
    /\ bank' = [bank EXCEPT ![pool[i].p] = pool[i].bank]
    /\ pool' = RemoveAt(pool, i)
    /\ UNCHANGED <<gameid, obj, net, login_vars, orders, recharges, transfers, moves>>

(* CALL get_player_data, then the SELECT of the recharges *)
RunLoad(i) ==
    /\ Runs(i) /\ pool[i].type = "load"
    /\ LET q == pool[i] IN
       recharges' = Append(recharges, [type |-> "select", p |-> q.p, s |-> q.s, bank |-> bank[q.p]])
    /\ pool' = RemoveAt(pool, i)
    /\ UNCHANGED <<gameid, obj, net, login_vars, bank, orders, transfers, moves>>

(* UPDATE t_player SET bank = bank + 1: no row, no transfer *)
RunAdd(i) ==
    /\ Runs(i) /\ pool[i].type = "add"
    /\ LET q == pool[i] IN
       IF q.to \in Players
         THEN bank' = [bank EXCEPT ![q.to] = @ + 1] /\ UNCHANGED net
         ELSE net' = Put(net, <<Db, q.s>>, RefusedMsg(q.p)) /\ UNCHANGED bank
    /\ pool' = RemoveAt(pool, i)
    /\ UNCHANGED <<gameid, obj, login_vars, orders, recharges, transfers, moves>>

(* The unpaid recharge of the player, if there is one, is to be marked *)
SelectRecharge ==
    /\ recharges # <<>> /\ Head(recharges).type = "select"
    /\ LET q == Head(recharges) IN
       IF q.p \in orders
         THEN /\ recharges' = Append(Tail(recharges), [q EXCEPT !.type = "mark"])
              /\ UNCHANGED net
         ELSE /\ recharges' = Tail(recharges)
              /\ net' = Put(net, <<Db, q.s>>, LoadedMsg(q.p, q.bank))
    /\ UNCHANGED <<gameid, obj, login_vars, bank, orders, pool, transfers, moves>>

(* UPDATE t_re_recharge SET status = 1; then the recharge is added to what *)
(* was loaded, which is saved and sent to the game server.                 *)
MarkRecharge ==
    /\ recharges # <<>> /\ Head(recharges).type = "mark"
    /\ LET q == Head(recharges) IN
       /\ orders' = orders \ {q.p}
       /\ pool' = Append(pool, [type |-> "save", p |-> q.p, bank |-> q.bank + 1])
       /\ net' = Put(net, <<Db, q.s>>, LoadedMsg(q.p, q.bank + 1))
    /\ recharges' = Tail(recharges)
    /\ UNCHANGED <<gameid, obj, login_vars, bank, transfers, moves>>

-----------------------------------------------------------------------------
Next ==
    \/ \E s \in Servers, p \in Players :
         \/ LetIn(p, s) \/ RequestPlayerInfo(s, p) \/ Logout(s, p)
         \/ \E t \in Servers : ChangeGame(s, p, t)
         \/ \E to \in Players \union {Nobody} : Transfer(s, p, to)
    \/ \E s \in Servers :
         \/ OnLsLoginNotify(s) \/ OnDsLoadPlayerData(s) \/ SaveAll(s) \/ RunRedis(s)
         \/ OnSsChangeGame(s) \/ OnLsChangeGameResult(s) \/ OnSlChangeGameResult(s) \/ Enter(s)
         \/ OnSdBankTransfer(s) \/ OnLsBankTransfer(s) \/ OnDsBankTransfer(s) \/ OnSdPlayerData(s)
    \/ RunLookup \/ RunFound \/ OnSBankTransfer
    \/ \E i \in 1..Threads : RunSave(i) \/ RunLoad(i) \/ RunAdd(i)
    \/ SelectRecharge \/ MarkRecharge

Spec == Init /\ [][Next]_vars

-----------------------------------------------------------------------------
(* Type correctness: no balance goes below zero, in memory, under way or   *)
(* in the database.                                                        *)
Balance == 0 .. (Cardinality(Players) * (Start + 1) + MaxTransfers)
TypeOK ==
    /\ gameid \in [Players -> Servers \union {None}]
    /\ \A s \in Servers : \A p \in Players :
         Present(s, p) => obj[s][p] \in
           [bank : Balance \union {NotLoaded}, dirty : BOOLEAN, asked : BOOLEAN]
    /\ \A k \in Links : \A i \in DOMAIN net[k] :
         LET m == net[k][i] IN
         /\ m.p \in Players
         /\ m.type \in {"SD_SavePlayerData", "DS_LoadPlayerData"} => m.bank \in Balance
    /\ bank \in [Players -> Balance]
    /\ orders \subseteq Recharged
    /\ transfers \in 0..MaxTransfers /\ moves \in 0..MaxMoves

(* Nobody is in and nothing is under way. *)
Quiet ==
    /\ \A s \in Servers : \A p \in Players : ~Present(s, p)
    /\ \A k \in Links : net[k] = <<>>
    /\ lookups = <<>> /\ found = <<>> /\ pool = <<>> /\ recharges = <<>>

(* The coins of balances b, one by one. *)
Coins(b) == UNION {{p} \X (1..b[p]) : p \in Players}
InDatabase == Cardinality(Coins(bank)) + Cardinality(orders)
AtStart == Cardinality(Players) * Start + Cardinality(Recharged)

(* The database adds up: when everybody has gone, it has no more than it   *)
(* had at the beginning, paid recharges included, so that no load, save,   *)
(* transfer or change of the game server has made money; and it has no     *)
(* less than that but for what the transfers moved, so that playing on     *)
(* another server or logging out loses nothing.                            *)
AddsUp == Quiet => InDatabase \in (AtStart - transfers) .. AtStart

=============================================================================
