----------------------------- MODULE AccountLogin -----------------------------
(***************************************************************************)
(* How one account logs in and out of the cluster: the clients' sessions   *)
(* at the gates, the logic thread and the Redis thread of the login        *)
(* servers, the database server's throttle, the lobby's Lua handlers and   *)
(* the lobby's own Redis thread.  All the sessions use the same account;   *)
(* several of them are several clients, or one client that comes back.     *)
(*                                                                         *)
(* A message or a closure is a record <<type, session, flag>>; the flag is *)
(* the one bit of it the protocol looks at:                                *)
(*   LC_Login, DL_VerifyAccountResult   the result is a success            *)
(*   LS_LoginNotify                     is_reconnect                       *)
(*   S_Logout                           user_data is 2, not 0              *)
(* An S_Logout names the guid when it goes to the lobby and only the       *)
(* session and the account when it goes to a login server, since a gate    *)
(* session gets its guid_ and its game_server_id_ together.                *)
(***************************************************************************)
EXTENDS Naturals, Sequences, FiniteSets

CONSTANTS
    Clients,     \* the client sessions
    Gates,       \* gate servers
    Logins,      \* login servers
    None,        \* no session
    MaxTries,    \* bound on the CL_Login messages a session sends
    MaxCrashes,  \* bound on the crashes of gates
    Refuses,     \* the database may refuse the password
    MayBeFull,   \* the lobby may be full
    MayPlay,     \* players sit down at a table
    SlowQueries, \* a query may take more than ten seconds
    Overlap,     \* a client may log in while another one waits for the answer to its login
    Patient,     \* clients do not leave while they wait for the answer to a login
    Prompt,      \* the lobby and its Redis thread keep up with the login servers: see Runs
    SameIds      \* sessions at two gates may have the same number: see Connect

ASSUME LoginAssumption ==
    /\ None \notin Clients \union Gates
    /\ Gates \intersect Logins = {} /\ {"lobby", "db"} \intersect (Gates \union Logins) = {}
    /\ MaxTries \in Nat /\ MaxCrashes \in Nat
    /\ {Refuses, MayBeFull, MayPlay, SlowQueries, Overlap, Patient, Prompt, SameIds} \subseteq BOOLEAN

Lobby == "lobby"
Db == "db"
Links ==
    (Gates \X Logins) \union (Logins \X Gates) \union (Gates \X {Lobby}) \union ({Lobby} \X Gates)
      \union (Logins \X {Lobby}) \union ({Lobby} \X Logins) \union (Logins \X {Db}) \union ({Db} \X Logins)

VARIABLES
    net,         \* the messages on each link, in order
    up,          \* the gates that run
    crashes,     \* how many gates have crashed
    sock,        \* the socket of each session: "new", "open", "closed", "gone" (erased)
    gate,        \* the gate a session is connected to
    session_id,  \* the number its gate gave a session, named after the session that had it first
    closing,     \* sessions with a posted do_close
    send_login,  \* sessions with is_send_login_
    in_game,     \* sessions with guid_ and game_server_id_ set
    user_data,   \* sessions whose user_data_ is 2
    tries,       \* CL_Login messages a session has sent
    quque,       \* login_quque_: an account is in it at most once
    client,      \* client_session_ of each gate for this account's guid
    info,        \* Redis player_login_info: None or the session, and whether it has the guid
    temp,        \* Redis player_login_info_temp: None or the session
    online,      \* Redis player_online_gameid is the lobby
    cmds,        \* closures waiting for the Redis thread of a login server
    job,         \* what is left of the closure this thread is running
    replies,     \* closures waiting for the logic thread of a login server
    queries,     \* the verify_account queries that run: <<login server, session>>
    listed,      \* verify_account_list_ has the account
    player,      \* init_player_ of the lobby: None or the player object
    player_count,\* player_count of the lobby
    lobby_cmds   \* commands waiting for the lobby's Redis thread

gate_vars == <<up, crashes, sock, gate, session_id, closing, send_login, in_game, user_data, tries, quque, client>>
redis_vars == <<info, temp, online>>
login_vars == <<cmds, job, replies>>
db_vars == <<queries, listed>>
lobby_vars == <<player, player_count, lobby_cmds>>
vars == <<net, gate_vars, redis_vars, login_vars, db_vars, lobby_vars>>

Msg(type, s, flag) == [type |-> type, s |-> s, flag |-> flag]
Idle == Msg("idle", None, FALSE)
NoInfo == [s |-> None, guid |-> FALSE]
NoPlayer == [s |-> None, playing |-> FALSE, is_offline |-> FALSE]

Init ==
    /\ net = [k \in Links |-> <<>>]
    /\ up = Gates /\ crashes = 0
    /\ sock = [s \in Clients |-> "new"]
    /\ gate = [s \in Clients |-> None]
    /\ session_id = [s \in Clients |-> s]
    /\ closing = {} /\ send_login = {} /\ in_game = {} /\ user_data = {}
    /\ tries = [s \in Clients |-> 0]
    /\ quque = [g \in Gates |-> None]
    /\ client = [g \in Gates |-> None]
    /\ info = NoInfo /\ temp = None /\ online = FALSE
    /\ cmds = [l \in Logins |-> <<>>]
    /\ job = [l \in Logins |-> Idle]
    /\ replies = [l \in Logins |-> <<>>]
    /\ queries = <<>> /\ listed = FALSE
    /\ player = NoPlayer /\ player_count = 0 /\ lobby_cmds = <<>>

Put(n, k, m) == [n EXCEPT ![k] = Append(@, m)]
Took(k) == [net EXCEPT ![k] = Tail(@)]
Arrives(k, type) == net[k] # <<>> /\ Head(net[k]).type = type
Push(q, l, c) == [q EXCEPT ![l] = Append(@, c)]

-----------------------------------------------------------------------------
(* The gate *)

\* The sessions in a gate's table under a number.
Holders(g, n) == {t \in Clients : sock[t] \in {"open", "closed"} /\ gate[t] = g /\ session_id[t] = n}

\* The session that session s is taken for at its gate, where all that arrives names
\* sessions by their numbers; s itself, which is gone then, if the number is free.
FindById(s) == IF Holders(gate[s], session_id[s]) = {} THEN s
               ELSE CHOOSE t \in Holders(gate[s], session_id[s]) : TRUE

\* The numbers that may be given to a session that gate g accepts: a new one, one that
\* g has given before and, if SameIds, one that another gate has given.
Numbers(s, g) ==
    {s} \union {session_id[t] : t \in {c \in Clients : sock[c] # "new" /\ (SameIds \/ gate[c] = g)}}

\* A session's number is its socket's in the gate's process; the gate's table has only
\* one session of a number.
Connect(s, g) ==
    /\ sock[s] = "new" /\ g \in up
    /\ \E n \in Numbers(s, g) :
          Holders(g, n) = {} /\ session_id' = [session_id EXCEPT ![s] = n]
    /\ sock' = [sock EXCEPT ![s] = "open"]
    /\ gate' = [gate EXCEPT ![s] = g]
    /\ UNCHANGED <<net, up, crashes, closing, send_login, in_game, user_data, tries, quque, client,
                   redis_vars, login_vars, db_vars, lobby_vars>>

\* The client waits for the answer to its login.
Waits(s) == sock[s] = "open" /\ s \in send_login \ in_game

\* The client's CL_Login, put into login_quque_.  While a login of the account
\* waits there the client is told so and nothing changes.
OnCLLogin(s) ==
    /\ sock[s] = "open" /\ s \notin send_login /\ tries[s] < MaxTries
    /\ quque[gate[s]] = None
    /\ Overlap \/ \A t \in Clients : ~Waits(t)
    /\ quque' = [quque EXCEPT ![gate[s]] = s]
    /\ send_login' = send_login \union {s}
    /\ tries' = [tries EXCEPT ![s] = @ + 1]
    /\ UNCHANGED <<net, up, crashes, sock, gate, session_id, closing, in_game, user_data, client,
                   redis_vars, login_vars, db_vars, lobby_vars>>

\* The queue's head goes to some login server, unless its session is gone.
OnLoginQuque(g, l) ==
    /\ g \in up /\ quque[g] # None
    /\ quque' = [quque EXCEPT ![g] = None]
    /\ LET s == FindById(quque[g]) IN
       net' = IF sock[s] = "gone" THEN net ELSE Put(net, <<g, l>>, Msg("CL_Login", s, FALSE))
    /\ UNCHANGED <<up, crashes, sock, gate, session_id, closing, send_login, in_game, user_data, tries, client,
                   redis_vars, login_vars, db_vars, lobby_vars>>

\* The client goes away, or a posted do_close runs.
SocketCloses(s) ==
    /\ sock[s] = "open"
    /\ Patient => s \in closing \/ ~Waits(s)
    /\ sock' = [sock EXCEPT ![s] = "closed"]
    /\ closing' = closing \ {s}
    /\ UNCHANGED <<net, up, crashes, gate, session_id, send_login, in_game, user_data, tries, quque, client,
                   redis_vars, login_vars, db_vars, lobby_vars>>

\* A kicked session leaves without a word.
Bug_OnClosed(s) ==
    /\ sock[s] = "closed"
    /\ sock' = [sock EXCEPT ![s] = "gone"]
    /\ \/ s \in in_game \ user_data /\ net' = Put(net, <<gate[s], Lobby>>, Msg("S_Logout", s, FALSE))
       \/ s \notin in_game \ user_data /\ UNCHANGED net
    /\ UNCHANGED <<up, crashes, gate, session_id, closing, send_login, in_game, user_data, tries, quque, client,
                   redis_vars, login_vars, db_vars, lobby_vars>>

\* tick() finds the socket closed: on_closed(), and the session is erased.
OnClosed(s) ==
    /\ sock[s] = "closed"
    /\ sock' = [sock EXCEPT ![s] = "gone"]
    /\ IF s \notin send_login THEN UNCHANGED <<net, user_data, client>>
       ELSE /\ \/ s \in in_game
                  /\ net' = Put(net, <<gate[s], Lobby>>, Msg("S_Logout", s, s \in user_data))
               \/ s \notin in_game
                  /\ \E l \in Logins :
                        net' = Put(net, <<gate[s], l>>, Msg("S_Logout", s, s \in user_data))
            /\ client' = IF s \notin user_data /\ client[gate[s]] = s
                         THEN [client EXCEPT ![gate[s]] = None] ELSE client
            /\ user_data' = user_data \ {s}
    /\ UNCHANGED <<up, crashes, gate, session_id, closing, send_login, in_game, tries, quque,
                   redis_vars, login_vars, db_vars, lobby_vars>>

\* LC_Login from the lobby: a success.
GateLoggedIn(g) ==
    LET k == <<Lobby, g>>  s == FindById(Head(net[k]).s) IN
    /\ g \in up /\ Arrives(k, "LC_Login")
    /\ net' = Took(k)
    /\ IF sock[s] = "gone" THEN UNCHANGED <<in_game, client>>
       ELSE in_game' = in_game \union {s} /\ client' = [client EXCEPT ![g] = s]
    /\ UNCHANGED <<up, crashes, sock, gate, session_id, closing, send_login, user_data, tries, quque,
                   redis_vars, login_vars, db_vars, lobby_vars>>

\* LC_Login from a login server: a failure, after which the client may try again.
GateRefused(g, l) ==
    LET k == <<l, g>>  s == FindById(Head(net[k]).s) IN
    /\ g \in up /\ Arrives(k, "LC_Login")
    /\ net' = Took(k)
    /\ send_login' = IF sock[s] = "gone" THEN send_login ELSE send_login \ {s}
    /\ UNCHANGED <<up, crashes, sock, gate, session_id, closing, in_game, user_data, tries, quque, client,
                   redis_vars, login_vars, db_vars, lobby_vars>>

\* The kick is answered without closing the session.
Bug_GateKick(g, l) ==
    LET k == <<l, g>> IN
    /\ g \in up /\ Arrives(k, "LG_KickClient")
    /\ net' = Put(Took(k), <<g, l>>, Msg("L_KickClient", None, TRUE))
    /\ UNCHANGED <<gate_vars, redis_vars, login_vars, db_vars, lobby_vars>>

\* LG_KickClient: close the session, whose on_closed() then answers through its
\* S_Logout; a session that is gone, or has not asked to log in, is answered for at once.
GateKick(g, l) ==
    LET k == <<l, g>>  s == FindById(Head(net[k]).s) IN
    /\ g \in up /\ Arrives(k, "LG_KickClient")
    /\ IF sock[s] # "gone" /\ tries[s] > 0
       THEN /\ user_data' = user_data \union {s}
            /\ closing' = IF sock[s] = "open" THEN closing \union {s} ELSE closing
            /\ net' = Took(k)
       ELSE /\ net' = Put(Took(k), <<g, l>>, Msg("L_KickClient", None, TRUE))
            /\ UNCHANGED <<user_data, closing>>
    /\ UNCHANGED <<up, crashes, sock, gate, session_id, send_login, in_game, tries, quque, client,
                   redis_vars, login_vars, db_vars, lobby_vars>>

\* A gate's process ends, and with it its sessions and its connections; what it
\* had sent may still arrive.
Crash(g) ==
    /\ g \in up /\ crashes < MaxCrashes
    /\ up' = up \ {g} /\ crashes' = crashes + 1
    /\ sock' = [s \in Clients |-> IF gate[s] = g /\ sock[s] # "new" THEN "gone" ELSE sock[s]]
    /\ closing' = {s \in closing : gate[s] # g}
    /\ quque' = [quque EXCEPT ![g] = None]
    /\ client' = [client EXCEPT ![g] = None]
    /\ \E lost \in SUBSET {k \in Links : k[1] = g} :
          net' = [k \in Links |-> IF k[2] = g \/ k \in lost THEN <<>> ELSE net[k]]
    /\ UNCHANGED <<gate, session_id, send_login, in_game, user_data, tries,
                   redis_vars, login_vars, db_vars, lobby_vars>>

Restart(g) ==
    /\ g \in Gates \ up
    /\ up' = up \union {g}
    /\ UNCHANGED <<net, crashes, sock, gate, session_id, closing, send_login, in_game, user_data, tries, quque, client,
                   redis_vars, login_vars, db_vars, lobby_vars>>

-----------------------------------------------------------------------------
(* The logic thread of a login server: every handler of the login protocol is a *)
(* closure for the Redis thread.                                                *)

LoginReceives(l, k, type, op) ==
    /\ Arrives(k, type)
    /\ net' = Took(k)
    /\ cmds' = Push(cmds, l, [Head(net[k]) EXCEPT !.type = op])
    /\ UNCHANGED <<gate_vars, redis_vars, job, replies, db_vars, lobby_vars>>

OnClLogin(l) == \E g \in Gates : LoginReceives(l, <<g, l>>, "CL_Login", "login")
OnSLogout(l) == \E g \in Gates : LoginReceives(l, <<g, l>>, "S_Logout", "logout")
OnLKickClient(l) == \E x \in Gates \union {Lobby} : LoginReceives(l, <<x, l>>, "L_KickClient", "kicked")
OnDlVerifyAccountResult(l) == LoginReceives(l, <<Db, l>>, "DL_VerifyAccountResult", "result")

Reply(l) == Head(replies[l])
Answering(l, type) ==
    /\ replies[l] # <<>> /\ Reply(l).type = type
    /\ replies' = [replies EXCEPT ![l] = Tail(@)]

ReplyVerify(l) ==
    /\ Answering(l, "verify")
    /\ net' = Put(net, <<l, Db>>, Msg("LD_VerifyAccount", Reply(l).s, FALSE))
    /\ UNCHANGED <<gate_vars, redis_vars, cmds, job, db_vars, lobby_vars>>

ReplyNotify(l) ==
    /\ Answering(l, "notify")
    /\ net' = Put(net, <<l, Lobby>>, [Reply(l) EXCEPT !.type = "LS_LoginNotify"])
    /\ UNCHANGED <<gate_vars, redis_vars, cmds, job, db_vars, lobby_vars>>

\* send_xc_pb to the gate of session s, if it is connected.
ToClient(n, l, s) ==
    IF gate[s] \in up THEN Put(n, <<l, gate[s]>>, Msg("LC_Login", s, FALSE)) ELSE n

ReplyNoLobby(l) ==
    /\ Answering(l, "no_lobby")
    /\ net' = ToClient(net, l, Reply(l).s)
    /\ UNCHANGED <<gate_vars, redis_vars, cmds, job, db_vars, lobby_vars>>

\* Kick the other session of the account and remember the new one meanwhile; if
\* the other's gate is not connected, its entries are replaced at once.
ReplyKick(l) ==
    /\ Answering(l, "kick")
    /\ LET s == Reply(l).s  g == gate[Reply(l).other] IN
       IF g \in up
       THEN /\ net' = Put(net, <<l, g>>, Msg("LG_KickClient", Reply(l).other, FALSE))
            /\ cmds' = Push(cmds, l, Msg("hset_temp", s, FALSE))
       ELSE /\ cmds' = Push(cmds, l, Msg("takeover", s, Reply(l).flag))
            /\ UNCHANGED net
    /\ UNCHANGED <<gate_vars, redis_vars, job, db_vars, lobby_vars>>

-----------------------------------------------------------------------------
(* The Redis thread of a login server.  A closure is run command by command:   *)
(* what one command read, job carries to the next.                             *)

\* The lobby has handled what it was sent, and its commands have been run.
LobbyQuiet == lobby_cmds = <<>> /\ \A k \in Links : k[2] = Lobby => net[k] = <<>>

Cmd(l) == Head(cmds[l])
IsNext(l, op) ==
    /\ Prompt => LobbyQuiet
    /\ job[l] = Idle /\ cmds[l] # <<>> /\ Cmd(l).type = op
Runs(l, op) == IsNext(l, op) /\ cmds' = [cmds EXCEPT ![l] = Tail(@)]
Continues(l, op) == job[l].type = op /\ job' = [job EXCEPT ![l] = Idle]
Then(l, op, s, flag) == job' = [job EXCEPT ![l] = Msg(op, s, flag)]

\* on_cl_login: HSETNX player_login_info
RunLogin(l) ==
    /\ Runs(l, "login")
    /\ IF info = NoInfo
       THEN /\ info' = [s |-> Cmd(l).s, guid |-> FALSE]
            /\ replies' = Push(replies, l, Msg("verify", Cmd(l).s, FALSE))
            /\ UNCHANGED job
       ELSE /\ Then(l, "get_other", Cmd(l).s, FALSE)
            /\ UNCHANGED <<info, replies>>
    /\ UNCHANGED <<net, gate_vars, temp, online, db_vars, lobby_vars>>

\* on_cl_login: the account is logged in or logging in, who is it?  A session of the
\* same number, of whatever gate, is taken for the one that asks.
RunGetOther(l) ==
    /\ Continues(l, "get_other")
    /\ LET s == job[l].s IN
       \/ /\ info = NoInfo
          /\ net' = ToClient(net, l, s)
          /\ UNCHANGED replies
       \/ /\ info # NoInfo /\ session_id[info.s] = session_id[s]
          /\ net' = Put(net, <<l, Db>>, Msg("LD_VerifyAccount", s, FALSE))
          /\ UNCHANGED replies
       \/ /\ info # NoInfo /\ session_id[info.s] # session_id[s]
          /\ replies' = Push(replies, l, [type |-> "kick", s |-> s, flag |-> info.guid, other |-> info.s])
          /\ UNCHANGED net
    /\ UNCHANGED <<gate_vars, redis_vars, cmds, db_vars, lobby_vars>>

RunTakeover(l) ==
    /\ Runs(l, "takeover")
    /\ online' = (online /\ ~Cmd(l).flag)
    /\ info' = [s |-> Cmd(l).s, guid |-> FALSE]
    /\ replies' = Push(replies, l, Msg("verify", Cmd(l).s, FALSE))
    /\ UNCHANGED <<net, gate_vars, temp, job, db_vars, lobby_vars>>

RunHsetTemp(l) ==
    /\ Runs(l, "hset_temp")
    /\ temp' = Cmd(l).s
    /\ UNCHANGED <<net, gate_vars, info, online, job, replies, db_vars, lobby_vars>>

RunHdelInfo(l) ==
    /\ Runs(l, "hdel_info")
    /\ info' = NoInfo
    /\ UNCHANGED <<net, gate_vars, temp, online, job, replies, db_vars, lobby_vars>>

\* on_L_KickClient with user_data 2: the remembered session takes the place of the
\* kicked one.
RunKicked(l) ==
    /\ Runs(l, "kicked")
    /\ IF temp = None THEN UNCHANGED <<temp, info, replies>>
       ELSE /\ temp' = None
            /\ info' = [s |-> temp, guid |-> FALSE]
            /\ replies' = Push(replies, l, Msg("verify", temp, FALSE))
    /\ UNCHANGED <<net, gate_vars, online, job, db_vars, lobby_vars>>

\* on_s_logout: without a guid in player_login_info the account is logged out,
\* else the game server is told.
RunLogout(l) ==
    /\ Runs(l, "logout")
    /\ Then(l, IF info.guid THEN "where" ELSE "forget", Cmd(l).s, FALSE)
    /\ UNCHANGED <<net, gate_vars, redis_vars, replies, db_vars, lobby_vars>>

RunForget(l) ==
    /\ Continues(l, "forget")
    /\ info' = NoInfo
    /\ UNCHANGED <<net, gate_vars, temp, online, cmds, replies, db_vars, lobby_vars>>

RunWhere(l) ==
    /\ Continues(l, "where")
    /\ net' = IF online THEN Put(net, <<l, Lobby>>, Msg("S_Logout", job[l].s, FALSE)) ELSE net
    /\ UNCHANGED <<gate_vars, redis_vars, cmds, replies, db_vars, lobby_vars>>

\* on_dl_verify_account_result: a success is for whoever player_login_info names
\* now, and for nobody if it names nobody.
RunVerified(l) ==
    /\ Runs(l, "result") /\ Cmd(l).flag
    /\ IF info = NoInfo THEN UNCHANGED job ELSE Then(l, "reconnect", info.s, info.guid)
    /\ UNCHANGED <<net, gate_vars, redis_vars, replies, db_vars, lobby_vars>>

\* Is the player still on a game server?  If not, find a lobby that is not full.
RunReconnect(l) ==
    /\ job[l].type = "reconnect"
    /\ LET s == job[l].s IN
       \/ /\ online
          /\ replies' = Push(replies, l, Msg("notify", s, TRUE))
          /\ job' = [job EXCEPT ![l] = Idle]
          /\ UNCHANGED cmds
       \/ /\ ~online
          /\ Then(l, "enter", s, FALSE)
          /\ UNCHANGED <<cmds, replies>>
       \/ /\ ~online /\ MayBeFull
          /\ replies' = Push(replies, l, Msg("no_lobby", s, FALSE))
          /\ cmds' = Push(cmds, l, Msg("hdel_info", None, FALSE))
          /\ job' = [job EXCEPT ![l] = Idle]
    /\ UNCHANGED <<net, gate_vars, redis_vars, db_vars, lobby_vars>>

RunEnter(l) ==
    /\ Continues(l, "enter")
    /\ online' = TRUE
    /\ info' = [s |-> job[l].s, guid |-> TRUE]
    /\ replies' = Push(replies, l, Msg("notify", job[l].s, FALSE))
    /\ UNCHANGED <<net, gate_vars, temp, cmds, db_vars, lobby_vars>>

\* A failure: whoever is in player_login_info is to be deleted, and the session
\* that asked is told.
RunRefused(l) ==
    /\ IsNext(l, "result") /\ ~Cmd(l).flag
    /\ cmds' = [cmds EXCEPT ![l] = IF info = NoInfo THEN Tail(@)
                                   ELSE Append(Tail(@), Msg("hdel_info", None, FALSE))]
    /\ net' = ToClient(net, l, Cmd(l).s)
    /\ UNCHANGED <<gate_vars, redis_vars, job, replies, db_vars, lobby_vars>>

-----------------------------------------------------------------------------
(* The database server *)

\* While a query of the account runs, a second one is refused at once; after ten
\* seconds the entry no longer counts.
DbReceives(l) ==
    LET k == <<l, Db>>  s == Head(net[k]).s IN
    /\ Arrives(k, "LD_VerifyAccount")
    /\ \/ /\ listed
          /\ net' = Put(Took(k), <<Db, l>>, Msg("DL_VerifyAccountResult", s, FALSE))
          /\ UNCHANGED db_vars
       \/ /\ ~listed \/ SlowQueries
          /\ net' = Took(k)
          /\ listed' = TRUE
          /\ queries' = Append(queries, [l |-> l, s |-> s])
    /\ UNCHANGED <<gate_vars, redis_vars, login_vars, lobby_vars>>

\* The queries run on a pool of threads and end in any order.
DbAnswer(i) ==
    /\ queries' = SubSeq(queries, 1, i - 1) \o SubSeq(queries, i + 1, Len(queries))
    /\ listed' = FALSE
    /\ \E ok \in {TRUE} \union (IF Refuses THEN {FALSE} ELSE {}) :
          net' = Put(net, <<Db, queries[i].l>>, Msg("DL_VerifyAccountResult", queries[i].s, ok))
    /\ UNCHANGED <<gate_vars, redis_vars, login_vars, lobby_vars>>

-----------------------------------------------------------------------------
(* The lobby *)

Bug_Bye == <<"hdel_info">>
Bye == <<"hdel_info", "hdel_online">>

\* on_ls_login_notify: a reconnecting player is given the new session, every other
\* login makes a player object, whatever was there.
LobbyNotify(l) ==
    LET k == <<l, Lobby>>  m == Head(net[k]) IN
    /\ Arrives(k, "LS_LoginNotify")
    /\ \/ /\ m.flag /\ player # NoPlayer
          /\ player' = [player EXCEPT !.s = m.s]
          /\ UNCHANGED player_count
       \/ /\ ~m.flag \/ player = NoPlayer
          /\ player' = [NoPlayer EXCEPT !.s = m.s]
          /\ player_count' = player_count + 1
    /\ net' = IF gate[m.s] \in up THEN Put(Took(k), <<Lobby, gate[m.s]>>, Msg("LC_Login", m.s, TRUE))
              ELSE Took(k)
    /\ UNCHANGED <<gate_vars, redis_vars, login_vars, db_vars, lobby_cmds>>

\* The part of logout() after exit_server(): the player object goes.
Delete ==
    /\ player' = NoPlayer
    /\ player_count' = player_count - 1
    /\ lobby_cmds' = lobby_cmds \o Bye

\* logout() of a player who may have gone already.
Bug_Logout == Delete

\* logout(): a player who is playing stays as an offline player.
Logout ==
    \/ player = NoPlayer /\ UNCHANGED lobby_vars
    \/ player # NoPlayer /\ ~player.playing /\ Delete
    \/ /\ player.playing
       /\ player' = [player EXCEPT !.is_offline = TRUE]
       /\ lobby_cmds' = Append(lobby_cmds, "hdel_info")
       /\ UNCHANGED player_count

\* S_Logout of a gate, which may have to be reported to some login server, or of a
\* login server.
LobbyLogout(x) ==
    LET k == <<x, Lobby>> IN
    /\ Arrives(k, "S_Logout")
    /\ Logout
    /\ \/ ~Head(net[k]).flag /\ net' = Took(k)
       \/ /\ Head(net[k]).flag
          /\ \E l \in Logins : net' = Put(Took(k), <<Lobby, l>>, Msg("L_KickClient", None, TRUE))
    /\ UNCHANGED <<gate_vars, redis_vars, login_vars, db_vars>>

Present ==
    /\ player # NoPlayer
    /\ LET s == FindById(player.s) IN s \in in_game /\ sock[s] = "open"

\* The player's messages: a game begins with him, or he loads his data again and
\* finds himself in a game.
Play ==
    /\ MayPlay /\ Present /\ ~player.playing
    /\ player' = [player EXCEPT !.playing = TRUE]
    /\ UNCHANGED <<net, gate_vars, redis_vars, login_vars, db_vars, player_count, lobby_cmds>>

LoadComplete ==
    /\ Present /\ player.is_offline
    /\ player' = [player EXCEPT !.is_offline = FALSE]
    /\ UNCHANGED <<net, gate_vars, redis_vars, login_vars, db_vars, player_count, lobby_cmds>>

\* The game ends, and the offline players leave the table and are logged out.
GameOver ==
    /\ player.playing
    /\ \/ player.is_offline /\ Delete
       \/ /\ ~player.is_offline
          /\ player' = [player EXCEPT !.playing = FALSE]
          /\ UNCHANGED <<player_count, lobby_cmds>>
    /\ UNCHANGED <<net, gate_vars, redis_vars, login_vars, db_vars>>

\* The lobby's Redis thread.
LobbyRedis ==
    /\ lobby_cmds # <<>>
    /\ lobby_cmds' = Tail(lobby_cmds)
    /\ IF Head(lobby_cmds) = "hdel_info" THEN info' = NoInfo /\ UNCHANGED online
       ELSE online' = FALSE /\ UNCHANGED info
    /\ UNCHANGED <<net, gate_vars, temp, login_vars, db_vars, player, player_count>>

-----------------------------------------------------------------------------
Client ==
    \/ \E s \in Clients : OnCLLogin(s) \/ SocketCloses(s)
    \/ \E s \in Clients, g \in Gates : Connect(s, g)
GateStep ==
    \/ \E s \in Clients : OnClosed(s) \/ (s \in closing /\ SocketCloses(s))
    \/ \E g \in Gates : GateLoggedIn(g)
    \/ \E g \in Gates, l \in Logins : OnLoginQuque(g, l) \/ GateRefused(g, l) \/ GateKick(g, l)
LoginStep == \E l \in Logins :
    OnClLogin(l) \/ OnSLogout(l) \/ OnLKickClient(l) \/ OnDlVerifyAccountResult(l)
    \/ ReplyVerify(l) \/ ReplyNotify(l) \/ ReplyNoLobby(l) \/ ReplyKick(l)
RedisStep == \E l \in Logins :
    RunLogin(l) \/ RunGetOther(l) \/ RunTakeover(l) \/ RunHsetTemp(l) \/ RunHdelInfo(l) \/ RunKicked(l)
    \/ RunLogout(l) \/ RunForget(l) \/ RunWhere(l) \/ RunVerified(l) \/ RunReconnect(l) \/ RunEnter(l)
    \/ RunRefused(l)
DbStep == (\E l \in Logins : DbReceives(l)) \/ (\E i \in 1..Len(queries) : DbAnswer(i))
LobbyStep ==
    \/ \E l \in Logins : LobbyNotify(l)
    \/ \E x \in Gates \union Logins : LobbyLogout(x)
    \/ LobbyRedis
Table == Play \/ LoadComplete \/ GameOver
Fault == \E g \in Gates : Crash(g) \/ Restart(g)
Next == Client \/ GateStep \/ LoginStep \/ RedisStep \/ DbStep \/ LobbyStep \/ Table \/ Fault

Spec == Init /\ [][Next]_vars

\* The servers go on as long as one of them has something to handle, and games end;
\* clients need not do anything, and gates need not crash.
Handling == GateStep \/ LoginStep \/ RedisStep \/ DbStep \/ LobbyStep \/ GameOver
FairSpec == Spec /\ WF_vars(Handling)

-----------------------------------------------------------------------------
(* Properties *)

Msgs == [type : {"CL_Login", "LC_Login", "S_Logout", "LG_KickClient", "LS_LoginNotify",
                 "LD_VerifyAccount", "DL_VerifyAccountResult"}, s : Clients, flag : BOOLEAN]
    \union [type : {"L_KickClient"}, s : {None}, flag : BOOLEAN]
Closures == [type : {"login", "logout", "result", "hset_temp", "takeover"}, s : Clients, flag : BOOLEAN]
    \union [type : {"kicked", "hdel_info"}, s : {None}, flag : BOOLEAN]
Jobs == [type : {"get_other", "forget", "where", "reconnect", "enter"}, s : Clients, flag : BOOLEAN]
    \union {Idle}
Answers == [type : {"verify", "notify", "no_lobby"}, s : Clients, flag : BOOLEAN]
    \union [type : {"kick"}, s : Clients, flag : BOOLEAN, other : Clients]

\* Every variable has its type.
TypeOK ==
    /\ net \in [Links -> Seq(Msgs)]
    /\ up \subseteq Gates /\ crashes \in 0..MaxCrashes
    /\ sock \in [Clients -> {"new", "open", "closed", "gone"}]
    /\ gate \in [Clients -> Gates \union {None}] /\ session_id \in [Clients -> Clients]
    /\ closing \subseteq Clients /\ send_login \subseteq Clients
    /\ in_game \subseteq Clients /\ user_data \subseteq Clients
    /\ tries \in [Clients -> 0..MaxTries]
    /\ quque \in [Gates -> Clients \union {None}] /\ client \in [Gates -> Clients \union {None}]
    /\ info \in [s : Clients, guid : BOOLEAN] \union {NoInfo} /\ temp \in Clients \union {None}
    /\ online \in BOOLEAN /\ listed \in BOOLEAN
    /\ cmds \in [Logins -> Seq(Closures)] /\ job \in [Logins -> Jobs] /\ replies \in [Logins -> Seq(Answers)]
    /\ queries \in Seq([l : Logins, s : Clients])
    /\ player \in [s : Clients, playing : BOOLEAN, is_offline : BOOLEAN] \union {NoPlayer}
    /\ player_count \in Nat /\ lobby_cmds \in Seq({"hdel_info", "hdel_online"})

\* A client that is let in and is not being closed.
LoggedIn(s) == sock[s] = "open" /\ s \notin closing /\ s \in in_game

\* The servers have nothing left to do: what is missing now stays missing.
Quiet ==
    /\ \A k \in Links : net[k] = <<>>
    /\ \A l \in Logins : cmds[l] = <<>> /\ job[l] = Idle /\ replies[l] = <<>>
    /\ \A g \in Gates : quque[g] = None
    /\ queries = <<>> /\ lobby_cmds = <<>> /\ closing = {}
    /\ \A s \in Clients : sock[s] # "closed"

\* Two gates have given sessions of the account the same number, which a login
\* server takes for one session: on_cl_login compares nothing else.
Confused == \E s, t \in Clients :
    sock[s] # "new" /\ sock[t] # "new" /\ gate[s] # gate[t] /\ session_id[s] = session_id[t]

\* An account is logged in on one client at a time, whoever is already in is kicked
\* before the next one is let in, unless two gates gave two of its sessions the same
\* number.
OneSession == \A s, t \in Clients : LoggedIn(s) /\ LoggedIn(t) => s = t \/ Confused

\* Once everything is handled, a client that is let in has its player in the lobby,
\* bound to its session.
HasPlayer == \A s \in Clients : Quiet /\ LoggedIn(s) => player.s = s

\* Once everything is handled, Redis names the session of the client that is in, so
\* that the next login kicks it.
HasInfo == \A s \in Clients : Quiet /\ LoggedIn(s) => info.s = s /\ online

\* Once everything is handled, nobody is left in the lobby whose client is gone,
\* except a player in a game.
NoGhost == Quiet /\ player # NoPlayer => sock[player.s] = "open" \/ player.playing

\* Once everything is handled, no client that is connected still waits for the
\* answer to its login.
Answered == Quiet => \A s \in Clients : ~Waits(s)

\* When the last client and the last player are gone, Redis has forgotten them: the
\* next login is neither a kick nor a reconnection.
NoLeftovers ==
    Quiet /\ player = NoPlayer /\ (\A s \in Clients : sock[s] \in {"new", "gone"})
      => info = NoInfo /\ ~online

\* As long as clients log in one after the other, the cluster keeps its promise to
\* them, which AccountPromise states without the servers.
Client_st == [s \in Clients |->
    IF sock[s] \in {"closed", "gone"} \/ s \in closing THEN "left"
    ELSE IF s \in in_game THEN "in"
    ELSE IF s \in send_login THEN "asking" ELSE "out"]
Abstract == INSTANCE AccountPromise WITH st <- Client_st, owner <- player.s
Promise == Abstract!Spec

\* The end of one session never removes the player of another one.
LogoutOwn ==
    [][\A x \in Gates \union Logins :
          LobbyLogout(x) /\ player # NoPlayer /\ player' = NoPlayer
            => player.s = Head(net[<<x, Lobby>>]).s]_vars

\* The end of a game logs out only players whose client is not there.
OfflineExit == [][GameOver /\ player.is_offline => ~Present]_vars
=============================================================================
