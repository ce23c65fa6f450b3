# A verification project for gc_server

TLA+ models of the gamingcity server cluster (`src/gamingcity_server`), the TLC
runs that check them and the TLAPS proofs about them. `PROJECT.json` lists the
components, the runs, the source lines every definition stands for, the hazards
and the theorems. To check a module: `tlc -config MC_land.cfg MCLandRoom`; to
check proofs: `tlapm LandRoom_proofs.tla`.

## 1. Inventory

The cluster is a set of processes, all built on one network library
(`code/ServerCommon`). Each has one *logic thread*, which runs `tick()` for ever,
a pool of io threads (one `io_service` each), and, where it needs them, a Redis
thread and database threads. The game servers and the database server keep most
of their logic in Lua (`project/script`), which runs on the logic thread only; a
handler that raises an error is caught by `lua_pcall` and keeps what it has
already assigned.

| component | state it keeps | operations | talks to |
|---|---|---|---|
| `NetworkSession` | `write_buf_`, `send_buf_`, `read_buf_`, overflow blocks, `sending_`, the socket | `send`, `post`, `do_write`, `handle_write`, `handle_read`, `dispatch`, `close`, `reset` | its peer; logic thread and io thread share it |
| `NetworkConnectSession` | `connect_state_`, `last_msg_time_`, `wait_tick_` | `tick`, `connect`, completion handlers | another server, which it connects to again and again |
| `NetworkServer`, `NetworkAllocator` | `session_`, a map from socket number to session | `accept`, `alloc`, `tick`, `close_all_session`, `release_all_session`, `stop` | acceptor's thread, io threads, logic thread |
| GateServer | a session per client, `login_quque_`, `client_session_` | `CL_Login`, disconnection, kick, forwarding | clients, login servers, lobbies |
| LoginServer | Redis: `player_login_info`, `player_login_info_temp`, `player_online_gameid`, `player_session_gate`, counts | login, verification, kick, logout, change of the game server | gates, lobbies, the database server, Redis |
| DBServer | `verify_account_list_`, pools of MySQL connections | verification of accounts, load and save of players, bank | login servers, game servers, MySQL |
| Lobby (Lua in a game server) | `init_player_`, `pb_base_info`, `flag_base_info` | `on_ls_login_notify`, `logout`, load, save, change of game | login servers, gates, the database server, its own Redis thread |
| Rooms and tables (Lua) | `room_player_list_`, `player_list_`, `ready_list_`, the state of the game | enter, sit, stand, change, get ready, play, `tick` | the players' clients |
| Bank and items (Lua, login and database servers) | `money`, `bank`, items | deposit, draw, transfer, refund | other game servers through a login server |
| Texas hold'em (Lua) | `t_player`, `t_bet`, `t_pot`, `t_side_pot`, the button and the blinds, counters | enter, bet, time-outs, side pots, settlement, leave | the rooms, the players' clients |
| ConfigServer | the servers that are up, `m_mpPlayer_Gate` | discovery, recharges and refunds from the web | every server, the web |
| Recharges (database and game servers) | `t_recharge_order`, `t_re_recharge` | look up, pay, put down, pay at the next load | ConfigServer, gates |
| GmServer | pending requests of the web interface | forwarding | every server |
| Fishing and other games | their tables | rounds | clients |

What is hard in them:

* **Two threads on one buffer.** `handle_write` compares `bytes_transferred` with
  the size of `send_buf_` before it locks, `dispatch` walks over `read_buf_` without
  the lock, `post` queues `do_write` after it unlocked. Right means: every byte goes
  out once and in order, no wake-up is lost, every message is handed over once.
* **A session that comes back.** `reset()` must leave nothing of the last connection,
  timeouts must not survive it, and one attempt runs at a time.
* **A number used again.** Sessions are found by the number of their socket, which
  the operating system gives away again as soon as the socket is closed. Right means:
  `on_closed` once for every session, and no session forgotten.
* **One account, many processes.** A login crosses the gate, the login server's logic
  thread, its Redis thread, the database server and the lobby; a second login of the
  account kicks the first one by way of all of them. Right means: one client at a time
  is in, every login is answered, and lobby, Redis and gate agree at the end.
* **A seat kept twice.** A player knows his seat and the table knows its players, the
  ready flags are a third list, and a player who loses his connection stays or goes
  depending on what his table does.
* **Money in memory.** It is saved in every tick that finds it changed, at logout and
  when the game server changes, as a value and not as a difference; a transfer debits
  first and finds out later whether there is a target. Right means: however loads,
  saves, transfers and changes cross, no money is made, and none is lost but what a
  transfer had under way.

* **A hand and who is in it.** Bets, pots, side pots, who is all-in, has folded, has
  left or has never entered are kept in eight places, and a handler that raises an
  error leaves them half-changed. Right means: chips are neither made nor lost, and a
  hand that was dealt ends.
* **An order for somebody who moves.** A recharge is sent to where its player was last
  heard of, and turns round where he is not. Right means: paid once, by one way or the
  other, and not forgotten.

`PROJECT.json` has the hazards line by line, each with the properties that are
about it. Some that were met are not covered by a property, because the code simply
does the wrong thing there and no property would say more than that: the maintenance
branch of a verification leaves `player_login_info` (`LoginDBSession.cpp:92`), a player
who comes back while his table counts him as offline is logged out at the end of its
game (`on_login_logout.lua:138`), `room_player_list_` keeps `false`
(`base_room.lua:187`) and `cur_player_count_` is not lowered
(`base_room_manager.lua:588`) in some ways of leaving, and there is one
`player_login_info_temp` for all who wait (`LoginSession.cpp:308`).

## 2. Plan

| order | module | state |
|---|---|---|
| 1 | `NetworkSessionWrite`, proofs | done |
| 2 | `NetworkSessionRead`, proofs | done |
| 3 | `NetworkConnectSession` | done |
| 4 | `NetworkAllocator`, proofs of both in `NetworkLife_proofs` | done |
| 5 | `AccountLogin` implementing `AccountPromise`, proofs | done, the proofs for clients one after the other |
| 6 | `LandRoom`, proofs | done |
| 7 | `PlayerMoney`: bank, load and save, change of the game server, the database's pools, proofs | done; transfers by account, deposits and crashes to come |
| 8 | `TexasTable`: the betting rounds, side pots and settlement of Texas hold'em, proofs | done |
| 9 | `RechargeOrder`: recharges and refunds, ConfigServer's half of them, proofs | done |
| 10 | zhajinhua, whose rounds differ from Texas | later |
| 11 | a composition of the two halves of a session and the reconnection, implementing an abstract channel that loses and never garbles | later |

A module that is proved about uses no recursion and states its invariants as named
conjuncts; its proofs are in `<module>_proofs`, those of the two ends of a connection
in one module, `NetworkLife_proofs`.

## 3. Modules and the code

**NetworkSessionWrite** - the outgoing half of a session. `Send` is
`NetworkSession::send`, with the choice between `write_buf_` and the overflow blocks.
`PostMove` and `PostWakeup` are the two halves of `post()`: under the lock it refills
`send_buf_`, after it the io thread is woken. `DoWrite`, `HandleWrite`,
`HandlePartial`, `HandleFull` and `Rearm` are the io thread: `do_write`, then the
comparison without the lock, then what is done under it, then the new `async_write`.
`Close`, `Connect` and `Reset` are the life of the socket. A byte is its number, so
that order, loss and repetition can be stated.

**NetworkSessionRead** - the incoming half. `HandleRead` is one completed read;
`Tick`, `DispatchBegin`, `DispatchMsg`, `DispatchTooLong` and `DispatchEnd` are the
logic thread, cut where the lock is taken or given back. A byte is its message and its
position in it, so that a torn message is seen. What `on_dispatch` answers is given by
the constant `Refused`.

**NetworkConnectSession** - `tick()` is cut in two (`TickConnect`, `TickExchange`)
around the start of `async_connect`, because the compare-and-exchange comes after it;
`TickHear`, `TickTimeout` and `TickLost` are what it does when connected. The io
thread's completion handlers are cut between what they write to the socket and to
`connect_state_`. The peer crashes, hangs and comes back. Clocks are flags. What it has in
common with `NetworkAllocator`, the other end, is named `Connect...` here, because
`NetworkLife_proofs` extends both.

**NetworkAllocator** - the table of a server's sessions. `Accept`, `Insert`, `Alloc`
and `Start` are the acceptor, `TickBegin`, `TickOpen`, `TickClosed`, `DispatchBegin`,
`Dispatch` and `DispatchEnd` the logic thread in the two loops of
`NetworkServer::tick`, `ReadFails` and `DoClose` the io threads, `Stop`, `StopRun` and
`ReleaseAll` the end of the server.

**AccountLogin** (`MCAccountLogin` adds symmetry and a view) - one account, seen by
everything that takes part in its login and logout. Gate: `OnCLLogin`, `OnLoginQuque`, `OnClosed`, `GateLoggedIn`, `GateRefused`,
`GateKick`, `Crash`, `Restart`. Login server, logic thread: `OnClLogin`, `OnSLogout`,
`OnLKickClient`, `OnDlVerifyAccountResult`, and the closures the Redis thread sends
back (`Reply...`). Login server, Redis thread: `Run...`; a closure is split at each of
its reads, because two login servers and the lobby use the same Redis; writes in a row
are one step. Database server: `DbReceives`, `DbAnswer` (with the ten-second throttle).
Lobby: `LobbyNotify`, `LobbyLogout`, its Redis thread `LobbyRedis`, and the tables,
reduced to playing or not. Links between two processes are first in, first out.
`player_session_gate` is left out (it names the account of a session whose `S_Logout`
does not, and here there is one account), and so is `player_login_info_guid`, which
only the operators' commands read.

What the servers call a session is its gate and its socket's number there
(`NetworkSession.cpp:21`). `session_id` is that number and `FindById` the session of the
gate's table that a number leads to; `on_cl_login` (`LoginSession.cpp:241`) looks only
at the number. `Connect` gives a session one that nobody at its gate had before or one
whose session is gone, and, with `SameIds = TRUE`, one that another gate has given.
`Confused` says that two gates have given the same number. The model is not told of a
number given again while the old session is still in the gate's table (`Holders`): that is
`reused` of `NetworkAllocator`. The symmetry of `MCAccountLogin` exchanges clients and
gates, of which no property of `login_overlap` names one. Its view leaves out, of a
session that is gone, whether it had sent a login, was in and had left, how often it
tried, and that it is still the gate's `client`: no action and no property of that run
reads it.

**AccountPromise** - what a client may rely on, without the servers: one client in at
a time, a player object for it from before it is in until after it left, every login
answered, no player object left behind. `AccountLogin` implements it under `Client_st`
and `player.s`: TLC checks `Spec`, and `Safety`, its part without liveness, is proved.

**LandRoom** (`MCLandRoom` adds symmetry and a view) - one room of the landlord game,
from `base_room_manager.lua`, `base_room.lua`, `base_table.lua` and `land_table.lua`,
with login and logout as the lobby does them. One handler is one action, errors
included: where the code raises one half-way, the action keeps what was assigned
before (`finishgame`, `Ends`, `Aborts`). Cards, scores and money are left out: what a
player calls or plays is a choice. The three chairs of the code are `ChairCount`.

**PlayerMoney** (`MCPlayerMoney` adds symmetry) - what the players own, in the memory of
the game servers (`obj`), in MySQL (`bank`, `orders`) and in the messages between.
`LetIn`, `OnLsLoginNotify`, `RequestPlayerInfo`, `OnDsLoadPlayerData`, `Logout` and
`SaveAll` are a player's stay; `ChangeGame`, `OnSsChangeGame`, `OnLsChangeGameResult`,
`OnSlChangeGameResult` and `Enter` the five steps of a change of the game server;
`Transfer`, `OnSdBankTransfer`, `RunLookup`, `RunFound`, `OnLsBankTransfer`,
`OnSBankTransfer`, `RunAdd` and `OnDsBankTransfer` a transfer, by way of the login
server's logic thread and Redis thread. `RunSave`, `RunLoad`, `SelectRecharge` and
`MarkRecharge` are the statements in the database's pools, whose threads overtake each
other; `RunRedis` is the Redis thread of a game server. One number stands for `money`
and `bank`, which are loaded and saved together; tables, deposits and draws, which move
money within one player or between players of one server, are left out. Who may log in
is taken from `AccountLogin`.

**TexasTable** (`MCTexasTable` starts with two players entered) - one table of Texas
hold'em. The table is one record, `self`, and a function of `texas_table.lua` is an
operator from a table to a table, so that a handler is the composition its code is. One
that raises an error sets `err` and keeps what it has assigned; `Step` clears it, as
`lua_pcall` does. Actions are the messages (`PlayerSitDown`, `EnterTable`, `StandUp`,
`ChangeTable`, and `Check`, `Fold`, `Raise`, `Call` and `AllIn` in `Act`) and `Tick`.
Cards are who holds some; how the hands compare is chosen at the settlement, any
ranking for each pot. Time is the flag `due`. `cost_money`, which is the lobby's
(`base_player.lua`), takes all of an amount or nothing; `add_bet` does not ask which.

**RechargeOrder** (`MCRechargeOrder` fixes the first login) - an order from the web to a
bank. `Ask`, `OnDfChangMoney` and `ConfigHears` are ConfigServer; `GateDeals`,
`GateHears`, `OnClosed` and `Reconnect` a gate; `LetIn`, `ChangeGame`, `LeaveTable`,
`GameHears`, `CashMoney` and `OnDsCashMoney` a game server; `RunOrder`, `RunExists`,
`RunInsert`, `RunStatus`, `RunRows`, `RunMark` and `LoadDone` the database's pool.
Who is let in when comes from `AccountLogin`, and a change of the game server, whose
five steps are in `PlayerMoney`, is one step. Money is counted by how often an order
has been paid.

## 4. Runs

| run | instance | distinct states | shows |
|---|---|---|---|
| `write` | `send_buf_` and `write_buf_` of 2 bytes, messages of 1 or 2 bytes, 6 bytes, 2 connections | 51,902 | no wake-up lost, no byte lost or repeated, order kept while no overflow block is used, nothing stays unsent |
| `read` | header 2, messages of 2 or 3 bytes, a read of 3, `read_buf_` of 4, 2 messages per tick, 3 messages of which the second is refused, 2 connections | 64,176 | messages arrive once, whole and in order; again only while a session that refused one waits for its `do_close` |
| `connect` | 3 failures of the peer | 335 | one attempt at a time; a living connection is never timed out, a dead one is; the session connects again |
| `allocator` | 2 socket numbers, 3 connections | 113,740 | `on_closed` once for every session that was entered, unless its number was used again too early |
| `login` | 3 clients one after the other, 1 gate, 1 login server, 2 tries, refusals, a full lobby, numbers of closed sessions given again | 153,323 | `AccountPromise` is implemented; lobby, Redis and gate agree once all is handled |
| `login_overlap` | 2 clients at the same time, 2 gates that give any number, 2 tries, one crash of a gate, refusals, games, slow queries, slow lobby | 807,982 | never two in together unless two gates gave them the same number; nothing left when both are gone |
| `login_double` | 3 clients at the same time | violation of `OneSession` | a remembered login is resumed although another one was let in |
| `land` | 2 players, 2 tables of 2 chairs | 340,938 | the two copies of a seat agree, games are dealt to players who are there, a lost connection keeps its chair in a game and loses it elsewhere |
| `money` | 2 players, 2 game servers, 1 coin each and 1 recharge, 1 transfer, 2 logins or changes, 2 threads per pool | 2,231,597 | nothing is made by loads, saves, changes and transfers, and nothing is lost but what a transfer moved |
| `texas` | 3 players, two of them entered with 3 and 4 chips, the third comes with 1; 3 chairs, small blind 1, raises of 1, one comes in, one hand | 184,644 | chips are made only by side pots and by blinds that are not paid, lost only in the ways listed below, and a hand ends unless its settlement raises an error |
| `recharge` | 1 player, 1 order, 1 refused cash-out, 2 gates, 2 game servers, 2 logins or changes, 1 broken connection | 596,911 | an order is paid at most once, is in a bank or in `t_re_recharge` when it is counted as dealt with, and gets there if the web goes on asking |
| `recharge_lost` | the same, no broken connection | violation of `FailedIsInserted` | an order for a player who has just moved or is not loaded is neither paid nor put down |

Every property of a passing run has a mutant in `PROJECT.json`: a change of one
definition, as a bug in the code would make it, with which TLC finds the property
violated. The mutated forms stand before the definitions as `Bug_...`.

### Bounds, and why they are enough

* *Buffers.* What matters about a buffer is empty, partly filled, full, and a message
  that does not fit. Two bytes have all of them; six bytes fill `send_buf_`,
  `write_buf_` and the overflow blocks at the same time. A second connection is enough
  for what the first one leaves behind: `reset()` looks at nothing older.
* *Reading.* A header of two bytes can be cut, a message of three fills a read and
  leaves a rest in a buffer of four; the limit of two messages per tick is less than
  the three that are sent, so a tick stops with messages left.
* *Reconnection.* The session has no memory of failures but its state: three failures
  give down, hung and down again in any order. `connect` is small because the
  component is.
* *Sessions.* Two numbers and three connections: a number is used again while the
  other one is taken.
* *Login.* Two clients overlap in every way with two gates; a third one is needed to
  see what is remembered for one of two, and `login_double` is its counterexample.
  Three clients in sequence show what each leaves for the next. Two tries let a client
  that was refused come again to what its refusal left behind.
* *Rooms.* Two chairs make a table that is full, half full or empty, and the second
  table is for the changes. A third player, who takes the chair of one who left a
  game, does not fit together with two tables; three players at one table pass
  (104,576 states), and the proofs hold for any number of players, tables and chairs.
  `MaxCount` bounds `cur_player_count_`, which some ways of leaving never lower.
* *Money.* One coin each: a balance is then empty or not, and a coin made or lost is
  seen. A login and a change, or two of either, let an old load, save or snapshot meet
  a new object; the players may start inside. Two transfers and one move
  (3,810,213 states) and three moves without a transfer (281,814) pass as well, with
  one thread.
* *Texas.* Two players with 3 and 4 chips and blinds of 1 and 2 are a raise, a call or
  an all-in away from the end, and the third, with 1, is below the blind: this gives
  all-ins that nobody exceeds, side pots with one player, and somebody who sits, enters
  or leaves in the middle of a hand. Without the liveness property the same holds for
  stacks of 3, 3 and 4 and of 3, 3 and 1 with two hands (1,923,429 and 682,917 states). A
  player who comes three times is more than a run of `texas` can hold; it is what the
  proofs are for, see the counterexample in section 6.
* *Recharges.* Two logins or a login and a change put the order before, between and
  behind everything the player does; with three (no cash-out and no broken connection,
  193,957 states) the invariants hold as well. `AsksAtOnce = 1` is an assumption, see
  below. Both gates and both game servers are alike, so the first login is at the first.
  The safety properties hold with two refused cash-outs as well (4,711,243 states, without
  `RetryWins`, which that many states leave no time for).
* *Login servers.* Two gates and two login servers with clients one after the other
  (`Overlap = FALSE`, `Patient = TRUE`, `SameIds = FALSE`) pass `OneSession` as well: two
  clients with 2,961 states, three with 114,761.

### Assumptions that are constants

The properties of a login hold under conditions the code does not enforce, so each is a
constant, and each property is checked under as few as it needs.

* `Overlap = FALSE`: a client sends its login when no other one waits for an answer.
* `Patient = TRUE`: a client does not leave while its login is under way.
* `Prompt = TRUE`: the lobby and its Redis thread have handled what they were sent
  before a login server's Redis thread takes its next closure.
* `Patient = TRUE` (`PlayerMoney`): a player asks for nothing that moves or reloads his
  money while a load or a change of server he asked for is not answered, and loads once.
* `DbKeepsUp = TRUE` (`PlayerMoney`): the loads and saves of a player that were sent are
  done before a message about him arrives that took the longer way through the login
  server, and the pool has done one statement of his before it gets the next.
* `SameIds = FALSE`: two gates do not give sessions of the account the same number. Nothing
  in the code sees to it. With `TRUE`, `OneSession` excepts the states that are `Confused`.
* `Refuses`, `MayBeFull`, `MayPlay`, `SlowQueries`, `MaxCrashes`: what the environment
  may do; TRUE is the more general.
* `AsksAtOnce = 1` (`RechargeOrder`): the web asks for an order again only when nothing
  is under way for it any more.
* `FailsFast = FALSE` (`NetworkConnectSession`): an attempt does not fail before
  `tick()` has reached its compare-and-exchange, a few instructions later.

What happens without them was found with the same modules and other constants:

| property | fails with | because |
|---|---|---|
| `NoStaleBytes` | the constants of `write` | `reset()` keeps `buf2_write_`: bytes of the old connection go out on the new one |
| `DispatchedWhole`, once an overflow block is used | the constants of `read` | bytes that arrive while a block waits go in front of it; payload is taken for a header |
| `SentInOrder` | the constants of `write` | a later message overtakes the tail of an earlier one through the overflow blocks |
| `ConnectingHasAttempt`, `Reconnects` | `FailsFast = TRUE` | the exchange from DISCONNECT succeeds after the failure: CONNECTING for ever |
| `StopClosesAll` without its `~reused` | the constants of `allocator` | a connection that got the number of a closed session still in the table is not entered, and `close_all_session` does not reach it (`NetworkServer.cpp:69`) |
| `Answered` | two clients one after the other, two login servers | the answer to a kick arrives before the entry it is to find is written |
| `OneSession` without its `Confused` | two clients one after the other, two gates, refusals, two tries, `SameIds = TRUE` | a login at another gate with the number of the client that is in is taken for a repetition of that client's own (`LoginSession.cpp:241`), see below |
| `HasPlayer`, `HasInfo`, `NoGhost`, `Answered`, `LogoutOwn`, safety of `Promise` | the same | the same |
| `Answered` | `Overlap = TRUE` | there is one `player_login_info_temp` for all who wait |
| `LogoutOwn` | `Patient = FALSE`, or a crash and two gates | a logout is found by account, not by session |
| `NoGhost` | `Patient = FALSE`, or a crash | the client is gone before the lobby's player exists |
| `OfflineExit` | `MayPlay = TRUE`, two clients | the table logs out a player who has come back |
| `HasInfo` | two login servers with refusals, or a crash | a refusal deletes the entry of the login that succeeds |
| `HasPlayer` | two login servers and a crash, or `Overlap` and a crash | a logout of the old session reaches the new one |
| `OneSession` | three clients, two gates, two login servers, a crash | as `login_double`, without `Overlap` |
| `AddsUp` | `Patient = FALSE` | the snapshot that goes along with a change, or a second load, brings back what a transfer had debited |
| `AddsUp` | `DbKeepsUp = FALSE` | a load overtakes the save of the last logout; a save of the server that was left arrives after one of the next server; two threads swap two saves |
| `PotPaid` | the constants of `texas` | `show_down_with_one_player` sets `win_money` to the pot and, three lines on, to 0 (`texas_table.lua:906`) |
| `PaidOnce` | `AsksAtOnce = 2` | two lookups of one order both find `server_status` 0 |
| `NothingForgotten` without its `TakenForAnother` | two refunds | both have `order_id` -1, and the second finds the row of the first (`DBConfigSession.cpp:180`) |
| `NobodyLeavesGame` | the constants of `land` | `stand_up`, `change_table` and `change_chair` do not ask `isPlay`, as `stand_up_and_exit_room` does |

Two gates are two processes, and each counts its own sockets, so equal numbers are nothing
rare. The second client, with the first one's number at another gate, logs in:
`on_cl_login` finds the entry of the first, compares the numbers, and goes on to the
verification without kicking anybody. It is refused, and the refusal deletes
`player_login_info` (`LoginDBSession.cpp:214`), which the first, still in, needs to be
found. The second tries again, finds no entry, writes its own, and is let in beside the
first. The other five fail because one of the two takes over what belongs to the other:
the entry, the lobby's player or the answer. `NoLeftovers` holds, and with
`SameIds = FALSE` and otherwise the same constants all of them do (10,861 states).

A transfer can lose its money in five ways, which `AddsUp` allows: its target is on
this server and not loaded (an error after the debit); it has left the server Redis
named; it is there and not loaded; it has loaded before the `UPDATE` and saves after it;
or the transfer is refused and its sender has gone before he is paid back
(`on_bank.lua:498`).

And from building `LandRoom`, of things its properties do not state: a table whose
caller's chair is empty is not ended by `tick()` (`land_table.lua:1670`), and one that
everybody left while it called or doubled never becomes free; `ready()` at a table that
doubles looks for another one and calls itself for ever when there is none;
`exit_server` leaves `cur_player_count_` with a player who stands; `room_player_list_`
keeps `false` for one who left, at which `enter_room` raises an error; a player who is
offline when his landlord game ends is not logged out (`land_table.lua:1411` is
commented out); `forced_exit` sets `online`; `setTrusteeship` toggles; `isPlay` does
not count DOUBLE, so that the bank, which says that money cannot be moved in a game
(`common_enum_define.proto:60`), is open then; and `Dropped` survives to the next login,
where `tick()` then removes a player who is connected.

From building `TexasTable`, where its properties make an exception or say nothing: side
pots are paid in addition to the pot, which still holds them, so chips are made; a bet
that `cost_money` refuses is put in the pot; an all-in that nobody exceeds leaves a side
pot without players, `show_down_and_award` raises an error at it in every tick, and the
hand never ends; an error in one table's tick ends the ticks of the tables behind it;
folded players stay in the lists of side pots and may win them; `pass_count` keeps one
who has left, so that a round may close early; `player_stand_up` asks for `chair_id`
after it was set to nil; one who sits and leaves before he enters lowers
`t_player_count`; `texas_room_manager:stand_up_and_exit_room` tests `player.room_idA`;
one who is offline is kept because `player_stand_up` returns nothing; `change_table`
does not look at the room's limit; a time-out calls where its comment says fold
(`texas_table.lua:571`); a blind that leaves between `position_init` and the deal makes
the deal raise an error, with nobody dealt and the hand running; and one whose last chip
is the small blind is ALL_IN before the deal and gets no cards.

And from building `RechargeOrder`: a gate that connects to ConfigServer again does not
tell its type and number (`GateConfigSession.cpp:39`), so the players it announces are
mapped to gate 0, their orders are dropped by `send2Gate_pb_ServerID`, whose result
nobody looks at, and no retry helps as long as the player stays; the `UPDATE` at a load
compares `serial_order_no` with the order's id, so that `server_status` stays 6
(`on_login_logout.lua:414`); `GF_PlayerOut` of the old gate may come after
`GF_PlayerIn` of the new one, and the order of a player who is online is then put down;
and where `change_bank` fails, `on_changmoney_deal` concatenates a boolean and nothing is
sent.

## 5. Fairness

* `write`: `PostMove`, `PostWakeup` (the logic thread calls `tick()` for ever) and `Io`
  (an `io_service` runs the handlers that are ready, a socket completes its writes).
  Nobody has to send.
* `read`: `HandleRead`, `DoClose`, `Tick`, `Dispatch`, for the same reasons. The peer
  need not send.
* `connect`: the logic thread's two halves, the io thread, and the passing of time. A
  peer need not fail, and need not come back.
* `allocator`: `Tick`, `ReleaseAll`, `StopRun`, `Alloc` or `Start`, and each `DoClose`.
  No peer has to connect or to close.
* `login`: the servers together handle what has arrived, in some order; a game that runs
  ends. One condition for all of them (`Handling`) asks less than one for each. Clients
  need do nothing, gates need not crash.
* `texas`: the room ticks. Players need not act: the time-out acts for them. `MCSpec` spells
  the weak fairness of `Tick` out with `CanTick`, which says when a tick changes the
  table, because TLC evaluates `ENABLED` of the tick too slowly.
* `recharge`: every process takes its messages and the pool's threads their statements.
  Nobody need come, go or ask; that the web asks again and again is the premise of
  `RetryWins`, and so is that no gate has lost its connection to ConfigServer.
* `money` has no liveness property: a transfer whose sender leaves is decided or lost
  by messages that always arrive, and nothing waits.
* `land` has no liveness property: the timers of `tick()` do not end every game, see
  above.

All of it is weak fairness: an action that stays possible is taken.

## 6. Proofs

Every theorem is `Spec => ...` for all values of the constants that satisfy the assumption
of its module: buffers of at least one byte and messages that fit in them, at least one
table and chair, finite sets of players, gates and game servers where something is
counted, names of processes that differ, and at a poker table two chairs, a small blind of at
least one and stacks that are not negative. Four kinds of theorem have a hypothesis
more, which is part of the statement and which a passing run satisfies, and some formulas
have an exception:

| theorem | hypothesis or exception | because |
|---|---|---|
| `AccountLogin_proofs`, all but `TypeCorrect` | `OneByOne`: `~Overlap`, `Patient`, `Prompt`, `~MayPlay`, no crash, one login server | each part has a row in the table of section 4 |
| the same | `Confused`: the formulas hold as long as it does not; `LogoutOwnSafe` and `PromiseSafe` speak of behaviours in which it never does | two gates gave the same number, see section 4 |
| `PlayerMoney_proofs` | `Patient`, `DbKeepsUp` | the two rows of `AddsUp` in section 4 |
| `PaidOnceSafe` | `AsksAtOnce <= 1` | two lookups of one order both pay |
| `NothingForgottenSafe` | `TakenForAnother`, in the formula: the row of another refund was there to be found | all refunds have `order_id` -1; the theorem holds for any number of them |
| `DispatchedWholeSafe` | no overflow block used, in the formula | bytes go in front of a block that waits |

Each rests on an inductive invariant, proved in three steps: it holds initially, one lemma
per action that it is kept, and the implication.

* **NetworkSessionWrite_proofs**: `TypeCorrect`, `WakeupSafe`, `OrderSafe`, `Stable`,
  `NothingLost`. `IInv = TypeOK /\ Control /\ NoLostWakeup /\ Fifo`. `NoLostWakeup` alone
  is not inductive: `Control` ties what the io thread and the logic thread are about to
  do to `sending_`, `inflight` and the queued `do_write`s. `OrderedUnlessOverflowed` is
  not inductive because it speaks of the network alone: `Fifo` says that wire,
  `send_buf_` and `write_buf_`, one after the other, are the bytes accepted. For
  `NothingLost` the order is given up and the blocks come in: `Layout` says that this
  stream and the blocks together hold the bytes 1 to `accepted`, each once. Bytes are
  compared by place, never by flattening the list of blocks, so no induction over it is
  needed. It holds on the first connection, since `reset()` keeps the blocks.
* **NetworkSessionRead_proofs**: `TypeCorrect`, `StreamIntactSafe`, `RepeatedSafe`,
  `DispatchedWholeSafe`. A stream is cut by two predicates: `Whole(s, n, m)`, it consists
  of messages up to the m-th, and `Starts(s, n, a, m)`, it does so from the a-th on. What
  is on the network and what is in the buffers is one stream, which dispatch, while it
  does not hold the lock, cuts at the position it has reached; `Control` says where that
  may be, `Intact` that both sides are whole, `Order` with which message the rest begins.
  The invariant is needed at every cut of a header by a read and of a message by the end
  of the buffer.
* **NetworkLife_proofs**, the connecting end: `ConnectTypeCorrect`, `ConnectedSafe`,
  `ConnectingSafe`, `TimeoutSafe`. `ConnectInv = ConnectTypeOK /\ Attempt /\ Silence /\ Progress`: where an
  outstanding attempt can be, that nothing heard survives its connection, and that
  without fast failures an attempt leads somewhere.
* **NetworkLife_proofs**, the accepting end: `TypeCorrect`, `NotifiedOnceSafe`, `NoneForgottenSafe`,
  `StopClosesAllSafe`. `Table` relates the table to the sessions' own numbers, `Accepted`
  says where a session is that the acceptor still holds, `Visits` that a tick has left to
  visit only what the table has, `NotifiedClosed` that a session which was told is neither
  open nor in the table, `Ended` that nothing runs after the release.
* **AccountLogin_proofs**: `TypeCorrect` without a hypothesis, by the process that keeps
  the variables (`NetOK`, `GateOK`, `RedisOK`, `LoginOK`, `DbOK`, `LobbyOK`). Under
  `OneByOne`: `OneSessionSafe`, `HasPlayerSafe`, `HasInfoSafe`, `NoGhostSafe`,
  `NoLeftoversSafe`, `LogoutOwnSafe`, and `PromiseSafe`, that `AccountLogin` implements
  `AccountPromise!Safety`. None of these is inductive, because each says something about
  gates, Redis and lobby that their messages will only make true. `Serial` names the
  state of the whole cluster by three things: `at`, which message, closure or query
  carries the one login under way; `rest`, how much is left of the session that was in
  (in, its `S_Logout` on the way, a command of the lobby's Redis thread to run); and
  `first`, a closure of the Redis thread that comes before the login's. `Fits` says which
  of them go together, the other parts what each process then holds, and that every other
  queue is empty. Each action moves `at`, `rest` or `first` by one. The servers tell
  sessions apart by numbers, so what is inductive is `IType /\ (Confused \/ Serial)`: as
  long as no two gates have given one number, one that leads to a session in a gate's table
  leads to the right one, whatever numbers of closed sessions were given again (`Meets`,
  `Fresh`), and once two have, it stays so (`StaysConfused`). `NotConfused` says that
  `~SameIds` rules it out. Each theorem is then about the states or the behaviours before,
  with `SameIds` either way. The refinement goes by
  action: `OnCLLogin` is `Ask`, `LobbyNotify` is `Admit`, `GateLoggedIn` is `Enter`,
  `GateRefused` is `Refuse`, a socket that closes is `Leave`, `LobbyLogout` is `Release`;
  the login servers, Redis and the database only stutter.
* **LandRoom_proofs**: `TypeCorrect`, `SeatsSafe`, `ReadySafe`, `WaitingSafe`,
  `DealtSafe`, `ChairSafe`. `IInv` has `TypeOK`, `SeatsAgree` (as `ChairsAgree`),
  `InRoom` (a seat is in the room), `Known` (whoever is in the room is a player the
  lobby has), `Present` (whoever is connected is one), `ReadySeated` and `Gone` (a
  player who is seated and not connected is marked `Dropped` and his table plays).
  `WaitingArePresent` follows from `Gone`. `DealtToAll` and `KeepsChair` are about
  steps: the lemmas before them go through the actions that deal, and through those
  that end a connection.
* **PlayerMoney_proofs**: `TypeCorrect`, `AddsUpSafe`. What the database holds says nothing
  while somebody is in: the same balance is then in an object, in a load or a save under
  way, in a change of server and in a row that will be overwritten. `Worth(p, R)` picks
  out of these the copies that can still become the balance of p (not a save with a later
  one behind it, not the row while a save is coming, neither while an object is dirty) and
  says that they are all in R. `Bounded` has a lower and an upper balance for every player
  such that `Worth(p, lo[p]..hi[p])`, the upper ones with the coins of transfers under way
  and the unpaid recharges no more than at the beginning, the lower ones with the accepted
  transfers no less. Two balances and not one, because a change of server carries an older
  balance than the object it leaves behind, and a transfer may be lost. `Control` says what
  there is of a player at a time (one object, one notice, one change, one load) and what
  excludes what, `Rows` bounds what will be overwritten. The queues are one function
  (`Mail`), and the lemmas speak of values, so that a handler is a chain of them: a message
  gone, a message moved, a coin in hand (`Held`). A sum is the number of its coins, as in
  `AddsUp`, so that it grows by one without an induction.
* **RechargeOrder_proofs**: `TypeCorrect`, `DealtWithSafe`, `NothingForgottenSafe`,
  `PaidOnceSafe`. `Base` has the types of all messages and statements, that a player has
  one object in all game servers (`OneObject`), without which a second one could be paid,
  and that a load marks no more rows than there are (`Marks`). `Settled` and `Kept` say
  what stands behind the `UPDATE`s that are pending: an order is marked as dealt with
  only when its payment or its row is there. `OneWay` counts what is under way for an
  order, in the queues and in the pool: at most one lookup, message or `INSERT` at a time,
  and none that could pay once it is paid; `Back` does so for a refund. What `Kept` says of
  a refund is that it is safe or that a row with its key exists (`IsDeal`), which is its
  own or, if it waits for nothing, another one's (`TakenForAnother`).
* **TexasTable_proofs**: `Invariance`, `TypeCorrect`, `ChipsMadeSafe`, `ChipsLostSafe`, for
  any finite number of players, chairs (two or more), blinds, stacks and raises, and any
  outcome of a comparison. `IInv` is `Sound` of the table and that no error lasts.
  `TypeOK` is not inductive: that the count of players is not negative and nobody is
  charged below zero needs `Highest` (no bet is above `t_cur_max_bet`, so that what a call
  or a time-out asks for is not negative), `Owed` (no side pot is), `Idle` (a table that
  waits has no pot, no bets and nobody to think, so that nobody can bet before the deal),
  `Awarded` and `Dealt`. The handlers are compositions of functions from a table to a
  table, so the lemmas are about these: each takes a `Sound` table to a `Sound` one, errors
  included, and says what became of the chips: `Kept` (nothing moved), `Moved` (from a
  player to the pot), `Started` (the first half of a tick), `Settled` (the settlement).
  An action is a chain of them. What chips there are is a sum over the players, and what
  is won a fold over the side pots and the chairs. The sums and folds of the community
  modules are functions on the parts of a finite set, so what they yield can be proved
  without an induction theorem, from a least part for which it fails (`SubsetInduction`,
  `FoldExists`, `SumIs`); `SumAdd`, `SumLeq`, `SumSame` and `SumUpdate` are what the
  settlement needs, `PaidOut` what it pays in all.

  The attempt to prove it showed that `ChipsLost` was wrong, although the run passed: it
  allowed a loss after the settlement only by one who has been told to think. With a player
  who comes three times TLC finds the counterexample in twelve steps: `t_active_player` and
  `t_next_player` keep the seat of somebody who left and came back elsewhere; the hand is
  settled with one player left; somebody sits down on the active chair; and as the round is
  not over, `start_game` charges him for it although nobody has told him to think. The bet
  goes into a pot that has been paid and is reset (`texas_table.lua:563`). `ChipsLost` now
  names the case. `ChipsMade` had to be widened, too: it spoke of a player short of one
  blind, but no part of the invariant keeps the two blinds off one chair, and who sits
  there pays both. No run has met that.

`ConnectedHasNoAttempt`, `ReadySeated`, `InflightStable`, `StopClosesAll`, `LogoutOwn` and
`DispatchedWhole` are in no run: they are proved instead.

Checked by TLC only:

* all liveness (`EventuallySent`, `EventuallyDispatched`, `DeadPeerDropped`, `Reconnects`,
  `ClosedIsNotified`, `RetryWins`, `Answers` and `Releases` of `AccountPromise`, that a
  hand ends): fairness and `ENABLED` are beyond the prover;
* `AccountLogin` with clients at the same time, with crashes or with games
  (`login_overlap`): its invariant would have to name the state of two logins in all
  their orders, and some of the properties do not hold there;
* `PlayerMoney` without `Patient` or `DbKeepsUp`, where the sums do not hold;
* `FailedIsInserted` and the `OneSession` of `login_double`, which do not hold.

## 7. Not modelled

* Items, deposits and draws, the costs and gains of the games, transfers by account
  (the steps of a transfer by guid, with one more read of Redis), the crash of a game
  server or of the database, statements that MySQL refuses.
* The other half of ConfigServer, discovery: the servers of the models know each other.
  It hands out rows of a table. `WF_CashFalse`, which is `WF_Recharge` with another
  table, the answers to the web (`DF_Reply`), and restarts of ConfigServer.
* The maintenance switch, guests, SMS, validation boxes, several accounts at a time:
  they do not change the course of a login. Refusals stand for every way it fails.
* Undefined behaviour at the C++ level that is none of a model's steps: the lists of
  sessions in `LoginSessionManager` are read by closures on the Redis thread while the
  logic thread changes them.
* The comparison of hands in Texas hold'em, its chat and lists, the dealer's reward.
* The cards of the landlord game, its scores and the settlement of the money; the
  robots; several rooms; blacklists.
* The other card games (ox, zhajinhua, maajan, showhand), the slot machines and the fishing game. They use the rooms as
  the landlord game does; their rounds are their own.
* GmServer and the web interface, the load generator, logging, crypto, the bindings
  between Lua and C++, and the vendored libraries: no protocol state of this program.
* SQL: the database's answers are inputs of the models.
