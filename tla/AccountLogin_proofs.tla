------------------------- MODULE AccountLogin_proofs -------------------------
(***************************************************************************)
(* Proofs about AccountLogin, for any clients and gates.                   *)
(*                                                                         *)
(* Without further assumptions: every queue between two processes carries  *)
(* only messages its reader knows, every closure and every query names a   *)
(* client, and the count of players never falls below zero.                *)
(*                                                                         *)
(* As long as clients log in one after the other (OneByOne), and until two *)
(* gates have given sessions of the account the same number (Confused):    *)
(* one client is in at a time, lobby and Redis agree with the gates about  *)
(* it, and every step of the cluster is one of AccountPromise or none.     *)
(* The inductive invariant, Serial, says where the one login is that is    *)
(* under way, how much is left of the session that was in before, and      *)
(* that nobody else can be taken for that session while the login meets    *)
(* it, although a gate gives the numbers of closed sessions again.         *)
(***************************************************************************)
EXTENDS AccountLogin, SequenceTheorems, TLAPS

-----------------------------------------------------------------------------
(* Types *)

\* The type invariant by the process that keeps the variables.
NetOK == net \in [Links -> Seq(Msgs)]
GateOK ==
    /\ up \subseteq Gates /\ crashes \in 0..MaxCrashes
    /\ sock \in [Clients -> {"new", "open", "closed", "gone"}]
    /\ gate \in [Clients -> Gates \union {None}] /\ session_id \in [Clients -> Clients]
    /\ closing \subseteq Clients /\ send_login \subseteq Clients
    /\ in_game \subseteq Clients /\ user_data \subseteq Clients
    /\ tries \in [Clients -> 0..MaxTries]
    /\ quque \in [Gates -> Clients \union {None}] /\ client \in [Gates -> Clients \union {None}]
\* The numbers of the sessions: a gate's table has a session of a number once, and two
\* gates share no number unless SameIds.  Whoever has not connected has not asked.
InTable(s) == sock[s] \in {"open", "closed"}
SameNumber(s, t) == sock[s] # "new" /\ sock[t] # "new" /\ session_id[s] = session_id[t]
NumbersOK ==
    /\ \A s \in Clients : sock[s] # "new" => sock[session_id[s]] # "new"
    /\ \A s, t \in Clients : SameNumber(s, t) => SameIds \/ gate[s] = gate[t]
    /\ \A s, t \in Clients : SameNumber(s, t) /\ InTable(s) /\ InTable(t) /\ gate[s] = gate[t] => s = t
    /\ \A s \in Clients : sock[s] = "new" => tries[s] = 0
    /\ \A s \in send_login : tries[s] > 0
Infos == [s : Clients, guid : BOOLEAN] \union {NoInfo}
RedisOK == info \in Infos /\ temp \in Clients \union {None} /\ online \in BOOLEAN
LoginOK ==
    /\ cmds \in [Logins -> Seq(Closures)] /\ job \in [Logins -> Jobs]
    /\ replies \in [Logins -> Seq(Answers)]
Queries == [l : Logins, s : Clients]
DbOK == queries \in Seq(Queries) /\ listed \in BOOLEAN
Players == [s : Clients, playing : BOOLEAN, is_offline : BOOLEAN] \union {NoPlayer}
Orders == {"hdel_info", "hdel_online"}
\* A player object has been counted.
LobbyOK ==
    /\ player \in Players /\ player_count \in Nat /\ lobby_cmds \in Seq(Orders)
    /\ player # NoPlayer => player_count # 0

IType == NetOK /\ GateOK /\ NumbersOK /\ RedisOK /\ LoginOK /\ DbOK /\ LobbyOK

LEMMA ITypeOK == IType => TypeOK
BY DEF IType, TypeOK, NetOK, GateOK, RedisOK, LoginOK, DbOK, LobbyOK, Infos, Players, Queries, Orders

\* What a process does not touch keeps its type.
LEMMA Kept ==
    /\ NetOK /\ net' = net => NetOK'
    /\ GateOK /\ UNCHANGED gate_vars => GateOK'
    /\ NumbersOK /\ UNCHANGED gate_vars => NumbersOK'
    /\ RedisOK /\ UNCHANGED redis_vars => RedisOK'
    /\ LoginOK /\ UNCHANGED login_vars => LoginOK'
    /\ DbOK /\ UNCHANGED db_vars => DbOK'
    /\ LobbyOK /\ UNCHANGED lobby_vars => LobbyOK'
<1>1. NetOK /\ net' = net => NetOK'
  BY DEF NetOK
<1>2. GateOK /\ UNCHANGED gate_vars => GateOK'
  BY DEF GateOK, gate_vars
<1>3. RedisOK /\ UNCHANGED redis_vars => RedisOK'
  BY DEF RedisOK, redis_vars
<1>4. LoginOK /\ UNCHANGED login_vars => LoginOK'
  BY DEF LoginOK, login_vars
<1>5. DbOK /\ UNCHANGED db_vars => DbOK'
  BY DEF DbOK, db_vars
<1>6. LobbyOK /\ UNCHANGED lobby_vars => LobbyOK'
  BY DEF LobbyOK, lobby_vars
<1>7. NumbersOK /\ UNCHANGED gate_vars => NumbersOK'
  BY DEF NumbersOK, SameNumber, InTable, gate_vars
<1> QED BY <1>1, <1>2, <1>3, <1>4, <1>5, <1>6, <1>7

\* A function of queues stays one when something is put behind a queue or the head
\* of a queue is taken.
LEMMA QueuePut ==
    ASSUME NEW K, NEW M, NEW q \in [K -> Seq(M)], NEW k, NEW m \in M
    PROVE  [q EXCEPT ![k] = Append(@, m)] \in [K -> Seq(M)]
<1>1. CASE k \in K
  <2>1. Append(q[k], m) \in Seq(M)
    BY <1>1, AppendProperties
  <2> QED BY <1>1, <2>1
<1>2. CASE k \notin K
  BY <1>2
<1> QED BY <1>1, <1>2

LEMMA QueueTake ==
    ASSUME NEW K, NEW M, NEW q \in [K -> Seq(M)], NEW k \in K, q[k] # <<>>
    PROVE  /\ [q EXCEPT ![k] = Tail(@)] \in [K -> Seq(M)]
           /\ Head(q[k]) \in M
<1>1. Tail(q[k]) \in Seq(M) /\ Head(q[k]) \in M
  BY HeadTailProperties
<1> QED BY <1>1

LEMMA PutType ==
    ASSUME NEW n \in [Links -> Seq(Msgs)], NEW k, NEW m \in Msgs
    PROVE  Put(n, k, m) \in [Links -> Seq(Msgs)]
BY QueuePut DEF Put

LEMMA TookType ==
    ASSUME NetOK, NEW k \in Links, NEW type, Arrives(k, type)
    PROVE  Took(k) \in [Links -> Seq(Msgs)] /\ Head(net[k]) \in Msgs /\ Head(net[k]).type = type
BY QueueTake DEF NetOK, Arrives, Took

LEMMA PushCmd ==
    ASSUME NEW q \in [Logins -> Seq(Closures)], NEW l, NEW c \in Closures
    PROVE  Push(q, l, c) \in [Logins -> Seq(Closures)]
BY QueuePut DEF Push

LEMMA PushReply ==
    ASSUME NEW q \in [Logins -> Seq(Answers)], NEW l, NEW c \in Answers
    PROVE  Push(q, l, c) \in [Logins -> Seq(Answers)]
BY QueuePut DEF Push

\* The links of the cluster.
LEMMA LinkType ==
    /\ \A g \in Gates, l \in Logins : <<g, l>> \in Links /\ <<l, g>> \in Links
    /\ \A g \in Gates : <<g, Lobby>> \in Links /\ <<Lobby, g>> \in Links
    /\ \A l \in Logins : <<l, Lobby>> \in Links /\ <<Lobby, l>> \in Links
                         /\ <<l, Db>> \in Links /\ <<Db, l>> \in Links
BY DEF Links

\* Messages, closures and answers that the processes make.
LEMMA MadeType ==
    ASSUME NEW s \in Clients, NEW flag \in BOOLEAN, NEW other \in Clients
    PROVE  /\ \A type \in {"CL_Login", "LC_Login", "S_Logout", "LG_KickClient", "LS_LoginNotify",
                           "LD_VerifyAccount", "DL_VerifyAccountResult"} : Msg(type, s, flag) \in Msgs
           /\ Msg("L_KickClient", None, flag) \in Msgs
           /\ \A type \in {"login", "logout", "result", "hset_temp", "takeover"} :
                 Msg(type, s, flag) \in Closures
           /\ Msg("hdel_info", None, flag) \in Closures /\ Msg("kicked", None, flag) \in Closures
           /\ \A type \in {"get_other", "forget", "where", "reconnect", "enter"} :
                 Msg(type, s, flag) \in Jobs
           /\ \A type \in {"verify", "notify", "no_lobby"} : Msg(type, s, flag) \in Answers
           /\ [type |-> "kick", s |-> s, flag |-> flag, other |-> other] \in Answers
BY DEF Msgs, Closures, Jobs, Answers, Msg

\* What a message, a closure or an answer of one of the types holds.
LEMMA HeldType ==
    /\ \A m \in Msgs : /\ m.flag \in BOOLEAN /\ m = Msg(m.type, m.s, m.flag)
                       /\ m.type # "L_KickClient" => m.s \in Clients
                       /\ m.type = "L_KickClient" => m.s = None
    /\ \A c \in Closures : /\ c.flag \in BOOLEAN
                           /\ c.type \notin {"kicked", "hdel_info"} => c.s \in Clients
    /\ \A j \in Jobs : j # Idle => j.s \in Clients /\ j.flag \in BOOLEAN
    /\ \A j \in Jobs : j.type = "idle" <=> j = Idle
    /\ \A a \in Answers : /\ a.s \in Clients /\ a.flag \in BOOLEAN
                          /\ a.type = "kick" => a.other \in Clients
                          /\ a.type # "kick" => a = Msg(a.type, a.s, a.flag)
BY DEF Msgs, Closures, Jobs, Answers, Msg, Idle

LEMMA InitType == Init => IType
<1> SUFFICES ASSUME Init PROVE IType
  OBVIOUS
<1> USE DEF Init
<1>1. NetOK
  <2>1. <<>> \in Seq(Msgs)
    BY EmptySeq
  <2> QED BY <2>1 DEF NetOK
<1>2. GateOK
  BY LoginAssumption DEF GateOK
<1>3. RedisOK
  BY DEF RedisOK, Infos
<1>4. LoginOK
  <2>1. <<>> \in Seq(Closures) /\ <<>> \in Seq(Answers)
    BY EmptySeq
  <2>2. Idle \in Jobs
    BY DEF Jobs
  <2> QED BY <2>1, <2>2 DEF LoginOK
<1>5. DbOK
  <2>1. <<>> \in Seq(Queries)
    BY EmptySeq
  <2> QED BY <2>1 DEF DbOK
<1>6. LobbyOK
  <2>1. <<>> \in Seq(Orders)
    BY EmptySeq
  <2> QED BY <2>1 DEF LobbyOK, Players
<1>7. NumbersOK
  BY DEF NumbersOK, SameNumber
<1> QED BY <1>1, <1>2, <1>3, <1>4, <1>5, <1>6, <1>7 DEF IType

\* Only Connect gives out numbers.
LEMMA NumbersStay ==
    ASSUME GateOK, NumbersOK, UNCHANGED <<session_id, gate>>,
           \A t \in Clients : /\ sock'[t] = "new" <=> sock[t] = "new"
                              /\ InTable(t)' => InTable(t)
                              /\ sock[t] = "new" => tries'[t] = 0,
           \A t \in send_login' : tries'[t] > 0
    PROVE  NumbersOK'
<1>1. \A s, t \in Clients : SameNumber(s, t)' => SameNumber(s, t)
  BY DEF SameNumber
<1>2. \A s \in Clients : sock'[s] # "new" => sock'[session_id'[s]] # "new"
  BY DEF NumbersOK, GateOK
<1>3. \A s, t \in Clients : SameNumber(s, t)' => SameIds \/ gate'[s] = gate'[t]
  BY <1>1 DEF NumbersOK
<1>4. \A s, t \in Clients : SameNumber(s, t)' /\ InTable(s)' /\ InTable(t)' /\ gate'[s] = gate'[t] => s = t
  BY <1>1 DEF NumbersOK
<1> QED BY <1>2, <1>3, <1>4 DEF NumbersOK

\* A session that connects has a new number, or one that is free at its gate.
LEMMA NumbersGiven ==
    ASSUME GateOK, NumbersOK, NEW s \in Clients, NEW g \in Gates, Connect(s, g)
    PROVE  session_id' \in [Clients -> Clients] /\ NumbersOK'
<1>1. /\ sock[s] = "new" /\ sock' = [sock EXCEPT ![s] = "open"] /\ gate' = [gate EXCEPT ![s] = g]
      /\ UNCHANGED <<tries, send_login>>
  BY DEF Connect
<1>2. PICK n \in Numbers(s, g) : Holders(g, n) = {} /\ session_id' = [session_id EXCEPT ![s] = n]
  BY DEF Connect
<1>3. sock \in [Clients -> {"new", "open", "closed", "gone"}] /\ gate \in [Clients -> Gates \union {None}]
      /\ session_id \in [Clients -> Clients]
  BY DEF GateOK
<1>4. n = s \/ \E t \in Clients : sock[t] # "new" /\ (SameIds \/ gate[t] = g) /\ n = session_id[t]
  BY <1>2 DEF Numbers
<1>5. n \in Clients /\ session_id' \in [Clients -> Clients]
  BY <1>2, <1>3, <1>4
<1>6. sock'[s] = "open" /\ gate'[s] = g /\ session_id'[s] = n
  BY <1>1, <1>2, <1>3
<1>7. \A t \in Clients \ {s} : sock'[t] = sock[t] /\ gate'[t] = gate[t] /\ session_id'[t] = session_id[t]
  BY <1>1, <1>2, <1>3
<1>8. n = s \/ sock[n] # "new"
  BY <1>4 DEF NumbersOK
<1>9. sock'[n] # "new"
  BY <1>5, <1>6, <1>7, <1>8
<1>10. \A t \in Clients : sock'[t] # "new" => sock'[session_id'[t]] # "new"
  <2> TAKE t \in Clients
  <2>1. CASE t = s
    BY <2>1, <1>6, <1>9
  <2>2. CASE t # s
    <3>1. sock[t] # "new" => sock[session_id[t]] # "new" /\ session_id[t] # s /\ session_id[t] \in Clients
      BY <1>1, <1>3 DEF NumbersOK
    <3> QED BY <2>2, <3>1, <1>7
  <2> QED BY <2>1, <2>2
<1>11. \A t \in Clients \ {s} : SameNumber(s, t)' => SameIds \/ gate[t] = g
  <2> SUFFICES ASSUME NEW t \in Clients \ {s}, sock[t] # "new", session_id[t] = n
               PROVE  SameIds \/ gate[t] = g
    BY <1>6, <1>7 DEF SameNumber
  <2>1. n # s
    BY <1>1 DEF NumbersOK
  <2>2. PICK u \in Clients : sock[u] # "new" /\ (SameIds \/ gate[u] = g) /\ n = session_id[u]
    BY <2>1, <1>4
  <2>3. SameNumber(t, u)
    BY <2>2 DEF SameNumber
  <2> QED BY <2>2, <2>3 DEF NumbersOK
<1>12. \A t, u \in Clients \ {s} : (SameNumber(t, u)' => SameNumber(t, u)) /\ (InTable(t)' => InTable(t))
  BY <1>7 DEF SameNumber, InTable
<1>13. \A t, u \in Clients : SameNumber(t, u)' => SameIds \/ gate'[t] = gate'[u]
  <2> TAKE t, u \in Clients
  <2>1. SameNumber(t, u)' => SameNumber(u, t)'
    BY DEF SameNumber
  <2>2. CASE t = s
    BY <2>2, <1>6, <1>7, <1>11
  <2>3. CASE u = s
    BY <2>1, <2>3, <1>6, <1>7, <1>11
  <2>4. CASE t # s /\ u # s
    BY <2>4, <1>7, <1>12 DEF NumbersOK
  <2> QED BY <2>2, <2>3, <2>4
<1>14. \A t \in Clients \ {s} : ~(SameNumber(s, t)' /\ InTable(t)' /\ gate'[t] = g)
  BY <1>2, <1>6, <1>7 DEF SameNumber, InTable, Holders
<1>15. \A t, u \in Clients : SameNumber(t, u)' /\ InTable(t)' /\ InTable(u)' /\ gate'[t] = gate'[u] => t = u
  <2> TAKE t, u \in Clients
  <2>1. SameNumber(t, u)' => SameNumber(u, t)'
    BY DEF SameNumber
  <2>2. CASE t = s
    BY <2>2, <1>6, <1>14
  <2>3. CASE u = s
    BY <2>1, <2>3, <1>6, <1>14
  <2>4. CASE t # s /\ u # s
    BY <2>4, <1>7, <1>12 DEF NumbersOK
  <2> QED BY <2>2, <2>3, <2>4
<1>16. (\A t \in Clients : sock'[t] = "new" => tries'[t] = 0) /\ \A t \in send_login' : tries'[t] > 0
  BY <1>1, <1>6, <1>7 DEF NumbersOK
<1> QED BY <1>5, <1>10, <1>13, <1>15, <1>16 DEF NumbersOK

\* The session a number finds is a client's, and is the one that was meant if that one
\* is in the table.
LEMMA FoundById ==
    ASSUME GateOK, NumbersOK, NEW s \in Clients
    PROVE  /\ FindById(s) \in Clients
           /\ InTable(s) => FindById(s) = s
           /\ FindById(s) # s => InTable(FindById(s)) /\ session_id[FindById(s)] = session_id[s]
<1> DEFINE H == Holders(gate[s], session_id[s])
<1>1. H \subseteq Clients /\ \A t \in H : InTable(t) /\ gate[t] = gate[s] /\ session_id[t] = session_id[s]
  BY DEF Holders, InTable
<1>2. FindById(s) = IF H = {} THEN s ELSE CHOOSE t \in H : TRUE
  BY DEF FindById
<1> HIDE DEF H
<1>3. H # {} => (CHOOSE t \in H : TRUE) \in H
  OBVIOUS
<1>4. FindById(s) = s \/ FindById(s) \in H
  BY <1>2, <1>3
<1>5. ASSUME InTable(s), FindById(s) # s PROVE FALSE
  <2>1. FindById(s) \in H
    BY <1>4, <1>5
  <2>2. SameNumber(s, FindById(s))
    BY <2>1, <1>1, <1>5 DEF SameNumber, InTable
  <2> QED BY <2>1, <2>2, <1>1, <1>5 DEF NumbersOK
<1> QED BY <1>1, <1>4, <1>5

\* The steps of the clients and the gates.
LEMMA GateTypes ==
    ASSUME IType, Client \/ GateStep \/ Fault
    PROVE  IType'
<1>1. UNCHANGED <<redis_vars, login_vars, db_vars, lobby_vars>>
  BY DEF Client, GateStep, Fault, Connect, OnCLLogin, SocketCloses, OnClosed, GateLoggedIn,
         OnLoginQuque, GateRefused, GateKick, Crash, Restart
<1>2. RedisOK' /\ LoginOK' /\ DbOK' /\ LobbyOK'
  BY <1>1, Kept DEF IType
<1> SUFFICES NetOK' /\ GateOK' /\ NumbersOK'
  BY <1>2 DEF IType
<1>3. NetOK /\ GateOK /\ NumbersOK /\ net \in [Links -> Seq(Msgs)]
  BY DEF IType, NetOK
<1>4. ASSUME NEW s \in Clients, NEW g \in Gates, Connect(s, g) PROVE NetOK' /\ GateOK'
  <2>1. NetOK'
    BY <1>3, <1>4 DEF Connect, NetOK
  <2>2. GateOK'
    <3>1. session_id' \in [Clients -> Clients]
      BY <1>3, <1>4, NumbersGiven
    <3> QED BY <1>3, <1>4, <3>1 DEF Connect, GateOK
  <2> QED BY <2>1, <2>2
<1>5. ASSUME NEW s \in Clients, OnCLLogin(s) PROVE NetOK' /\ GateOK'
  <2>1. NetOK'
    BY <1>3, <1>5 DEF OnCLLogin, NetOK
  <2>2. tries[s] + 1 \in 0..MaxTries
    BY <1>3, <1>5, LoginAssumption DEF OnCLLogin, GateOK
  <2>3. GateOK'
    BY <1>3, <1>5, <2>2 DEF OnCLLogin, GateOK
  <2> QED BY <2>1, <2>3
<1>6. ASSUME NEW s \in Clients, SocketCloses(s) PROVE NetOK' /\ GateOK'
  <2>1. NetOK'
    BY <1>3, <1>6 DEF SocketCloses, NetOK
  <2>2. GateOK'
    BY <1>3, <1>6 DEF SocketCloses, GateOK
  <2> QED BY <2>1, <2>2
<1>7. ASSUME NEW s \in Clients, OnClosed(s) PROVE NetOK' /\ GateOK'
  <2>1. NetOK'
    <3>1. \A k, b \in BOOLEAN : Msg("S_Logout", s, b) \in Msgs
      BY MadeType
    <3>2. (s \in user_data) \in BOOLEAN
      OBVIOUS
    <3>3. \A k : Put(net, k, Msg("S_Logout", s, s \in user_data)) \in [Links -> Seq(Msgs)]
      BY <1>3, <3>1, <3>2, PutType
    <3>4. net' = net \/ \E k : net' = Put(net, k, Msg("S_Logout", s, s \in user_data))
      BY <1>7 DEF OnClosed
    <3> QED BY <1>3, <3>3, <3>4 DEF NetOK
  <2>2. GateOK'
    <3>1. client' = client \/ client' = [client EXCEPT ![gate[s]] = None]
      BY <1>7 DEF OnClosed
    <3>2. client' \in [Gates -> Clients \union {None}]
      BY <1>3, <3>1 DEF GateOK
    <3>3. user_data' \subseteq Clients
      BY <1>3, <1>7 DEF OnClosed, GateOK
    <3> QED BY <1>3, <1>7, <3>2, <3>3 DEF OnClosed, GateOK
  <2> QED BY <2>1, <2>2
<1>8. ASSUME NEW g \in Gates, GateLoggedIn(g) PROVE NetOK' /\ GateOK'
  <2> DEFINE k == <<Lobby, g>>  t == FindById(Head(net[k]).s)
  <2>1. k \in Links /\ Arrives(k, "LC_Login") /\ net' = Took(k)
    BY <1>8, LinkType DEF GateLoggedIn
  <2>2. Took(k) \in [Links -> Seq(Msgs)] /\ t \in Clients
    <3>1. /\ Took(k) \in [Links -> Seq(Msgs)] /\ Head(net[k]) \in Msgs
          /\ Head(net[k]).type = "LC_Login"
      <4> HIDE DEF k
      <4> QED BY <1>3, <2>1, TookType
    <3> QED BY <1>3, <3>1, HeldType, FoundById
  <2>3. GateOK'
    <3>1. client' = client \/ client' = [client EXCEPT ![g] = t]
      BY <1>8 DEF GateLoggedIn
    <3>2. client' \in [Gates -> Clients \union {None}]
      BY <1>3, <2>2, <3>1 DEF GateOK
    <3>3. in_game' = in_game \/ in_game' = in_game \union {t}
      BY <1>8 DEF GateLoggedIn
    <3> QED BY <1>3, <1>8, <2>2, <3>2, <3>3 DEF GateLoggedIn, GateOK
  <2> QED BY <2>1, <2>2, <2>3 DEF NetOK
<1>9. ASSUME NEW g \in Gates, NEW l \in Logins, OnLoginQuque(g, l) PROVE NetOK' /\ GateOK'
  <2> DEFINE t == FindById(quque[g])
  <2>1. t \in Clients
    <3>1. quque[g] \in Clients
      BY <1>3, <1>9 DEF OnLoginQuque, GateOK
    <3> QED BY <1>3, <3>1, FoundById
  <2>2. Put(net, <<g, l>>, Msg("CL_Login", t, FALSE)) \in [Links -> Seq(Msgs)]
    <3>1. Msg("CL_Login", t, FALSE) \in Msgs
      BY <2>1, MadeType
    <3> QED BY <1>3, <3>1, PutType
  <2>3. NetOK'
    BY <1>3, <1>9, <2>2 DEF OnLoginQuque, NetOK
  <2>4. GateOK'
    BY <1>3, <1>9 DEF OnLoginQuque, GateOK
  <2> QED BY <2>3, <2>4
<1>10. ASSUME NEW g \in Gates, NEW l \in Logins, GateRefused(g, l) PROVE NetOK' /\ GateOK'
  <2>1. <<l, g>> \in Links /\ Arrives(<<l, g>>, "LC_Login") /\ net' = Took(<<l, g>>)
    BY <1>10, LinkType DEF GateRefused
  <2>2. NetOK'
    BY <1>3, <2>1, TookType DEF NetOK
  <2>3. send_login' \subseteq Clients
    BY <1>3, <1>10 DEF GateRefused, GateOK
  <2>4. GateOK'
    BY <1>3, <1>10, <2>3 DEF GateRefused, GateOK
  <2> QED BY <2>2, <2>4
<1>11. ASSUME NEW g \in Gates, NEW l \in Logins, GateKick(g, l) PROVE NetOK' /\ GateOK'
  <2> DEFINE k == <<l, g>>  t == FindById(Head(net[k]).s)
  <2>1. k \in Links /\ Arrives(k, "LG_KickClient")
    BY <1>11, LinkType DEF GateKick
  <2>2. Took(k) \in [Links -> Seq(Msgs)] /\ t \in Clients
    <3>1. /\ Took(k) \in [Links -> Seq(Msgs)] /\ Head(net[k]) \in Msgs
          /\ Head(net[k]).type = "LG_KickClient"
      <4> HIDE DEF k
      <4> QED BY <1>3, <2>1, TookType
    <3> QED BY <1>3, <3>1, HeldType, FoundById
  <2>3. NetOK'
    <3>1. Msg("L_KickClient", None, TRUE) \in Msgs
      BY MadeType, <2>2
    <3>2. Put(Took(k), <<g, l>>, Msg("L_KickClient", None, TRUE)) \in [Links -> Seq(Msgs)]
      BY <2>2, <3>1, PutType
    <3> QED BY <1>11, <2>2, <3>2 DEF GateKick, NetOK
  <2>4. GateOK'
    <3>1. /\ user_data' = user_data \/ user_data' = user_data \union {t}
          /\ closing' = closing \/ closing' = closing \union {t}
      BY <1>11 DEF GateKick
    <3> QED BY <1>3, <1>11, <2>2, <3>1 DEF GateKick, GateOK
  <2> QED BY <2>3, <2>4
<1>12. ASSUME NEW g \in Gates, Crash(g) PROVE NetOK' /\ GateOK'
  <2>1. NetOK'
    <3>1. <<>> \in Seq(Msgs)
      BY EmptySeq
    <3>2. PICK lost : net' = [k \in Links |-> IF k[2] = g \/ k \in lost THEN <<>> ELSE net[k]]
      BY <1>12 DEF Crash
    <3> QED BY <1>3, <3>1, <3>2 DEF NetOK
  <2>2. /\ up' \subseteq Gates /\ crashes' \in 0..MaxCrashes
        /\ sock' \in [Clients -> {"new", "open", "closed", "gone"}]
        /\ closing' \subseteq Clients
        /\ quque' \in [Gates -> Clients \union {None}] /\ client' \in [Gates -> Clients \union {None}]
    BY <1>3, <1>12, LoginAssumption DEF Crash, GateOK
  <2>3. UNCHANGED <<gate, session_id, send_login, in_game, user_data, tries>>
    BY <1>12 DEF Crash
  <2> QED BY <1>3, <2>1, <2>2, <2>3 DEF GateOK
<1>13. ASSUME NEW g \in Gates, Restart(g) PROVE NetOK' /\ GateOK'
  <2>1. NetOK'
    BY <1>3, <1>13 DEF Restart, NetOK
  <2>2. GateOK'
    BY <1>3, <1>13 DEF Restart, GateOK
  <2> QED BY <2>1, <2>2
<1>14. NetOK' /\ GateOK'
  BY <1>4, <1>5, <1>6, <1>7, <1>8, <1>9, <1>10, <1>11, <1>12, <1>13 DEF Client, GateStep, Fault
<1>15. NumbersOK'
  <2>1. ASSUME NEW s \in Clients, NEW g \in Gates, Connect(s, g) PROVE NumbersOK'
    BY <1>3, <2>1, NumbersGiven
  <2>2. CASE ~\E s \in Clients, g \in Gates : Connect(s, g)
    <3> DEFINE Stays == /\ UNCHANGED <<session_id, gate>>
                        /\ \A t \in Clients : /\ sock'[t] = "new" <=> sock[t] = "new"
                                              /\ InTable(t)' => InTable(t)
                                              /\ sock[t] = "new" => tries'[t] = 0
                        /\ \A t \in send_login' : tries'[t] > 0
    <3>1. ASSUME NEW s \in Clients, OnCLLogin(s) PROVE Stays
      <4>1. /\ sock[s] = "open" /\ send_login' = send_login \union {s}
            /\ tries' = [tries EXCEPT ![s] = @ + 1] /\ UNCHANGED <<sock, session_id, gate>>
        BY <3>1 DEF OnCLLogin
      <4>2. tries'[s] > 0 /\ \A t \in Clients : t # s => tries'[t] = tries[t]
        BY <1>3, <4>1 DEF GateOK
      <4>3. send_login \subseteq Clients
        BY <1>3 DEF GateOK
      <4> QED BY <1>3, <4>1, <4>2, <4>3 DEF NumbersOK, InTable
    <3>2. ASSUME NEW s \in Clients, SocketCloses(s) \/ OnClosed(s) PROVE Stays
      <4>1. /\ UNCHANGED <<session_id, gate, tries, send_login>>
            /\ \/ sock[s] = "open" /\ sock' = [sock EXCEPT ![s] = "closed"]
               \/ sock[s] = "closed" /\ sock' = [sock EXCEPT ![s] = "gone"]
        BY <3>2 DEF SocketCloses, OnClosed
      <4> QED BY <1>3, <4>1 DEF NumbersOK, InTable, GateOK
    <3>3. ASSUME NEW g \in Gates, NEW l \in Logins, OnLoginQuque(g, l) \/ GateKick(g, l) PROVE Stays
      <4>1. UNCHANGED <<session_id, gate, sock, tries, send_login>>
        BY <3>3 DEF OnLoginQuque, GateKick
      <4> QED BY <1>3, <4>1 DEF NumbersOK, InTable
    <3>4. ASSUME NEW g \in Gates, NEW l \in Logins, GateRefused(g, l) PROVE Stays
      <4>1. UNCHANGED <<session_id, gate, sock, tries>> /\ send_login' \subseteq send_login
        BY <3>4 DEF GateRefused
      <4> QED BY <1>3, <4>1 DEF NumbersOK, InTable
    <3>5. ASSUME NEW g \in Gates, Crash(g) PROVE Stays
      <4>1. /\ UNCHANGED <<session_id, gate, tries, send_login>>
            /\ sock' = [s \in Clients |-> IF gate[s] = g /\ sock[s] # "new" THEN "gone" ELSE sock[s]]
        BY <3>5 DEF Crash
      <4> QED BY <1>3, <4>1 DEF NumbersOK, InTable
    <3>6. ASSUME NEW g \in Gates, GateLoggedIn(g) \/ Restart(g) PROVE Stays
      <4>1. UNCHANGED <<session_id, gate, sock, tries, send_login>>
        BY <3>6 DEF GateLoggedIn, Restart
      <4> QED BY <1>3, <4>1 DEF NumbersOK, InTable
    <3>7. Stays
      BY <2>2, <3>1, <3>2, <3>3, <3>4, <3>5, <3>6 DEF Client, GateStep, Fault
    <3> QED BY <1>3, <3>7, NumbersStay
  <2> QED BY <2>1, <2>2
<1> QED BY <1>14, <1>15

\* The logic thread of a login server takes a message.
LEMMA ReceiveType ==
    ASSUME IType, NEW l \in Logins, NEW k \in Links, NEW type, NEW op, LoginReceives(l, k, type, op),
           \/ type \in {"CL_Login", "S_Logout", "DL_VerifyAccountResult"}
              /\ op \in {"login", "logout", "result"}
           \/ type = "L_KickClient" /\ op = "kicked"
    PROVE  IType'
<1> DEFINE m == Head(net[k])
<1>1. Arrives(k, type) /\ net' = Took(k) /\ cmds' = Push(cmds, l, [m EXCEPT !.type = op])
      /\ UNCHANGED <<gate_vars, redis_vars, job, replies, db_vars, lobby_vars>>
  BY DEF LoginReceives
<1>2. NetOK' /\ m \in Msgs /\ m.type = type
  BY <1>1, TookType DEF IType, NetOK
<1>3. [m EXCEPT !.type = op] \in Closures
  <2> HIDE DEF m
  <2>1. m.flag \in BOOLEAN /\ m = Msg(m.type, m.s, m.flag)
        /\ (type # "L_KickClient" => m.s \in Clients) /\ (type = "L_KickClient" => m.s = None)
    BY <1>2, HeldType
  <2>2. [m EXCEPT !.type = op] = Msg(op, m.s, m.flag)
    BY <2>1 DEF Msg
  <2> QED BY <2>1, <2>2 DEF Closures, Msg
<1>4. LoginOK'
  <2> HIDE DEF m
  <2>1. Push(cmds, l, [m EXCEPT !.type = op]) \in [Logins -> Seq(Closures)]
    BY <1>3, PushCmd DEF IType, LoginOK
  <2> QED BY <1>1, <2>1 DEF IType, LoginOK
<1> QED BY <1>1, <1>2, <1>4, Kept DEF IType

LEMMA LoginTypes ==
    ASSUME IType, NEW l \in Logins,
           OnClLogin(l) \/ OnSLogout(l) \/ OnLKickClient(l) \/ OnDlVerifyAccountResult(l)
    PROVE  IType'
<1>1. CASE OnClLogin(l)
  BY <1>1, ReceiveType, LinkType DEF OnClLogin
<1>2. CASE OnSLogout(l)
  BY <1>2, ReceiveType, LinkType DEF OnSLogout
<1>3. CASE OnLKickClient(l)
  BY <1>3, ReceiveType, LinkType DEF OnLKickClient
<1>4. CASE OnDlVerifyAccountResult(l)
  BY <1>4, ReceiveType, LinkType DEF OnDlVerifyAccountResult
<1> QED BY <1>1, <1>2, <1>3, <1>4

\* An answer of the Redis thread is taken.
LEMMA AnswerType ==
    ASSUME IType, NEW l \in Logins, NEW type, Answering(l, type)
    PROVE  /\ replies' \in [Logins -> Seq(Answers)]
           /\ Reply(l) \in Answers /\ Reply(l).type = type
<1>1. replies \in [Logins -> Seq(Answers)]
  BY DEF IType, LoginOK
<1> QED BY <1>1, QueueTake DEF Answering, Reply

LEMMA ToClientType ==
    ASSUME IType, NEW l \in Logins, NEW s \in Clients
    PROVE  ToClient(net, l, s) \in [Links -> Seq(Msgs)]
<1>1. Msg("LC_Login", s, FALSE) \in Msgs /\ net \in [Links -> Seq(Msgs)]
  BY MadeType DEF IType, NetOK
<1>2. Put(net, <<l, gate[s]>>, Msg("LC_Login", s, FALSE)) \in [Links -> Seq(Msgs)]
  BY <1>1, PutType
<1> QED BY <1>1, <1>2 DEF ToClient

LEMMA ReplyTypes ==
    ASSUME IType, NEW l \in Logins,
           ReplyVerify(l) \/ ReplyNotify(l) \/ ReplyNoLobby(l) \/ ReplyKick(l)
    PROVE  IType'
<1> DEFINE a == Reply(l)
<1>1. /\ UNCHANGED <<gate_vars, redis_vars, job, db_vars, lobby_vars>>
      /\ replies' \in [Logins -> Seq(Answers)]
      /\ a \in Answers
  BY AnswerType DEF ReplyVerify, ReplyNotify, ReplyNoLobby, ReplyKick
<1>2. net \in [Links -> Seq(Msgs)] /\ cmds \in [Logins -> Seq(Closures)] /\ job \in [Logins -> Jobs]
  BY DEF IType, NetOK, LoginOK
<1> SUFFICES net' \in [Links -> Seq(Msgs)] /\ cmds' \in [Logins -> Seq(Closures)]
  <2>1. NetOK' /\ LoginOK'
    BY <1>1, <1>2 DEF NetOK, LoginOK
  <2> QED BY <1>1, <2>1, Kept DEF IType
<1>3. a.s \in Clients /\ a.flag \in BOOLEAN
  BY <1>1, HeldType
<1>4. CASE ReplyVerify(l)
  <2>1. Msg("LD_VerifyAccount", a.s, FALSE) \in Msgs
    BY <1>3, MadeType
  <2>2. Put(net, <<l, Db>>, Msg("LD_VerifyAccount", a.s, FALSE)) \in [Links -> Seq(Msgs)]
    BY <1>2, <2>1, PutType
  <2> QED BY <1>2, <1>4, <2>2 DEF ReplyVerify
<1>5. CASE ReplyNotify(l)
  <2>1. a.type = "notify"
    BY <1>5, AnswerType DEF ReplyNotify
  <2>2. a = Msg("notify", a.s, a.flag)
    <3> HIDE DEF a
    <3>1. a.type # "kick" => a = Msg(a.type, a.s, a.flag)
      BY <1>1, HeldType
    <3> QED BY <2>1, <3>1
  <2>3. [a EXCEPT !.type = "LS_LoginNotify"] \in Msgs
    <3> HIDE DEF a
    <3>1. [a EXCEPT !.type = "LS_LoginNotify"] = Msg("LS_LoginNotify", a.s, a.flag)
      BY <2>2 DEF Msg
    <3>2. Msg("LS_LoginNotify", a.s, a.flag) \in Msgs
      BY <1>3 DEF Msg, Msgs
    <3> QED BY <3>1, <3>2
  <2>4. Put(net, <<l, Lobby>>, [a EXCEPT !.type = "LS_LoginNotify"]) \in [Links -> Seq(Msgs)]
    BY <1>2, <2>3, PutType
  <2> QED BY <1>2, <1>5, <2>4 DEF ReplyNotify
<1>6. CASE ReplyNoLobby(l)
  <2>1. net' = ToClient(net, l, a.s) /\ cmds' = cmds
    BY <1>6 DEF ReplyNoLobby
  <2> QED BY <1>2, <1>3, <2>1, ToClientType
<1>7. CASE ReplyKick(l)
  <2>1. a.other \in Clients
    <3>1. a.type = "kick"
      BY <1>7, AnswerType DEF ReplyKick
    <3> QED BY <1>1, <3>1, HeldType
  <2>2. Put(net, <<l, gate[a.other]>>, Msg("LG_KickClient", a.other, FALSE)) \in [Links -> Seq(Msgs)]
    <3>1. Msg("LG_KickClient", a.other, FALSE) \in Msgs
      BY <2>1, MadeType
    <3> QED BY <1>2, <3>1, PutType
  <2>3. /\ Push(cmds, l, Msg("hset_temp", a.s, FALSE)) \in [Logins -> Seq(Closures)]
        /\ Push(cmds, l, Msg("takeover", a.s, a.flag)) \in [Logins -> Seq(Closures)]
    <3>1. Msg("hset_temp", a.s, FALSE) \in Closures /\ Msg("takeover", a.s, a.flag) \in Closures
      BY <1>3 DEF Msg, Closures
    <3> QED BY <1>2, <3>1, PushCmd
  <2> QED BY <1>2, <1>7, <2>2, <2>3 DEF ReplyKick
<1> QED BY <1>4, <1>5, <1>6, <1>7 DEF ReplyVerify, ReplyNotify, ReplyNoLobby, ReplyKick

\* The next closure of the Redis thread.
LEMMA CmdType ==
    ASSUME IType, NEW l \in Logins, NEW op, IsNext(l, op)
    PROVE  /\ [cmds EXCEPT ![l] = Tail(@)] \in [Logins -> Seq(Closures)]
           /\ Cmd(l) \in Closures /\ Cmd(l).type = op
           /\ op \notin {"kicked", "hdel_info"} => Cmd(l).s \in Clients
           /\ Cmd(l).flag \in BOOLEAN
<1>1. cmds \in [Logins -> Seq(Closures)] /\ cmds[l] # <<>> /\ Cmd(l).type = op
  BY DEF IType, LoginOK, IsNext
<1>2. [cmds EXCEPT ![l] = Tail(@)] \in [Logins -> Seq(Closures)] /\ Cmd(l) \in Closures
  BY <1>1, QueueTake DEF Cmd
<1> QED BY <1>1, <1>2, HeldType

LEMMA JobType ==
    ASSUME IType, NEW l \in Logins, job[l] # Idle
    PROVE  job[l].s \in Clients /\ job[l].flag \in BOOLEAN
<1>1. job[l] \in Jobs
  BY DEF IType, LoginOK
<1> QED BY <1>1, HeldType

\* A command of the Redis thread of a login server: what it may change.
LEMMA RedisTypes ==
    ASSUME IType, net' \in [Links -> Seq(Msgs)], UNCHANGED <<gate_vars, db_vars, lobby_vars>>,
           info' \in Infos, temp' \in Clients \union {None}, online' \in BOOLEAN,
           cmds' \in [Logins -> Seq(Closures)], job' \in [Logins -> Jobs],
           replies' \in [Logins -> Seq(Answers)]
    PROVE  IType'
<1>1. NetOK' /\ RedisOK' /\ LoginOK'
  BY DEF NetOK, RedisOK, LoginOK
<1> QED BY <1>1, Kept DEF IType

LEMMA RunTypes1 ==
    ASSUME IType, NEW l \in Logins,
           \/ RunLogin(l) \/ RunGetOther(l) \/ RunTakeover(l) \/ RunHsetTemp(l) \/ RunHdelInfo(l)
           \/ RunKicked(l)
    PROVE  IType'
<1>1. /\ net \in [Links -> Seq(Msgs)] /\ info \in Infos /\ temp \in Clients \union {None}
      /\ online \in BOOLEAN /\ cmds \in [Logins -> Seq(Closures)] /\ job \in [Logins -> Jobs]
      /\ replies \in [Logins -> Seq(Answers)]
  BY DEF IType, NetOK, RedisOK, LoginOK
<1>2. UNCHANGED <<gate_vars, db_vars, lobby_vars>>
  BY DEF RunLogin, RunGetOther, RunTakeover, RunHsetTemp, RunHdelInfo, RunKicked
<1>3. \A t \in Clients : /\ [s |-> t, guid |-> FALSE] \in Infos
                         /\ Push(replies, l, Msg("verify", t, FALSE)) \in [Logins -> Seq(Answers)]
                         /\ Msg("get_other", t, FALSE) \in Jobs
  <2> TAKE t \in Clients
  <2>1. Msg("verify", t, FALSE) \in Answers /\ Msg("get_other", t, FALSE) \in Jobs
    BY MadeType
  <2> QED BY <1>1, <2>1, PushReply DEF Infos
<1>4. NoInfo \in Infos /\ Idle \in Jobs /\ None \in Clients \union {None}
  BY DEF Infos, Jobs
<1>5. CASE RunLogin(l)
  <2>1. cmds' \in [Logins -> Seq(Closures)] /\ Cmd(l).s \in Clients
    BY <1>5, CmdType DEF RunLogin, Runs
  <2>2. info' \in Infos /\ job' \in [Logins -> Jobs] /\ replies' \in [Logins -> Seq(Answers)]
    BY <1>1, <1>3, <1>5, <2>1 DEF RunLogin, Then
  <2>3. UNCHANGED <<net, temp, online>>
    BY <1>5 DEF RunLogin
  <2> QED BY <1>1, <1>2, <2>1, <2>2, <2>3, RedisTypes
<1>6. CASE RunGetOther(l)
  <2> DEFINE t == job[l].s
  <2>1. t \in Clients
    BY <1>6, JobType DEF RunGetOther, Continues, Idle, Msg
  <2>2. job' \in [Logins -> Jobs]
    BY <1>1, <1>4, <1>6 DEF RunGetOther, Continues
  <2>3. net' \in [Links -> Seq(Msgs)]
    <3>1. ToClient(net, l, t) \in [Links -> Seq(Msgs)]
      BY <2>1, ToClientType
    <3>2. Put(net, <<l, Db>>, Msg("LD_VerifyAccount", t, FALSE)) \in [Links -> Seq(Msgs)]
      <4>1. Msg("LD_VerifyAccount", t, FALSE) \in Msgs
        BY <2>1, MadeType
      <4> QED BY <1>1, <4>1, PutType
    <3> QED BY <1>1, <1>6, <3>1, <3>2 DEF RunGetOther
  <2>4. replies' \in [Logins -> Seq(Answers)]
    <3>1. CASE replies' = replies
      BY <1>1, <3>1
    <3>2. CASE /\ info # NoInfo
               /\ replies' = Push(replies, l, [type |-> "kick", s |-> t, flag |-> info.guid, other |-> info.s])
      <4>1. info.s \in Clients /\ info.guid \in BOOLEAN
        BY <1>1, <3>2 DEF Infos, NoInfo
      <4>2. [type |-> "kick", s |-> t, flag |-> info.guid, other |-> info.s] \in Answers
        <5> HIDE DEF t
        <5> QED BY <2>1, <4>1, MadeType
      <4> QED BY <1>1, <3>2, <4>2, PushReply
    <3> QED BY <1>6, <3>1, <3>2 DEF RunGetOther
  <2>5. UNCHANGED <<cmds, info, temp, online>>
    BY <1>6 DEF RunGetOther, redis_vars
  <2> QED BY <1>1, <1>2, <2>2, <2>3, <2>4, <2>5, RedisTypes
<1>7. CASE RunTakeover(l)
  <2>1. cmds' \in [Logins -> Seq(Closures)] /\ Cmd(l).s \in Clients
    BY <1>7, CmdType DEF RunTakeover, Runs
  <2>2. info' \in Infos /\ online' \in BOOLEAN /\ replies' \in [Logins -> Seq(Answers)]
    BY <1>3, <1>7, <2>1 DEF RunTakeover
  <2>3. UNCHANGED <<net, temp, job>>
    BY <1>7 DEF RunTakeover
  <2> QED BY <1>1, <1>2, <2>1, <2>2, <2>3, RedisTypes
<1>8. CASE RunHsetTemp(l)
  <2>1. cmds' \in [Logins -> Seq(Closures)] /\ Cmd(l).s \in Clients
    BY <1>8, CmdType DEF RunHsetTemp, Runs
  <2>2. temp' \in Clients \union {None} /\ UNCHANGED <<net, info, online, job, replies>>
    BY <1>8, <2>1 DEF RunHsetTemp
  <2> QED BY <1>1, <1>2, <2>1, <2>2, RedisTypes
<1>9. CASE RunHdelInfo(l)
  <2>1. cmds' \in [Logins -> Seq(Closures)]
    BY <1>9, CmdType DEF RunHdelInfo, Runs
  <2>2. info' \in Infos /\ UNCHANGED <<net, temp, online, job, replies>>
    BY <1>4, <1>9 DEF RunHdelInfo
  <2> QED BY <1>1, <1>2, <2>1, <2>2, RedisTypes
<1>10. CASE RunKicked(l)
  <2>1. cmds' \in [Logins -> Seq(Closures)]
    BY <1>10, CmdType DEF RunKicked, Runs
  <2>2. /\ temp' \in Clients \union {None} /\ info' \in Infos
        /\ replies' \in [Logins -> Seq(Answers)]
    BY <1>1, <1>3, <1>4, <1>10 DEF RunKicked
  <2>3. UNCHANGED <<net, online, job>>
    BY <1>10 DEF RunKicked
  <2> QED BY <1>1, <1>2, <2>1, <2>2, <2>3, RedisTypes
<1> QED BY <1>5, <1>6, <1>7, <1>8, <1>9, <1>10

LEMMA RunTypes2 ==
    ASSUME IType, NEW l \in Logins,
           \/ RunLogout(l) \/ RunForget(l) \/ RunWhere(l) \/ RunVerified(l) \/ RunReconnect(l)
           \/ RunEnter(l) \/ RunRefused(l)
    PROVE  IType'
<1>1. /\ net \in [Links -> Seq(Msgs)] /\ info \in Infos /\ temp \in Clients \union {None}
      /\ online \in BOOLEAN /\ cmds \in [Logins -> Seq(Closures)] /\ job \in [Logins -> Jobs]
      /\ replies \in [Logins -> Seq(Answers)]
  BY DEF IType, NetOK, RedisOK, LoginOK
<1>2. UNCHANGED <<gate_vars, db_vars, lobby_vars>>
  BY DEF RunLogout, RunForget, RunWhere, RunVerified, RunReconnect, RunEnter, RunRefused
<1>3. NoInfo \in Infos /\ Idle \in Jobs /\ None \in Clients \union {None}
  BY DEF Infos, Jobs
<1>4. job[l].type \in {"forget", "where", "reconnect", "enter"} => job[l].s \in Clients
  BY JobType DEF Idle, Msg
<1>5. CASE RunLogout(l)
  <2>1. cmds' \in [Logins -> Seq(Closures)] /\ Cmd(l).s \in Clients
    BY <1>5, CmdType DEF RunLogout, Runs
  <2>2. job' \in [Logins -> Jobs]
    <3>1. Msg("where", Cmd(l).s, FALSE) \in Jobs /\ Msg("forget", Cmd(l).s, FALSE) \in Jobs
      BY <2>1, MadeType
    <3> QED BY <1>1, <1>5, <3>1 DEF RunLogout, Then
  <2>3. UNCHANGED <<net, info, temp, online, replies>>
    BY <1>5 DEF RunLogout, redis_vars
  <2> QED BY <1>1, <1>2, <2>1, <2>2, <2>3, RedisTypes
<1>6. CASE RunForget(l)
  <2>1. job' \in [Logins -> Jobs] /\ info' \in Infos /\ UNCHANGED <<net, temp, online, cmds, replies>>
    BY <1>1, <1>3, <1>6 DEF RunForget, Continues
  <2> QED BY <1>1, <1>2, <2>1, RedisTypes
<1>7. CASE RunWhere(l)
  <2>1. job' \in [Logins -> Jobs] /\ UNCHANGED <<info, temp, online, cmds, replies>>
    BY <1>1, <1>3, <1>7 DEF RunWhere, Continues, redis_vars
  <2>2. net' \in [Links -> Seq(Msgs)]
    <3>1. Msg("S_Logout", job[l].s, FALSE) \in Msgs
      BY <1>4, <1>7, MadeType DEF RunWhere, Continues
    <3>2. Put(net, <<l, Lobby>>, Msg("S_Logout", job[l].s, FALSE)) \in [Links -> Seq(Msgs)]
      BY <1>1, <3>1, PutType
    <3> QED BY <1>1, <1>7, <3>2 DEF RunWhere
  <2> QED BY <1>1, <1>2, <2>1, <2>2, RedisTypes
<1>8. CASE RunVerified(l)
  <2>1. cmds' \in [Logins -> Seq(Closures)]
    BY <1>8, CmdType DEF RunVerified, Runs
  <2>2. job' \in [Logins -> Jobs]
    <3>1. info # NoInfo => Msg("reconnect", info.s, info.guid) \in Jobs
      BY <1>1, MadeType DEF Infos
    <3> QED BY <1>1, <1>8, <3>1 DEF RunVerified, Then
  <2>3. UNCHANGED <<net, info, temp, online, replies>>
    BY <1>8 DEF RunVerified, redis_vars
  <2> QED BY <1>1, <1>2, <2>1, <2>2, <2>3, RedisTypes
<1>9. CASE RunReconnect(l)
  <2> DEFINE t == job[l].s
  <2>1. t \in Clients
    BY <1>4, <1>9 DEF RunReconnect
  <2>2. /\ Msg("enter", t, FALSE) \in Jobs
        /\ Msg("notify", t, TRUE) \in Answers /\ Msg("no_lobby", t, FALSE) \in Answers
        /\ Msg("hdel_info", None, FALSE) \in Closures
    BY <2>1, MadeType
  <2>3. /\ Push(replies, l, Msg("notify", t, TRUE)) \in [Logins -> Seq(Answers)]
        /\ Push(replies, l, Msg("no_lobby", t, FALSE)) \in [Logins -> Seq(Answers)]
        /\ Push(cmds, l, Msg("hdel_info", None, FALSE)) \in [Logins -> Seq(Closures)]
    BY <1>1, <2>2, PushReply, PushCmd
  <2>4. job' \in [Logins -> Jobs]
    BY <1>1, <1>3, <1>9, <2>2 DEF RunReconnect, Then
  <2>5. replies' \in [Logins -> Seq(Answers)] /\ cmds' \in [Logins -> Seq(Closures)]
    BY <1>1, <1>9, <2>3 DEF RunReconnect
  <2>6. UNCHANGED <<net, info, temp, online>>
    BY <1>9 DEF RunReconnect, redis_vars
  <2> QED BY <1>1, <1>2, <2>4, <2>5, <2>6, RedisTypes
<1>10. CASE RunEnter(l)
  <2> DEFINE t == job[l].s
  <2>1. t \in Clients
    BY <1>4, <1>10 DEF RunEnter, Continues
  <2>2. replies' \in [Logins -> Seq(Answers)]
    <3>1. Msg("notify", t, FALSE) \in Answers
      BY <2>1, MadeType
    <3> QED BY <1>1, <1>10, <3>1, PushReply DEF RunEnter
  <2>3. info' \in Infos /\ online' \in BOOLEAN /\ job' \in [Logins -> Jobs]
    BY <1>1, <1>3, <1>10, <2>1 DEF RunEnter, Continues, Infos
  <2>4. UNCHANGED <<net, temp, cmds>>
    BY <1>10 DEF RunEnter
  <2> QED BY <1>1, <1>2, <2>2, <2>3, <2>4, RedisTypes
<1>11. CASE RunRefused(l)
  <2> DEFINE q == [cmds EXCEPT ![l] = Tail(@)]
  <2>1. q \in [Logins -> Seq(Closures)] /\ Cmd(l).s \in Clients
    BY <1>11, CmdType DEF RunRefused
  <2>2. net' \in [Links -> Seq(Msgs)]
    BY <1>11, <2>1, ToClientType DEF RunRefused
  <2>3. cmds' \in [Logins -> Seq(Closures)]
    <3>1. Tail(cmds[l]) \in Seq(Closures)
      BY <1>1, <2>1
    <3>2. Append(Tail(cmds[l]), Msg("hdel_info", None, FALSE)) \in Seq(Closures)
      <4>1. Msg("hdel_info", None, FALSE) \in Closures
        BY <2>1, MadeType
      <4> QED BY <3>1, <4>1, AppendProperties
    <3> QED BY <1>1, <1>11, <3>1, <3>2 DEF RunRefused
  <2>4. UNCHANGED <<info, temp, online, job, replies>>
    BY <1>11 DEF RunRefused, redis_vars
  <2> QED BY <1>1, <1>2, <2>2, <2>3, <2>4, RedisTypes
<1> QED BY <1>5, <1>6, <1>7, <1>8, <1>9, <1>10, <1>11

LEMMA DbTypes ==
    ASSUME IType, (\E l \in Logins : DbReceives(l)) \/ (\E i \in 1..Len(queries) : DbAnswer(i))
    PROVE  IType'
<1>1. UNCHANGED <<gate_vars, redis_vars, login_vars, lobby_vars>>
  BY DEF DbReceives, DbAnswer
<1>2. net \in [Links -> Seq(Msgs)] /\ queries \in Seq(Queries) /\ listed \in BOOLEAN
  BY DEF IType, NetOK, DbOK
<1> SUFFICES NetOK' /\ DbOK'
  BY <1>1, Kept DEF IType
<1>3. ASSUME NEW l \in Logins, DbReceives(l) PROVE NetOK' /\ DbOK'
  <2> DEFINE k == <<l, Db>>
             t == Head(net[k]).s
  <2>1. k \in Links /\ Arrives(k, "LD_VerifyAccount")
    BY <1>3, LinkType DEF DbReceives
  <2>2. Took(k) \in [Links -> Seq(Msgs)] /\ t \in Clients
    <3>1. /\ Took(k) \in [Links -> Seq(Msgs)] /\ Head(net[k]) \in Msgs
          /\ Head(net[k]).type = "LD_VerifyAccount"
      <4> HIDE DEF k
      <4> QED BY <2>1, TookType DEF IType
    <3> QED BY <3>1, HeldType
  <2>3. Put(Took(k), <<Db, l>>, Msg("DL_VerifyAccountResult", t, FALSE)) \in [Links -> Seq(Msgs)]
    <3>1. Msg("DL_VerifyAccountResult", t, FALSE) \in Msgs
      BY <2>2, MadeType
    <3> QED BY <2>2, <3>1, PutType
  <2>4. Append(queries, [l |-> l, s |-> t]) \in Seq(Queries)
    <3>1. [l |-> l, s |-> t] \in Queries
      BY <2>2 DEF Queries
    <3> QED BY <1>2, <3>1, AppendProperties
  <2>5. CASE net' = Put(Took(k), <<Db, l>>, Msg("DL_VerifyAccountResult", t, FALSE)) /\ UNCHANGED db_vars
    BY <1>2, <2>3, <2>5 DEF NetOK, DbOK, db_vars
  <2>6. CASE net' = Took(k) /\ listed' = TRUE /\ queries' = Append(queries, [l |-> l, s |-> t])
    BY <2>2, <2>4, <2>6 DEF NetOK, DbOK
  <2> QED BY <1>3, <2>5, <2>6 DEF DbReceives
<1>4. ASSUME NEW i \in 1..Len(queries), DbAnswer(i) PROVE NetOK' /\ DbOK'
  <2>1. Len(queries) \in Nat /\ queries[i] \in Queries /\ \A j \in 1..Len(queries) : queries[j] \in Queries
    BY <1>2, LenProperties, ElementOfSeq
  <2>2. queries' \in Seq(Queries)
    <3> DEFINE a == SubSeq(queries, 1, i - 1)
               b == SubSeq(queries, i + 1, Len(queries))
    <3>1. a \in Seq(Queries)
      <4>1. \A j \in 1..(i - 1) : queries[j] \in Queries
        BY <2>1
      <4> QED BY <1>2, <4>1, SubSeqProperties
    <3>2. b \in Seq(Queries)
      <4>1. \A j \in (i + 1)..Len(queries) : queries[j] \in Queries
        BY <2>1
      <4> QED BY <1>2, <2>1, <4>1, SubSeqProperties
    <3>3. queries' = a \o b
      BY <1>4 DEF DbAnswer
    <3> HIDE DEF a, b
    <3> QED BY <3>1, <3>2, <3>3, ConcatProperties
  <2>3. listed' \in BOOLEAN
    BY <1>4 DEF DbAnswer
  <2>4. \A ok \in BOOLEAN : Put(net, <<Db, queries[i].l>>, Msg("DL_VerifyAccountResult", queries[i].s, ok))
                              \in [Links -> Seq(Msgs)]
    <3> TAKE ok \in BOOLEAN
    <3>1. Msg("DL_VerifyAccountResult", queries[i].s, ok) \in Msgs
      BY <2>1, MadeType DEF Queries
    <3> QED BY <1>2, <3>1, PutType
  <2>5. \E ok \in BOOLEAN : net' = Put(net, <<Db, queries[i].l>>, Msg("DL_VerifyAccountResult", queries[i].s, ok))
    BY <1>4 DEF DbAnswer
  <2> QED BY <2>2, <2>3, <2>4, <2>5 DEF NetOK, DbOK
<1> QED BY <1>3, <1>4

\* logout(): the player object is uncounted once.
LEMMA DeleteType ==
    ASSUME LobbyOK, Delete, player # NoPlayer
    PROVE  LobbyOK'
<1>1. Bye \in Seq(Orders)
  BY DEF Bye, Orders
<1>2. lobby_cmds' \in Seq(Orders)
  <2>1. lobby_cmds \in Seq(Orders)
    BY DEF LobbyOK
  <2>2. lobby_cmds \o Bye \in Seq(Orders)
    BY <1>1, <2>1, ConcatProperties
  <2> QED BY <2>2 DEF Delete
<1> QED BY <1>2 DEF LobbyOK, Delete, Players

LEMMA LobbyTypes ==
    ASSUME IType,
           \/ \E l \in Logins : LobbyNotify(l)
           \/ \E x \in Gates \union Logins : LobbyLogout(x)
           \/ LobbyRedis \/ Play \/ LoadComplete \/ GameOver
    PROVE  IType'
<1>1. net \in [Links -> Seq(Msgs)] /\ LobbyOK
  BY DEF IType, NetOK
<1>2. player.playing => player # NoPlayer
  BY <1>1 DEF LobbyOK, Players, NoPlayer
<1>3. ASSUME NEW l \in Logins, LobbyNotify(l) PROVE IType'
  <2> DEFINE k == <<l, Lobby>>
             m == Head(net[k])
  <2>1. k \in Links /\ Arrives(k, "LS_LoginNotify")
    BY <1>3, LinkType DEF LobbyNotify
  <2>2. Took(k) \in [Links -> Seq(Msgs)] /\ m.s \in Clients
    <3>1. /\ Took(k) \in [Links -> Seq(Msgs)] /\ Head(net[k]) \in Msgs
          /\ Head(net[k]).type = "LS_LoginNotify"
      <4> HIDE DEF k
      <4> QED BY <2>1, TookType DEF IType
    <3> QED BY <3>1, HeldType
  <2>3. NetOK'
    <3>1. Put(Took(k), <<Lobby, gate[m.s]>>, Msg("LC_Login", m.s, TRUE)) \in [Links -> Seq(Msgs)]
      <4>1. Msg("LC_Login", m.s, TRUE) \in Msgs
        BY <2>2, MadeType
      <4> QED BY <2>2, <4>1, PutType
    <3> QED BY <1>3, <2>2, <3>1 DEF LobbyNotify, NetOK
  <2>4. LobbyOK'
    <3> HIDE DEF m
    <3>1. [NoPlayer EXCEPT !.s = m.s] \in Players /\ [NoPlayer EXCEPT !.s = m.s] # NoPlayer
      BY <2>2, LoginAssumption DEF NoPlayer, Players
    <3>2. player # NoPlayer => [player EXCEPT !.s = m.s] \in Players
      BY <1>1, <2>2 DEF LobbyOK, Players
    <3>3. lobby_cmds' = lobby_cmds
      BY <1>3 DEF LobbyNotify
    <3>4. CASE player # NoPlayer /\ player' = [player EXCEPT !.s = m.s] /\ player_count' = player_count
      BY <1>1, <3>2, <3>3, <3>4 DEF LobbyOK
    <3>5. CASE player' = [NoPlayer EXCEPT !.s = m.s] /\ player_count' = player_count + 1
      BY <1>1, <3>1, <3>3, <3>5 DEF LobbyOK
    <3> QED BY <1>3, <3>4, <3>5 DEF LobbyNotify, m
  <2>5. UNCHANGED <<gate_vars, redis_vars, login_vars, db_vars>>
    BY <1>3 DEF LobbyNotify
  <2> QED BY <2>3, <2>4, <2>5, Kept DEF IType
<1>4. ASSUME NEW x \in Gates \union Logins, LobbyLogout(x) PROVE IType'
  <2> DEFINE k == <<x, Lobby>>
  <2>1. k \in Links /\ Arrives(k, "S_Logout")
    BY <1>4, LinkType DEF LobbyLogout
  <2>2. Took(k) \in [Links -> Seq(Msgs)]
    <3> HIDE DEF k
    <3> QED BY <2>1, TookType DEF IType
  <2>3. NetOK'
    <3>1. Msg("L_KickClient", None, TRUE) \in Msgs
      BY DEF Msgs, Msg
    <3>2. \A j : Put(Took(k), j, Msg("L_KickClient", None, TRUE)) \in [Links -> Seq(Msgs)]
      BY <2>2, <3>1, PutType
    <3> QED BY <1>4, <2>2, <3>2 DEF LobbyLogout, NetOK
  <2>4. LobbyOK'
    <3>1. Logout
      BY <1>4 DEF LobbyLogout
    <3>2. CASE UNCHANGED lobby_vars
      BY <1>1, <3>2, Kept
    <3>3. CASE player # NoPlayer /\ Delete
      BY <1>1, <3>3, DeleteType
    <3>4. CASE /\ player.playing /\ player' = [player EXCEPT !.is_offline = TRUE]
               /\ lobby_cmds' = Append(lobby_cmds, "hdel_info") /\ UNCHANGED player_count
      <4>1. Append(lobby_cmds, "hdel_info") \in Seq(Orders)
        BY <1>1, AppendProperties DEF LobbyOK, Orders
      <4>2. player' \in Players
        BY <1>1, <1>2, <3>4 DEF LobbyOK, Players
      <4> QED BY <1>1, <1>2, <3>4, <4>1, <4>2 DEF LobbyOK
    <3> QED BY <3>1, <3>2, <3>3, <3>4 DEF Logout
  <2>5. UNCHANGED <<gate_vars, redis_vars, login_vars, db_vars>>
    BY <1>4 DEF LobbyLogout
  <2> QED BY <2>3, <2>4, <2>5, Kept DEF IType
<1>5. CASE LobbyRedis
  <2>1. LobbyOK'
    <3>1. Tail(lobby_cmds) \in Seq(Orders)
      BY <1>1, <1>5, HeadTailProperties DEF LobbyOK, LobbyRedis
    <3> QED BY <1>1, <1>5, <3>1 DEF LobbyOK, LobbyRedis
  <2>2. RedisOK'
    BY <1>5 DEF IType, RedisOK, LobbyRedis, Infos
  <2>3. UNCHANGED <<net, gate_vars, login_vars, db_vars>>
    BY <1>5 DEF LobbyRedis
  <2> QED BY <2>1, <2>2, <2>3, Kept DEF IType
<1>6. CASE Play \/ LoadComplete
  <2>1. /\ player # NoPlayer
        /\ \/ player' = [player EXCEPT !.playing = TRUE]
           \/ player' = [player EXCEPT !.is_offline = FALSE]
        /\ UNCHANGED <<net, gate_vars, redis_vars, login_vars, db_vars, player_count, lobby_cmds>>
    BY <1>6 DEF Play, LoadComplete, Present
  <2>2. player' \in Players
    BY <1>1, <2>1 DEF LobbyOK, Players
  <2>3. LobbyOK'
    BY <1>1, <2>1, <2>2 DEF LobbyOK
  <2> QED BY <2>1, <2>3, Kept DEF IType
<1>7. CASE GameOver
  <2>1. UNCHANGED <<net, gate_vars, redis_vars, login_vars, db_vars>> /\ player # NoPlayer
    BY <1>2, <1>7 DEF GameOver
  <2>2. LobbyOK'
    <3>1. CASE Delete
      BY <1>1, <2>1, <3>1, DeleteType
    <3>2. CASE player' = [player EXCEPT !.playing = FALSE] /\ UNCHANGED <<player_count, lobby_cmds>>
      <4>1. player' \in Players
        BY <1>1, <2>1, <3>2 DEF LobbyOK, Players
      <4> QED BY <1>1, <2>1, <3>2, <4>1 DEF LobbyOK
    <3> QED BY <1>7, <3>1, <3>2 DEF GameOver
  <2> QED BY <2>1, <2>2, Kept DEF IType
<1> QED BY <1>3, <1>4, <1>5, <1>6, <1>7

LEMMA NextType == IType /\ [Next]_vars => IType'
<1> SUFFICES ASSUME IType, [Next]_vars PROVE IType'
  OBVIOUS
<1>1. CASE Client \/ GateStep \/ Fault
  BY <1>1, GateTypes
<1>2. CASE LoginStep
  BY <1>2, LoginTypes, ReplyTypes DEF LoginStep
<1>3. CASE RedisStep
  BY <1>3, RunTypes1, RunTypes2 DEF RedisStep
<1>4. CASE DbStep
  BY <1>4, DbTypes DEF DbStep
<1>5. CASE LobbyStep \/ Table
  BY <1>5, LobbyTypes DEF LobbyStep, Table
<1>6. CASE UNCHANGED vars
  BY <1>6, Kept DEF IType, vars
<1> QED BY <1>1, <1>2, <1>3, <1>4, <1>5, <1>6 DEF Next

\* Every handler of the login protocol keeps every variable in its type, whatever the
\* environment does; in particular no player is counted out of the lobby who was not
\* counted in, and a message that names a session names one that exists.
THEOREM TypeCorrect == Spec => []TypeOK
<1>1. IType => TypeOK
  BY ITypeOK
<1> QED BY <1>1, InitType, NextType, PTL DEF Spec

-----------------------------------------------------------------------------
(* One login after the other *)

\* The circumstances under which the cluster keeps its promise: clients log in one
\* after the other and wait for the answer, nobody plays, no gate crashes, the lobby
\* keeps up, and there is one login server, Srv.
OneByOne ==
    /\ ~Overlap /\ Patient /\ Prompt /\ ~MayPlay /\ MaxCrashes = 0
    /\ \E l \in Logins : Logins = {l}
Srv == CHOOSE l \in Logins : TRUE

\* Where the login under way is: the type of the message or closure that carries it,
\* or one of these: nobody logs in; it waits in the gate's queue; its query runs; it
\* is remembered while the other session is closed, or until that one's S_Logout is
\* handled; its refusal is on the way to the client.
OnNet == {"CL_Login", "LG_KickClient", "L_KickClient", "LD_VerifyAccount",
          "DL_VerifyAccountResult", "LS_LoginNotify", "LC_Login", "refused"}
InCmds == {"login", "kicked", "result"}
InJob == {"get_other", "reconnect", "enter"}
InReplies == {"kick", "verify", "notify", "no_lobby"}
Places == OnNet \union InCmds \union InJob \union InReplies
            \union {"nobody", "queued", "query", "closes", "S_Logout"}

Kicking == {"LG_KickClient", "closes", "S_Logout", "L_KickClient", "kicked"}
Checking == {"verify", "LD_VerifyAccount", "query", "DL_VerifyAccountResult", "result",
             "reconnect", "enter"}
Admitted == {"notify", "LS_LoginNotify", "LC_Login"}
MayDelete == {"nobody", "queued", "CL_Login", "login", "no_lobby", "refused"}

\* How much is left of the session that was in: nobody was, it is in, its S_Logout is on
\* the way, or the lobby has this command about it to run.
Rests == {"nobody", "in", "S_Logout", "hdel_info", "hdel_online"}
\* A closure of the Redis thread that comes before the login.
Firsts == {"nothing", "hdel_info", "hset_temp"}

\* A queue that holds one message.
Single(q, type, s) == Len(q) = 1 /\ q[1].type = type /\ q[1].s = s
TypeOf(at) == IF at = "refused" THEN "LC_Login" ELSE at
Names(at, w, o) ==
    IF at = "LG_KickClient" THEN o ELSE IF at \in {"L_KickClient", "kicked"} THEN None ELSE w

\* The links n carry the login on x, if it is on a link, and the S_Logout of o on y.
Carries(n, at, rest, w, o, x, y) ==
    /\ at \in OnNet => /\ Single(n[x], TypeOf(at), Names(at, w, o))
                       /\ x[2] = Lobby => at = "LS_LoginNotify"
                       /\ at = "LC_Login" => x[1] = Lobby
                       /\ at = "refused" => x[1] \in Logins
    /\ rest = "S_Logout" => /\ Single(n[y], "S_Logout", o)
                            /\ n[y][1].flag <=> at = "S_Logout"
    /\ \A k \in Links : 
         \/ n[k] = <<>>
         \/ at \in OnNet /\ k = x
         \/ rest = "S_Logout" /\ k = y

\* The closures q of the Redis thread and the login t it remembers.
Waiting(q, t, at, first, w) ==
    /\ Len(q) = (IF first = "nothing" THEN 0 ELSE 1) + (IF at \in InCmds THEN 1 ELSE 0)
    /\ first # "nothing" => q[1].type = first
    /\ first = "hset_temp" => q[1].s = w
    /\ at \in InCmds => q[Len(q)].type = at /\ (at # "kicked" => q[Len(q)].s = w)
    /\ t = IF at \in Kicking /\ first = "nothing" THEN w ELSE None

\* The job and the answers of the login server, and the database.
Works(j, a, qs, li, at, w, o) ==
    /\ IF at \in InJob THEN j.type = at /\ j.s = w ELSE j = Idle
    /\ IF at \in InReplies THEN Single(a, at, w) ELSE a = <<>>
    /\ at = "kick" => a[1].other = o
    /\ IF at = "query" THEN Len(qs) = 1 /\ qs[1].s = w ELSE qs = <<>>
    /\ li <=> at = "query"

\* The gates: w waits for its answer, o is in or has left, and whoever else was in is
\* gone.
Sessions(at, rest, w, o) ==
    /\ up = Gates
    /\ \A s \in Clients : sock[s] # "new" => gate[s] \in Gates
    /\ at # "nobody" => w \in send_login \ in_game /\ sock[w] = "open"
    /\ \A g \in Gates : quque[g] = IF at = "queued" /\ g = gate[w] THEN w ELSE None
    /\ \A s \in send_login \ in_game : at # "nobody" /\ s = w
    /\ in_game \subseteq send_login
    /\ \A s \in in_game : sock[s] = "gone" \/ (rest = "in" /\ s = o)
    /\ rest # "nobody" \/ at \in Kicking \union {"kick"} => o \in in_game
    /\ rest = "in" => sock[o] \in {"open", "closed"}
    /\ rest \notin {"nobody", "in"} => sock[o] = "gone"
    /\ closing = IF at = "closes" /\ sock[o] = "open" THEN {o} ELSE {}
    /\ user_data = IF at = "closes" THEN {o} ELSE {}

\* The lobby p, its Redis thread's commands lc, and what Redis knows.
PlayerOf(s) == [NoPlayer EXCEPT !.s = s]
Knows(p, lc, i, on, at, rest, first, w, o) ==
    /\ p = IF rest \in {"in", "S_Logout"} THEN PlayerOf(o)
           ELSE IF at = "LC_Login" THEN PlayerOf(w) ELSE NoPlayer
    /\ lc = IF rest = "hdel_info" THEN <<"hdel_info", "hdel_online">>
            ELSE IF rest = "hdel_online" THEN <<"hdel_online">> ELSE <<>>
    /\ on <=> rest # "nobody" \/ at \in Admitted
    /\ first # "hdel_info" =>
         i = IF rest \in {"in", "S_Logout", "hdel_info"} THEN [s |-> o, guid |-> TRUE]
             ELSE IF at \in Admitted THEN [s |-> w, guid |-> TRUE]
             ELSE IF at \in Checking THEN [s |-> w, guid |-> FALSE] ELSE NoInfo

\* What can come together.
Fits(at, rest, first) ==
    /\ at \in Places /\ rest \in Rests /\ first \in Firsts
    /\ at \in Checking \union Admitted \union {"no_lobby"} => rest = "nobody"
    /\ at = "closes" => rest = "in"
    /\ at = "S_Logout" => rest = "S_Logout"
    /\ at \in {"L_KickClient", "kicked"} => rest # "in"
    /\ first = "hset_temp" => at \in Kicking
    /\ first = "hdel_info" => at \in MayDelete /\ rest = "nobody"

\* The state of the cluster is that of one login and one session that is in or leaves.
Is(at, rest, first, w, o, x) ==
    /\ Fits(at, rest, first) /\ w \in Clients \union {None} /\ o \in Clients \union {None}
    /\ x \in Links
    /\ Sessions(at, rest, w, o)
    /\ Carries(net, at, rest, w, o, x, <<gate[o], Lobby>>)
    /\ Waiting(cmds[Srv], temp, at, first, w)
    /\ Works(job[Srv], replies[Srv], queries, listed, at, w, o)
    /\ Knows(player, lobby_cmds, info, online, at, rest, first, w, o)

\* Where the login has met o, o's number still names nobody else: whoever has been given
\* it since has not asked to log in.
Meets == {"get_other", "kick", "LG_KickClient"}
Fresh(o) ==
    /\ o \in in_game
    /\ \A t \in Clients \ {o} : InTable(t) /\ session_id[t] = session_id[o] => tries[t] = 0

Serial ==
    \E at \in Places, rest \in Rests, first \in Firsts, w \in Clients \union {None},
       o \in Clients \union {None}, x \in Links :
         Is(at, rest, first, w, o, x) /\ (at \in Meets => Fresh(o))

-----------------------------------------------------------------------------
(* Queues of one message, and the links *)

LEMMA OneServer == OneByOne => Logins = {Srv} /\ Srv \in Logins
BY DEF OneByOne, Srv

LEMMA SingleHead ==
    ASSUME NEW M, NEW q \in Seq(M), NEW type, NEW s, Single(q, type, s)
    PROVE  /\ q # <<>> /\ Head(q) = q[1] /\ q[1] \in M
           /\ Head(q).type = type /\ Head(q).s = s /\ Tail(q) = <<>>
<1>1. Len(q) = 1 /\ q[1].type = type /\ q[1].s = s
  BY DEF Single
<1>2. q[1] \in M /\ q # <<>>
  BY <1>1
<1>3. Tail(q) \in Seq(M) /\ Len(Tail(q)) = 0
  BY <1>1, <1>2, HeadTailProperties
<1>4. Tail(q) = <<>>
  BY <1>3, EmptySeq
<1> QED BY <1>1, <1>2, <1>4

LEMMA SingleMade ==
    ASSUME NEW M, NEW m \in M
    PROVE  /\ Append(<<>>, m) = <<m>> /\ Append(<<>>, m)[1] = m
           /\ Single(Append(<<>>, m), m.type, m.s)
BY DEF Single

\* The link a message that is not an S_Logout has come on.
LEMMA Found ==
    ASSUME NEW n \in [Links -> Seq(Msgs)], NEW at, NEW rest, NEW w, NEW o, NEW x \in Links, NEW y,
           rest = "S_Logout" => y \in Links,
           Carries(n, at, rest, w, o, x, y), NEW k \in Links, n[k] # <<>>, Head(n[k]).type # "S_Logout"
    PROVE  /\ at \in OnNet /\ k = x
           /\ Head(n[k]).type = TypeOf(at) /\ Head(n[k]).s = Names(at, w, o) /\ Tail(n[k]) = <<>>
<1>1. CASE rest = "S_Logout" /\ k = y
  <2>1. Single(n[k], "S_Logout", o)
    BY <1>1 DEF Carries
  <2> QED BY <2>1, SingleHead
<1>2. CASE ~(rest = "S_Logout" /\ k = y)
  <2>1. at \in OnNet /\ k = x
    BY <1>2 DEF Carries
  <2>2. Single(n[k], TypeOf(at), Names(at, w, o))
    BY <2>1 DEF Carries
  <2> QED BY <2>1, <2>2, SingleHead
<1> QED BY <1>1, <1>2

\* The link an S_Logout has come on.
LEMMA FoundLogout ==
    ASSUME NEW n \in [Links -> Seq(Msgs)], NEW at \in Places, NEW rest, NEW w, NEW o, NEW x \in Links, NEW y,
           rest = "S_Logout" => y \in Links,
           Carries(n, at, rest, w, o, x, y), NEW k \in Links, n[k] # <<>>, Head(n[k]).type = "S_Logout"
    PROVE  /\ rest = "S_Logout" /\ k = y
           /\ Head(n[k]).s = o /\ Head(n[k]) = n[y][1]
<1>1. CASE rest = "S_Logout" /\ k = y
  <2>1. Single(n[k], "S_Logout", o)
    BY <1>1 DEF Carries
  <2> QED BY <1>1, <2>1, SingleHead
<1>2. CASE ~(rest = "S_Logout" /\ k = y)
  <2>1. at \in OnNet /\ k = x
    BY <1>2 DEF Carries
  <2>2. Single(n[k], TypeOf(at), Names(at, w, o))
    BY <2>1 DEF Carries
  <2>3. TypeOf(at) # "S_Logout"
    BY <2>1 DEF TypeOf, OnNet
  <2> QED BY <2>2, <2>3, SingleHead
<1> QED BY <1>1, <1>2

\* The message that carries the login has been taken from x.
LEMMA TookLogin ==
    ASSUME NEW n \in [Links -> Seq(Msgs)], NEW at \in OnNet, NEW rest, NEW w, NEW o, NEW x \in Links, NEW y,
           rest = "S_Logout" => y \in Links,
           Carries(n, at, rest, w, o, x, y), NEW at2, at2 \notin OnNet, at2 # "S_Logout", NEW w2
    PROVE  Carries([n EXCEPT ![x] = Tail(@)], at2, rest, w2, o, x, y)
<1> DEFINE n2 == [n EXCEPT ![x] = Tail(@)]
<1>1. Single(n[x], TypeOf(at), Names(at, w, o)) /\ TypeOf(at) # "S_Logout" /\ at # "S_Logout"
  BY DEF Carries, TypeOf, OnNet
<1>2. n2[x] = <<>> /\ \A k \in Links : k # x => n2[k] = n[k]
  BY <1>1, SingleHead
<1>3. rest = "S_Logout" => y # x /\ Single(n[y], "S_Logout", o) /\ ~n[y][1].flag
  BY <1>1 DEF Carries, Single
<1>4. \A k \in Links : n2[k] = <<>> \/ (rest = "S_Logout" /\ k = y)
  BY <1>2 DEF Carries
<1> HIDE DEF n2
<1>5. Carries(n2, at2, rest, w2, o, x, y)
  BY <1>2, <1>3, <1>4 DEF Carries
<1> QED BY <1>5 DEF n2

\* A message that carries the login has been put on the link z.
LEMMA PutLogin ==
    ASSUME NEW n \in [Links -> Seq(Msgs)], NEW at, at \notin OnNet, at # "S_Logout", NEW rest, NEW w, NEW o, NEW x, NEW y,
           rest = "S_Logout" => y \in Links,
           Carries(n, at, rest, w, o, x, y),
           NEW at2 \in OnNet, NEW w2, NEW z \in Links, rest = "S_Logout" => z # y, NEW m \in Msgs,
           m.type = TypeOf(at2), m.s = Names(at2, w2, o),
           z[2] = Lobby => at2 = "LS_LoginNotify",
           at2 = "LC_Login" => z[1] = Lobby,
           at2 = "refused" => z[1] \in Logins
    PROVE  Carries(Put(n, z, m), at2, rest, w2, o, z, y)
<1> DEFINE n2 == Put(n, z, m)
<1>1. n[z] = <<>> /\ at2 # "S_Logout"
  BY DEF Carries, OnNet
<1>2. n2[z] = Append(<<>>, m) /\ \A k \in Links : k # z => n2[k] = n[k]
  BY <1>1 DEF Put
<1>3. Single(n2[z], TypeOf(at2), Names(at2, w2, o))
  BY <1>2, SingleMade
<1>4. rest = "S_Logout" => Single(n2[y], "S_Logout", o) /\ ~n2[y][1].flag
  BY <1>2 DEF Carries
<1>5. \A k \in Links : n2[k] = <<>> \/ k = z \/ (rest = "S_Logout" /\ k = y)
  BY <1>2 DEF Carries
<1> HIDE DEF n2
<1>6. Carries(n2, at2, rest, w2, o, z, y)
  BY <1>1, <1>3, <1>4, <1>5 DEF Carries
<1> QED BY <1>6 DEF n2

\* The login goes from a place that is no link to another one.
LEMMA SameLinks ==
    ASSUME NEW n, NEW at, at \notin OnNet, NEW rest, NEW w, NEW o, NEW x, NEW y,
           Carries(n, at, rest, w, o, x, y), NEW at2, at2 \notin OnNet,
           rest = "S_Logout" => (at2 = "S_Logout" <=> at = "S_Logout"), NEW w2, NEW o2,
           rest = "S_Logout" => o2 = o, NEW x2
    PROVE  Carries(n, at2, rest, w2, o2, x2, y)
BY DEF Carries

\* What is left of a session that is in or that has left is not on a link.
LEMMA NoLogout ==
    ASSUME NEW n, NEW at, NEW rest, rest # "S_Logout", NEW w, NEW o, NEW x, NEW y,
           Carries(n, at, rest, w, o, x, y), NEW rest2, rest2 # "S_Logout", NEW o2,
           at = "LG_KickClient" => o2 = o, NEW y2
    PROVE  Carries(n, at, rest2, w, o2, x, y2)
BY DEF Carries, Names

-----------------------------------------------------------------------------
(* The closures of the Redis thread *)

\* The Redis thread takes the closure of the login, which is the only one.
LEMMA TakesLogin ==
    ASSUME NEW q \in Seq(Closures), NEW t, NEW at, NEW rest, NEW first, Fits(at, rest, first), NEW w,
           Waiting(q, t, at, first, w), q # <<>>, Head(q).type \notin {"hdel_info", "hset_temp"}
    PROVE  /\ first = "nothing" /\ at \in InCmds
           /\ Head(q).type = at /\ (at # "kicked" => Head(q).s = w) /\ Tail(q) = <<>>
<1>1. first = "nothing"
  BY DEF Waiting, Fits, Firsts
<1>2. Len(q) \in Nat /\ Len(q) # 0
  OBVIOUS
<1>3. at \in InCmds /\ Len(q) = 1
  BY <1>1, <1>2 DEF Waiting
<1>4. Single(q, q[1].type, q[1].s)
  BY <1>3 DEF Single
<1>5. q[1].type = at /\ (at # "kicked" => q[1].s = w)
  BY <1>3 DEF Waiting
<1> QED BY <1>1, <1>3, <1>4, <1>5, SingleHead

\* It takes the closure before that of the login.
LEMMA TakesFirst ==
    ASSUME NEW q \in Seq(Closures), NEW t, NEW at, NEW rest, NEW first, Fits(at, rest, first), NEW w,
           Waiting(q, t, at, first, w), q # <<>>, Head(q).type \in {"hdel_info", "hset_temp"}
    PROVE  /\ first = Head(q).type /\ (first = "hset_temp" => Head(q).s = w)
           /\ \A t2 : t2 = (IF at \in Kicking THEN w ELSE None) => Waiting(Tail(q), t2, at, "nothing", w)
<1> DEFINE r == Tail(q)
<1>1. first # "nothing"
  <2> SUFFICES ASSUME first = "nothing" PROVE FALSE
    OBVIOUS
  <2>1. Len(q) \in Nat /\ Len(q) # 0
    OBVIOUS
  <2>2. at \in InCmds /\ Len(q) = 1
    BY <2>1 DEF Waiting
  <2> QED BY <2>2 DEF Waiting, InCmds
<1>2. Head(q) = q[1] /\ q[1].type = first /\ (first = "hset_temp" => q[1].s = w)
  BY <1>1 DEF Waiting
<1>3. r \in Seq(Closures) /\ Len(r) = (IF at \in InCmds THEN 1 ELSE 0)
  BY <1>1 DEF Waiting
<1>4. ASSUME at \in InCmds
      PROVE  r[Len(r)].type = at /\ (at # "kicked" => r[Len(r)].s = w)
  <2>1. Len(q) = 2 /\ Len(r) = 1
    BY <1>1, <1>3, <1>4 DEF Waiting
  <2>2. r[1] = q[1 + 1]
    BY <2>1, HeadTailProperties, q # <<>>
  <2>3. q[2].type = at /\ (at # "kicked" => q[2].s = w)
    BY <1>4, <2>1 DEF Waiting
  <2> QED BY <2>1, <2>2, <2>3
<1> HIDE DEF r
<1>5. \A t2 : t2 = (IF at \in Kicking THEN w ELSE None) => Waiting(r, t2, at, "nothing", w)
  BY <1>3, <1>4 DEF Waiting
<1> QED BY <1>2, <1>5 DEF r

\* The closure of the login is put behind the others.
LEMMA PutsLogin ==
    ASSUME NEW q \in Seq(Closures), NEW t, NEW at, at \notin InCmds, NEW first, first \in Firsts, NEW w,
           Waiting(q, t, at, first, w), NEW m \in Closures, NEW at2 \in InCmds,
           at2 \in Kicking <=> at \in Kicking, m.type = at2, at2 # "kicked" => m.s = w
    PROVE  Waiting(Append(q, m), t, at2, first, w)
<1> DEFINE r == Append(q, m)
<1>1. Len(q) \in Nat /\ Len(r) = Len(q) + 1 /\ r[Len(r)] = m /\ \A i \in 1..Len(q) : r[i] = q[i]
  OBVIOUS
<1>2. Len(q) = IF first = "nothing" THEN 0 ELSE 1
  BY DEF Waiting
<1>3. first # "nothing" => r[1] = q[1]
  BY <1>1, <1>2
<1> HIDE DEF r
<1>4. Waiting(r, t, at2, first, w)
  BY <1>1, <1>2, <1>3 DEF Waiting
<1> QED BY <1>4 DEF r

\* The login goes from a place that is no closure to another one.
LEMMA SameClosures ==
    ASSUME NEW q, NEW t, NEW at, at \notin InCmds, NEW first, NEW w, Waiting(q, t, at, first, w),
           NEW at2, at2 \notin InCmds, NEW w2,
           at2 \in Kicking <=> at \in Kicking, at \in Kicking => w2 = w,
           first # "hset_temp" \/ w2 = w
    PROVE  Waiting(q, t, at2, first, w2)
BY DEF Waiting

\* No closure is waiting.
LEMMA NoClosure ==
    ASSUME NEW q \in Seq(Closures), NEW t, NEW at, at \notin InCmds, NEW w, Waiting(q, t, at, "nothing", w)
    PROVE  q = <<>> /\ t = IF at \in Kicking THEN w ELSE None
BY DEF Waiting

\* One closure has been put there that comes before the login's.
LEMMA PutsFirst ==
    ASSUME NEW m \in Closures, NEW first \in Firsts \ {"nothing"}, m.type = first, NEW w,
           first = "hset_temp" => m.s = w, NEW at, at \notin InCmds
    PROVE  Waiting(Append(<<>>, m), None, at, first, w)
BY DEF Waiting, Firsts

-----------------------------------------------------------------------------
(* The login moves on *)

LEMMA Distinct ==
    /\ Lobby \notin Gates /\ Lobby \notin Logins /\ Db \notin Gates /\ Db \notin Logins /\ Lobby # Db
    /\ \A g \in Gates : g \notin Logins
    /\ None \notin Clients /\ None \notin Gates
BY LoginAssumption DEF Lobby, Db

LEMMA SameSessions ==
    ASSUME NEW at, NEW rest, NEW w, NEW o, Sessions(at, rest, w, o), UNCHANGED gate_vars, NEW at2,
           {at, at2} \intersect {"nobody", "closes", "queued"} = {},
           at2 \in Kicking \union {"kick"} => o \in in_game
    PROVE  Sessions(at2, rest, w, o)'
BY DEF Sessions, gate_vars

LEMMA SameWorks ==
    ASSUME NEW j, NEW a, NEW qs, NEW li, NEW at, NEW w, NEW o, Works(j, a, qs, li, at, w, o),
           NEW at2, NEW w2, NEW o2,
           at \notin InJob \union InReplies \union {"query"}, at2 \notin InJob \union InReplies \union {"query"}
    PROVE  Works(j, a, qs, li, at2, w2, o2)
BY DEF Works, InReplies

LEMMA SameKnows ==
    ASSUME NEW p, NEW lc, NEW i, NEW on, NEW at, NEW rest, NEW first, NEW w, NEW o,
           Knows(p, lc, i, on, at, rest, first, w, o), NEW at2, NEW w2, NEW o2, rest # "nobody" => o2 = o,
           at \notin Admitted, at2 \notin Admitted,
           \/ at \notin Checking /\ at2 \notin Checking
           \/ at \in Checking /\ at2 \in Checking /\ w2 = w
    PROVE  Knows(p, lc, i, on, at2, rest, first, w2, o2)
<1>1. at # "LC_Login" /\ at2 # "LC_Login"
  BY DEF Admitted
<1>2. rest \in {"in", "S_Logout", "hdel_info"} => o2 = o
  OBVIOUS
<1> QED BY <1>1, <1>2 DEF Knows

\* The link on which o's S_Logout comes.
LEMMA LogoutLink ==
    ASSUME IType, NEW at, NEW rest, NEW first, NEW w, NEW o, NEW x, Is(at, rest, first, w, o, x)
    PROVE  /\ rest # "nobody" \/ at \in Kicking \union {"kick"} => o \in Clients /\ gate[o] \in Gates
           /\ rest # "nobody" => <<gate[o], Lobby>> \in Links
<1>1. ASSUME rest # "nobody" \/ at \in Kicking \union {"kick"}
      PROVE  o \in Clients /\ gate[o] \in Gates
  <2>1. o \in in_game /\ o \in Clients
    BY <1>1 DEF Is, Sessions, IType, GateOK
  <2>2. sock[o] # "new"
    BY <2>1 DEF Is, Sessions
  <2> QED BY <2>1, <2>2 DEF Is, Sessions
<1> QED BY <1>1, LinkType

\* A message that is not an S_Logout carries the login.
LEMMA FoundLogin ==
    ASSUME IType, NEW at, NEW rest, NEW first, NEW w, NEW o, NEW x, Is(at, rest, first, w, o, x),
           NEW k \in Links, NEW type, Arrives(k, type), type # "S_Logout"
    PROVE  /\ at \in OnNet /\ k = x /\ type = TypeOf(at)
           /\ Head(net[k]) \in Msgs
           /\ Head(net[k]).type = type /\ Head(net[k]).s = Names(at, w, o)
           /\ Took(k) \in [Links -> Seq(Msgs)]
<1> DEFINE y == <<gate[o], Lobby>>
<1>1. net \in [Links -> Seq(Msgs)] /\ net[k] # <<>> /\ Head(net[k]).type = type
  BY DEF IType, NetOK, Arrives
<1>2. Carries(net, at, rest, w, o, x, y) /\ x \in Links
  BY DEF Is
<1>3. rest = "S_Logout" => y \in Links
  BY LogoutLink
<1> HIDE DEF y
<1>6. Head(net[k]).type # "S_Logout" /\ net[k] # <<>>
  BY <1>1
<1>4. at \in OnNet /\ k = x /\ Head(net[k]).type = TypeOf(at) /\ Head(net[k]).s = Names(at, w, o)
    <2> DEFINE n == net
  <2>1. n \in [Links -> Seq(Msgs)] /\ n[k] # <<>> /\ Head(n[k]).type # "S_Logout"
    BY <1>1, <1>6
  <2>2. Carries(n, at, rest, w, o, x, y)
    BY <1>2
  <2> HIDE DEF n
  <2>3. /\ at \in OnNet /\ k = x
        /\ Head(n[k]).type = TypeOf(at) /\ Head(n[k]).s = Names(at, w, o) /\ Tail(n[k]) = <<>>
    BY <2>1, <2>2, <1>2, <1>3, Found
  <2> QED BY <2>3 DEF n
<1>5. Took(k) \in [Links -> Seq(Msgs)] /\ Head(net[k]) \in Msgs
  BY TookType DEF IType
<1> QED BY <1>1, <1>4, <1>5

LEMMA TakesMessage ==
    ASSUME IType, NEW at, NEW rest, NEW first, NEW w, NEW o, NEW x, Is(at, rest, first, w, o, x),
           at \in OnNet, NEW at2, at2 \notin OnNet, at2 # "S_Logout", NEW w2
    PROVE  Carries(Took(x), at2, rest, w2, o, x, <<gate[o], Lobby>>)
<1> DEFINE y == <<gate[o], Lobby>>
<1>1. net \in [Links -> Seq(Msgs)]
  BY DEF IType, NetOK
<1>2. Carries(net, at, rest, w, o, x, y) /\ x \in Links
  BY DEF Is
<1>3. rest = "S_Logout" => y \in Links
  BY LogoutLink
<1> HIDE DEF y
<1>4. Carries([net EXCEPT ![x] = Tail(@)], at2, rest, w2, o, x, y)
  BY <1>1, <1>2, <1>3, TookLogin
<1> QED BY <1>4 DEF Took, y

\* The logic thread of the login server makes a closure of what it receives.
LEMMA Receives ==
    ASSUME OneByOne, IType, NEW at, NEW rest, NEW first, NEW w, NEW o, NEW x, Is(at, rest, first, w, o, x),
           NEW l \in Logins, NEW k \in Links, NEW type, NEW op, LoginReceives(l, k, type, op),
           \/ type = "CL_Login" /\ op = "login"
           \/ type = "L_KickClient" /\ op = "kicked"
           \/ type = "DL_VerifyAccountResult" /\ op = "result"
    PROVE  Is(op, rest, first, w, o, x)'
<1>1. Arrives(k, type) /\ type # "S_Logout" /\ net' = Took(k)
      /\ cmds' = Push(cmds, l, [Head(net[k]) EXCEPT !.type = op])
      /\ UNCHANGED <<gate_vars, redis_vars, job, replies, db_vars, lobby_vars>>
  BY DEF LoginReceives
<1>2. at \in OnNet /\ k = x /\ TypeOf(at) = type /\ Head(net[k]) \in Msgs /\ Head(net[k]).type = type
      /\ Head(net[k]).s = Names(at, w, o)
  BY <1>1, FoundLogin
<1>3. at = type
  BY <1>2 DEF TypeOf
<1>4. op \in InCmds /\ op \notin OnNet /\ op # "S_Logout" /\ at \notin InCmds
  BY <1>3 DEF InCmds, OnNet
<1>5. Carries(net', op, rest, w, o, x, <<gate'[o], Lobby>>)
  <2>1. Carries(Took(k), op, rest, w, o, x, <<gate[o], Lobby>>)
    BY <1>2, <1>4, TakesMessage
  <2> QED BY <2>1, <1>1 DEF gate_vars
<1>6. l = Srv /\ Srv \in Logins
  BY OneServer
<1>7. Waiting(cmds'[Srv], temp', op, first, w)
  <2> DEFINE m == [Head(net[k]) EXCEPT !.type = op]
  <2>1. Head(net[k]) = Msg(type, Head(net[k]).s, Head(net[k]).flag) /\ Head(net[k]).flag \in BOOLEAN
        /\ (type # "L_KickClient" => Head(net[k]).s \in Clients)
        /\ (type = "L_KickClient" => Head(net[k]).s = None)
    BY <1>2, HeldType
  <2>2. m = Msg(op, Head(net[k]).s, Head(net[k]).flag)
    BY <2>1 DEF Msg
  <2>3. m \in Closures /\ m.type = op /\ m.s = Head(net[k]).s
    BY <2>1, <2>2 DEF Closures, Msg
  <2>4. op # "kicked" => m.s = w
    BY <2>3, <1>2, <1>3 DEF Names
  <2>5. cmds[Srv] \in Seq(Closures) /\ cmds'[Srv] = Append(cmds[Srv], m)
    BY <1>1, <1>6 DEF Push, IType, LoginOK
  <2>6. Waiting(cmds[Srv], temp, at, first, w) /\ first \in Firsts
    BY DEF Is, Fits
  <2>7. op \in Kicking <=> at \in Kicking
    BY <1>3 DEF Kicking
  <2> HIDE DEF m
  <2>8. Waiting(Append(cmds[Srv], m), temp, op, first, w)
    BY <1>4, <2>3, <2>4, <2>5, <2>6, <2>7, PutsLogin
  <2> QED BY <2>8, <2>5, <1>1 DEF redis_vars
<1>8. Works(job'[Srv], replies'[Srv], queries', listed', op, w, o)
  <2>1. Works(job[Srv], replies[Srv], queries, listed, op, w, o)
    BY <1>2, <1>3, <1>4, SameWorks DEF Is, OnNet, InCmds, InJob, InReplies
  <2> QED BY <2>1, <1>1 DEF db_vars
<1>9. Knows(player', lobby_cmds', info', online', op, rest, first, w, o)
  <2>1. Knows(player, lobby_cmds, info, online, op, rest, first, w, o)
    BY <1>3, SameKnows DEF Is, Admitted, Checking
  <2> QED BY <2>1, <1>1 DEF redis_vars, lobby_vars
<1>10. Sessions(op, rest, w, o)'
  <2>1. op \in Kicking \union {"kick"} => o \in in_game
    BY <1>3 DEF Kicking, Is, Sessions
  <2> QED BY <2>1, <1>1, <1>3, SameSessions DEF Is
<1>11. Fits(op, rest, first)
  BY <1>3 DEF Is, Fits, Places, OnNet, InCmds, Checking, Admitted, Kicking, MayDelete
<1> QED BY <1>5, <1>7, <1>8, <1>9, <1>10, <1>11 DEF Is

LEMMA NothingFirst ==
    ASSUME NEW at, NEW rest, NEW first, Fits(at, rest, first), at \notin Kicking \union MayDelete
    PROVE  first = "nothing"
BY DEF Fits, Firsts

\* A message that carries the login is sent.
LEMMA PutsMessage ==
    ASSUME IType, NEW at, NEW rest, NEW first, NEW w, NEW o, NEW x, Is(at, rest, first, w, o, x),
           at \notin OnNet, at # "S_Logout",
           NEW at2 \in OnNet, NEW z \in Links, z # <<gate[o], Lobby>> \/ rest # "S_Logout", NEW m \in Msgs, NEW w2,
           m.type = TypeOf(at2), m.s = Names(at2, w2, o),
           z[2] = Lobby => at2 = "LS_LoginNotify",
           at2 = "LC_Login" => z[1] = Lobby,
           at2 = "refused" => z[1] \in Logins
    PROVE  Carries(Put(net, z, m), at2, rest, w2, o, z, <<gate[o], Lobby>>)
<1> DEFINE y == <<gate[o], Lobby>>
<1>1. net \in [Links -> Seq(Msgs)]
  BY DEF IType, NetOK
<1>2. Carries(net, at, rest, w, o, x, y)
  BY DEF Is
<1>3. rest = "S_Logout" => y \in Links
  BY LogoutLink
<1>4. rest = "S_Logout" => z # y
  OBVIOUS
<1> HIDE DEF y
<1>5. Carries(Put(net, z, m), at2, rest, w2, o, z, y)
  BY <1>1, <1>2, <1>3, <1>4, PutLogin
<1> QED BY <1>5 DEF y

\* The logic thread of the login server runs the closure that the Redis thread sent.
LEMMA AnswerIs ==
    ASSUME OneByOne, IType, NEW at, NEW rest, NEW first, NEW w, NEW o, NEW x, Is(at, rest, first, w, o, x),
           NEW l \in Logins, NEW type, Answering(l, type)
    PROVE  /\ l = Srv /\ at = type /\ at \in InReplies
           /\ Reply(l) \in Answers /\ Reply(l).type = type /\ Reply(l).s = w /\ (at = "kick" => Reply(l).other = o)
           /\ replies'[Srv] = <<>>
<1>1. l = Srv /\ Srv \in Logins
  BY OneServer
<1>2. replies[l] \in Seq(Answers) /\ replies[l] # <<>> /\ Head(replies[l]).type = type
      /\ replies' = [replies EXCEPT ![l] = Tail(@)] /\ replies \in [Logins -> Seq(Answers)]
  BY DEF IType, LoginOK, Answering, Reply
<1>3. Works(job[Srv], replies[Srv], queries, listed, at, w, o)
  BY DEF Is
<1>4. at \in InReplies /\ Single(replies[l], at, w) /\ (at = "kick" => replies[l][1].other = o)
  BY <1>1, <1>2, <1>3 DEF Works
<1>5. Head(replies[l]) = replies[l][1] /\ replies[l][1] \in Answers
           /\ Head(replies[l]).type = at /\ Head(replies[l]).s = w /\ Tail(replies[l]) = <<>>
  BY <1>2, <1>4, SingleHead
<1> QED BY <1>1, <1>2, <1>4, <1>5 DEF Reply

\* The answer is a message or a closure.
LEMMA AnswerLeaves ==
    ASSUME OneByOne, IType, NEW at, NEW rest, NEW first, NEW w, NEW o, NEW x, Is(at, rest, first, w, o, x),
           at \in InReplies, replies'[Srv] = <<>>, UNCHANGED <<gate_vars, redis_vars, job, db_vars, lobby_vars>>,
           NEW at2, at2 \notin InReplies \union InJob \union {"query", "nobody", "closes", "queued", "LC_Login"},
           at2 \in Kicking => at = "kick", at2 \in Checking <=> at \in Checking, at2 \in Admitted <=> at \in Admitted
    PROVE  /\ Works(job'[Srv], replies'[Srv], queries', listed', at2, w, o)
           /\ Knows(player', lobby_cmds', info', online', at2, rest, first, w, o)
           /\ Sessions(at2, rest, w, o)'
<1>1. Works(job[Srv], <<>>, queries, listed, at2, w, o)
  <2>1. Works(job[Srv], replies[Srv], queries, listed, at, w, o)
    BY DEF Is
  <2>2. at \notin InJob /\ at # "query" /\ at2 # "kick"
    BY DEF InReplies, InJob
  <2> QED BY <2>1, <2>2 DEF Works
<1>2. Knows(player, lobby_cmds, info, online, at2, rest, first, w, o)
  <2>1. Knows(player, lobby_cmds, info, online, at, rest, first, w, o) /\ at # "LC_Login"
    BY DEF Is, InReplies
  <2> QED BY <2>1 DEF Knows
<1>3. Sessions(at2, rest, w, o)'
  <2>1. at2 \in Kicking \union {"kick"} => o \in in_game
    BY DEF Is, Sessions, InReplies
  <2>2. {at, at2} \intersect {"nobody", "closes", "queued"} = {}
    BY DEF InReplies
  <2> QED BY <2>1, <2>2, SameSessions DEF Is
<1>4. Knows(player', lobby_cmds', info', online', at2, rest, first, w, o)
  BY <1>2 DEF redis_vars, lobby_vars
<1>5. Works(job'[Srv], replies'[Srv], queries', listed', at2, w, o)
  BY <1>1 DEF db_vars
<1> QED BY <1>3, <1>4, <1>5

\* The closures do not change while the login goes from one other place to another.
LEMMA KeepsClosures ==
    ASSUME NEW at, NEW rest, NEW first, NEW w, NEW o, NEW x, Is(at, rest, first, w, o, x),
           UNCHANGED <<cmds, temp>>, at \notin InCmds, NEW at2, at2 \notin InCmds, at2 \in Kicking <=> at \in Kicking
    PROVE  Waiting(cmds'[Srv], temp', at2, first, w)
BY SameClosures DEF Is

LEMMA VerifyIs ==
    ASSUME OneByOne, IType, NEW at, NEW rest, NEW first, NEW w, NEW o, NEW x, Is(at, rest, first, w, o, x),
           NEW l \in Logins, ReplyVerify(l)
    PROVE  Is("LD_VerifyAccount", rest, first, w, o, <<l, Db>>)'
<1> DEFINE m == Msg("LD_VerifyAccount", Reply(l).s, FALSE)
           z == <<l, Db>>
<1>1. Answering(l, "verify") /\ net' = Put(net, z, m)
      /\ UNCHANGED <<gate_vars, redis_vars, cmds, job, db_vars, lobby_vars>>
  BY DEF ReplyVerify
<1>2. l = Srv /\ at = "verify" /\ at \in InReplies /\ Reply(l) \in Answers /\ Reply(l).s = w /\ replies'[Srv] = <<>>
  BY <1>1, AnswerIs
<1>3. Fits("LD_VerifyAccount", rest, first)
  BY <1>2 DEF Is, Fits, Places, OnNet, Checking, Kicking, MayDelete
<1>4. m \in Msgs /\ m.type = "LD_VerifyAccount" /\ m.s = w
  BY <1>2, HeldType DEF Msg, Msgs
<1>5. z \in Links /\ z[2] # Lobby /\ z # <<gate[o], Lobby>>
  BY LinkType DEF Lobby, Db
<1>6. Carries(net', "LD_VerifyAccount", rest, w, o, z, <<gate'[o], Lobby>>)
  <2> HIDE DEF m, z
  <2>1. Carries(Put(net, z, m), "LD_VerifyAccount", rest, w, o, z, <<gate[o], Lobby>>)
    BY <1>2, <1>4, <1>5, PutsMessage DEF OnNet, TypeOf, Names
  <2> QED BY <1>1, <2>1 DEF gate_vars
<1>7. Waiting(cmds'[Srv], temp', "LD_VerifyAccount", first, w)
  BY <1>1, <1>2, KeepsClosures DEF redis_vars, InCmds, Kicking
<1>8. /\ Works(job'[Srv], replies'[Srv], queries', listed', "LD_VerifyAccount", w, o)
      /\ Knows(player', lobby_cmds', info', online', "LD_VerifyAccount", rest, first, w, o)
      /\ Sessions("LD_VerifyAccount", rest, w, o)'
  BY <1>1, <1>2, AnswerLeaves DEF InReplies, InJob, Kicking, Checking, Admitted
<1> QED BY <1>3, <1>5, <1>6, <1>7, <1>8 DEF Is

LEMMA NotifyIs ==
    ASSUME OneByOne, IType, NEW at, NEW rest, NEW first, NEW w, NEW o, NEW x, Is(at, rest, first, w, o, x),
           NEW l \in Logins, ReplyNotify(l)
    PROVE  Is("LS_LoginNotify", rest, first, w, o, <<l, Lobby>>)'
<1> DEFINE m == [Reply(l) EXCEPT !.type = "LS_LoginNotify"]
           z == <<l, Lobby>>
<1>1. Answering(l, "notify") /\ net' = Put(net, z, m)
      /\ UNCHANGED <<gate_vars, redis_vars, cmds, job, db_vars, lobby_vars>>
  BY DEF ReplyNotify
<1>2. l = Srv /\ at = "notify" /\ at \in InReplies /\ Reply(l) \in Answers /\ Reply(l).s = w
      /\ Reply(l).type = "notify" /\ replies'[Srv] = <<>>
  BY <1>1, AnswerIs
<1>3. Fits("LS_LoginNotify", rest, first) /\ rest # "S_Logout"
  BY <1>2 DEF Is, Fits, Places, OnNet, Checking, Admitted, Kicking, MayDelete
<1>4. m \in Msgs /\ m.type = "LS_LoginNotify" /\ m.s = w
  <2>1. Reply(l) = Msg("notify", w, Reply(l).flag) /\ Reply(l).flag \in BOOLEAN /\ w \in Clients
    BY <1>2, HeldType
  <2>2. m = Msg("LS_LoginNotify", w, Reply(l).flag)
    BY <2>1 DEF Msg
  <2> QED BY <2>1, <2>2 DEF Msg, Msgs
<1>5. z \in Links
  BY LinkType
<1>6. Carries(net', "LS_LoginNotify", rest, w, o, z, <<gate'[o], Lobby>>)
  <2> HIDE DEF m, z
  <2>1. Carries(Put(net, z, m), "LS_LoginNotify", rest, w, o, z, <<gate[o], Lobby>>)
    BY <1>2, <1>3, <1>4, <1>5, PutsMessage DEF OnNet, TypeOf, Names
  <2> QED BY <1>1, <2>1 DEF gate_vars
<1>7. Waiting(cmds'[Srv], temp', "LS_LoginNotify", first, w)
  BY <1>1, <1>2, KeepsClosures DEF redis_vars, InCmds, Kicking
<1>8. /\ Works(job'[Srv], replies'[Srv], queries', listed', "LS_LoginNotify", w, o)
      /\ Knows(player', lobby_cmds', info', online', "LS_LoginNotify", rest, first, w, o)
      /\ Sessions("LS_LoginNotify", rest, w, o)'
  BY <1>1, <1>2, AnswerLeaves DEF InReplies, InJob, Kicking, Checking, Admitted
<1> QED BY <1>3, <1>5, <1>6, <1>7, <1>8 DEF Is

\* A refusal that is sent to w.
LEMMA ToWaiting ==
    ASSUME OneByOne, IType, NEW at, NEW rest, NEW first, NEW w, NEW o, NEW x, Is(at, rest, first, w, o, x),
           at \notin OnNet, at \notin {"S_Logout", "nobody"}, NEW l \in Logins
    PROVE  /\ <<l, gate[w]>> \in Links
           /\ Carries(ToClient(net, l, w), "refused", rest, w, o, <<l, gate[w]>>, <<gate[o], Lobby>>)
<1> DEFINE m == Msg("LC_Login", w, FALSE)
           z == <<l, gate[w]>>
<1>1. w \in Clients /\ sock[w] = "open" /\ gate[w] \in Gates /\ up = Gates
  BY DEF Is, Sessions, IType, GateOK
<1>2. z \in Links /\ z[1] \in Logins /\ z[2] # Lobby /\ z # <<gate[o], Lobby>>
  BY <1>1, LinkType, Distinct
<1>3. ToClient(net, l, w) = Put(net, z, m)
  BY <1>1 DEF ToClient
<1>4. m \in Msgs /\ m.type = TypeOf("refused") /\ m.s = Names("refused", w, o)
  BY <1>1 DEF Msg, Msgs, TypeOf, Names
<1> HIDE DEF m, z
<1>5. Carries(Put(net, z, m), "refused", rest, w, o, z, <<gate[o], Lobby>>)
  BY <1>2, <1>4, PutsMessage DEF OnNet
<1> QED BY <1>2, <1>3, <1>5 DEF z

LEMMA NoLobbyIs ==
    ASSUME OneByOne, IType, NEW at, NEW rest, NEW first, NEW w, NEW o, NEW x, Is(at, rest, first, w, o, x),
           NEW l \in Logins, ReplyNoLobby(l)
    PROVE  Is("refused", rest, first, w, o, <<l, gate[w]>>)'
<1>1. Answering(l, "no_lobby") /\ net' = ToClient(net, l, Reply(l).s)
      /\ UNCHANGED <<gate_vars, redis_vars, cmds, job, db_vars, lobby_vars>>
  BY DEF ReplyNoLobby
<1>2. l = Srv /\ at = "no_lobby" /\ at \in InReplies /\ Reply(l).s = w /\ replies'[Srv] = <<>>
  BY <1>1, AnswerIs
<1>3. Fits("refused", rest, first)
  BY <1>2 DEF Is, Fits, Places, OnNet, Checking, Admitted, Kicking, MayDelete
<1>4. /\ <<l, gate[w]>> \in Links
      /\ Carries(ToClient(net, l, w), "refused", rest, w, o, <<l, gate[w]>>, <<gate[o], Lobby>>)
  <2>1. at \notin OnNet /\ at \notin {"S_Logout", "nobody"}
    BY <1>2 DEF OnNet
  <2> QED BY <2>1, ToWaiting
<1>5. Carries(net', "refused", rest, w, o, <<l, gate'[w]>>, <<gate'[o], Lobby>>)
  BY <1>1, <1>2, <1>4 DEF gate_vars
<1>6. Waiting(cmds'[Srv], temp', "refused", first, w)
  BY <1>1, <1>2, KeepsClosures DEF redis_vars, InCmds, Kicking
<1>7. /\ Works(job'[Srv], replies'[Srv], queries', listed', "refused", w, o)
      /\ Knows(player', lobby_cmds', info', online', "refused", rest, first, w, o)
      /\ Sessions("refused", rest, w, o)'
  BY <1>1, <1>2, AnswerLeaves DEF InReplies, InJob, Kicking, Checking, Admitted
<1>8. <<l, gate'[w]>> \in Links
  BY <1>1, <1>4 DEF gate_vars
<1> QED BY <1>3, <1>5, <1>6, <1>7, <1>8 DEF Is

\* The kick of the other session, whose gate runs.
LEMMA KickIs ==
    ASSUME OneByOne, IType, NEW at, NEW rest, NEW first, NEW w, NEW o, NEW x, Is(at, rest, first, w, o, x),
           NEW l \in Logins, ReplyKick(l)
    PROVE  Is("LG_KickClient", rest, "hset_temp", w, o, <<l, gate[o]>>)'
<1> DEFINE m == Msg("LG_KickClient", o, FALSE)
           z == <<l, gate[o]>>
           c == Msg("hset_temp", w, FALSE)
<1>1. Answering(l, "kick") /\ UNCHANGED <<gate_vars, redis_vars, job, db_vars, lobby_vars>>
  BY DEF ReplyKick
<1>2. l = Srv /\ at = "kick" /\ at \in InReplies /\ Reply(l) \in Answers /\ Reply(l).s = w /\ Reply(l).other = o
      /\ replies'[Srv] = <<>>
  BY <1>1, AnswerIs
<1>3. o \in Clients /\ gate[o] \in Gates /\ up = Gates /\ w \in Clients
  BY <1>2, LogoutLink DEF Is, Sessions, IType, GateOK
<1>4. net' = Put(net, z, m) /\ cmds' = Push(cmds, l, c)
  BY <1>2, <1>3 DEF ReplyKick
<1>5. Fits("LG_KickClient", rest, "hset_temp") /\ first = "nothing"
  BY <1>2, NothingFirst DEF Is, Fits, Places, OnNet, Checking, Admitted, Kicking, MayDelete, Firsts
<1>6. m \in Msgs /\ m.type = TypeOf("LG_KickClient") /\ m.s = Names("LG_KickClient", w, o)
  BY <1>3 DEF Msg, Msgs, TypeOf, Names
<1>7. z \in Links /\ z[2] # Lobby /\ z # <<gate[o], Lobby>>
  BY <1>3, LinkType, Distinct
<1>8. Carries(net', "LG_KickClient", rest, w, o, <<l, gate'[o]>>, <<gate'[o], Lobby>>)
  <2> HIDE DEF m, z
  <2>1. Carries(Put(net, z, m), "LG_KickClient", rest, w, o, z, <<gate[o], Lobby>>)
    BY <1>2, <1>6, <1>7, PutsMessage DEF OnNet
  <2> QED BY <1>1, <1>4, <2>1 DEF gate_vars, z
<1>9. Waiting(cmds'[Srv], temp', "LG_KickClient", "hset_temp", w)
  <2>1. c \in Closures /\ c.type = "hset_temp" /\ c.s = w
    BY <1>3 DEF Msg, Closures
  <2>2. cmds[Srv] \in Seq(Closures) /\ cmds'[Srv] = Append(cmds[Srv], c)
    BY <1>2, <1>4 DEF Push, IType, LoginOK
  <2> HIDE DEF c
  <2>3. cmds[Srv] = <<>> /\ temp = None
    BY <1>2, <1>5, <2>2, NoClosure DEF Is, Kicking, InCmds
  <2>4. Waiting(Append(<<>>, c), None, "LG_KickClient", "hset_temp", w)
    BY <2>1, PutsFirst DEF Firsts, InCmds
  <2> QED BY <1>1, <2>2, <2>3, <2>4 DEF redis_vars
<1>10. /\ Works(job'[Srv], replies'[Srv], queries', listed', "LG_KickClient", w, o)
       /\ Knows(player', lobby_cmds', info', online', "LG_KickClient", rest, first, w, o)
       /\ Sessions("LG_KickClient", rest, w, o)'
  BY <1>1, <1>2, AnswerLeaves DEF InReplies, InJob, Kicking, Checking, Admitted
<1>11. Knows(player', lobby_cmds', info', online', "LG_KickClient", rest, "hset_temp", w, o)
  BY <1>5, <1>10 DEF Knows
<1>12. <<l, gate'[o]>> \in Links
  BY <1>1, <1>7 DEF gate_vars
<1> QED BY <1>5, <1>8, <1>9, <1>10, <1>11, <1>12 DEF Is

-----------------------------------------------------------------------------
(* The Redis thread of the login server *)

\* It runs a closure when the lobby has nothing to do.
LEMMA LobbyDone ==
    ASSUME IType, NEW at, NEW rest, NEW first, NEW w, NEW o, NEW x, Is(at, rest, first, w, o, x), LobbyQuiet
    PROVE  rest \in {"nobody", "in"}
<1>1. ASSUME rest = "S_Logout" PROVE FALSE
  <2> DEFINE y == <<gate[o], Lobby>>
  <2>1. y \in Links /\ y[2] = Lobby
    BY <1>1, LogoutLink
  <2>2. Single(net[y], "S_Logout", o)
    BY <1>1 DEF Is, Carries
  <2>3. net[y] = <<>>
    BY <2>1 DEF LobbyQuiet
  <2> QED BY <2>2, <2>3 DEF Single
<1>2. ASSUME rest \in {"hdel_info", "hdel_online"} PROVE FALSE
  <2>1. lobby_cmds # <<>>
    BY <1>2 DEF Is, Knows
  <2> QED BY <2>1 DEF LobbyQuiet
<1>3. rest \in Rests
  BY DEF Is, Fits
<1> QED BY <1>1, <1>2, <1>3 DEF Rests

LEMMA NextIs ==
    ASSUME OneByOne, IType, NEW at, NEW rest, NEW first, NEW w, NEW o, NEW x, Is(at, rest, first, w, o, x),
           NEW l \in Logins, NEW op, IsNext(l, op)
    PROVE  /\ l = Srv /\ job[Srv] = Idle /\ at \notin InJob /\ rest \in {"nobody", "in"}
           /\ cmds \in [Logins -> Seq(Closures)] /\ cmds[Srv] \in Seq(Closures) /\ cmds[Srv] # <<>>
           /\ Cmd(l) = Head(cmds[Srv]) /\ Cmd(l) \in Closures /\ Cmd(l).type = op
<1>1. l = Srv /\ Srv \in Logins
  BY OneServer
<1>2. LobbyQuiet /\ job[l] = Idle /\ cmds[l] # <<>> /\ Cmd(l).type = op
  BY DEF IsNext, OneByOne
<1>3. cmds \in [Logins -> Seq(Closures)]
  BY DEF IType, LoginOK
<1>4. Cmd(l) = Head(cmds[Srv]) /\ Cmd(l) \in Closures
  BY <1>1, <1>2, <1>3, HeadTailProperties DEF Cmd
<1>5. at \notin InJob
  BY <1>1, <1>2 DEF Is, Works, Idle, Msg, InJob
<1>6. rest \in {"nobody", "in"}
  BY <1>2, LobbyDone
<1> QED BY <1>1, <1>2, <1>3, <1>4, <1>5, <1>6

\* The closure of the login is run, and it was the only one.
LEMMA CmdIs ==
    ASSUME OneByOne, IType, NEW at, NEW rest, NEW first, NEW w, NEW o, NEW x, Is(at, rest, first, w, o, x),
           NEW l \in Logins, NEW op, IsNext(l, op), op \notin {"hdel_info", "hset_temp"}
    PROVE  /\ l = Srv /\ job[Srv] = Idle /\ rest \in {"nobody", "in"}
           /\ at = op /\ at \in InCmds /\ first = "nothing" /\ (at # "kicked" => Cmd(l).s = w)
           /\ Tail(cmds[Srv]) = <<>> /\ [cmds EXCEPT ![l] = Tail(@)][Srv] = <<>>
           /\ temp = IF at \in Kicking THEN w ELSE None
<1>1. /\ l = Srv /\ job[Srv] = Idle /\ rest \in {"nobody", "in"}
      /\ cmds \in [Logins -> Seq(Closures)] /\ cmds[Srv] \in Seq(Closures) /\ cmds[Srv] # <<>>
      /\ Cmd(l) = Head(cmds[Srv]) /\ Cmd(l).type = op
  BY NextIs
<1>2. Waiting(cmds[Srv], temp, at, first, w) /\ Fits(at, rest, first)
  BY DEF Is
<1>3. Head(cmds[Srv]).type \notin {"hdel_info", "hset_temp"}
  BY <1>1
<1>4. /\ first = "nothing" /\ at \in InCmds
      /\ Head(cmds[Srv]).type = at /\ (at # "kicked" => Head(cmds[Srv]).s = w) /\ Tail(cmds[Srv]) = <<>>
  BY <1>1, <1>2, <1>3, TakesLogin
<1>5. temp = IF at \in Kicking THEN w ELSE None
  BY <1>2, <1>4 DEF Waiting
<1> QED BY <1>1, <1>4, <1>5

\* The job of the Redis thread is the login's.
LEMMA JobIs ==
    ASSUME OneByOne, IType, NEW at, NEW rest, NEW first, NEW w, NEW o, NEW x, Is(at, rest, first, w, o, x),
           NEW l \in Logins, job[l].type # "idle"
    PROVE  /\ l = Srv /\ at = job[l].type /\ at \in InJob /\ job[l].s = w
           /\ first = "nothing" /\ cmds[Srv] = <<>> /\ temp = None /\ cmds \in [Logins -> Seq(Closures)]
           /\ w \in Clients /\ job \in [Logins -> Jobs]
<1>1. l = Srv /\ Srv \in Logins
  BY OneServer
<1>2. at \in InJob /\ at = job[l].type /\ job[l].s = w
  BY <1>1 DEF Is, Works, Idle, Msg
<1>3. first = "nothing" /\ at \notin InCmds /\ at \notin Kicking
  BY <1>2, NothingFirst DEF Is, InJob, InCmds, Kicking, MayDelete
<1>4. cmds[Srv] \in Seq(Closures) /\ cmds \in [Logins -> Seq(Closures)] /\ job \in [Logins -> Jobs]
  BY <1>1 DEF IType, LoginOK
<1>5. cmds[Srv] = <<>> /\ temp = None
  BY <1>3, <1>4, NoClosure DEF Is
<1>6. w \in Clients
  BY <1>2 DEF Is, Sessions, IType, GateOK, InJob
<1> QED BY <1>1, <1>2, <1>3, <1>4, <1>5, <1>6

\* What the Redis thread leaves alone when it takes the login from one place in the
\* server to another.
LEMMA StaysIn ==
    ASSUME NEW at, NEW rest, NEW first, NEW w, NEW o, NEW x, Is(at, rest, first, w, o, x),
           UNCHANGED <<net, gate_vars>>, NEW at2,
           at \in InCmds \union InJob \union InReplies, at2 \in InCmds \union InJob \union InReplies,
           at2 \in Kicking \union {"kick"} => o \in in_game
    PROVE  /\ Sessions(at2, rest, w, o)'
           /\ Carries(net', at2, rest, w, o, x, <<gate'[o], Lobby>>)
<1>1. {at, at2} \intersect {"nobody", "closes", "queued", "S_Logout"} = {}
      /\ at \notin OnNet /\ at2 \notin OnNet
  BY DEF InCmds, InJob, InReplies, OnNet
<1>2. Sessions(at2, rest, w, o)'
  <2>1. {at, at2} \intersect {"nobody", "closes", "queued"} = {}
    BY <1>1
  <2> QED BY <2>1, SameSessions DEF Is
<1>3. Carries(net, at2, rest, w, o, x, <<gate[o], Lobby>>)
  <2> DEFINE y == <<gate[o], Lobby>>
  <2>1. Carries(net, at, rest, w, o, x, y)
    BY DEF Is
  <2> HIDE DEF y
  <2>2. Carries(net, at2, rest, w, o, x, y)
    BY <2>1, <1>1, SameLinks
  <2> QED BY <2>2 DEF y
<1> QED BY <1>2, <1>3 DEF gate_vars

LEMMA NoneWaits ==
    ASSUME NEW q, q = <<>>, NEW at, at \notin InCmds \union Kicking, NEW w
    PROVE  Waiting(q, None, at, "nothing", w)
BY DEF Waiting

LEMMA RunLoginIs ==
    ASSUME OneByOne, IType, NEW at, NEW rest, NEW first, NEW w, NEW o, NEW x, Is(at, rest, first, w, o, x),
           NEW l \in Logins, RunLogin(l)
    PROVE  \/ Is("verify", rest, "nothing", w, o, x)'
           \/ rest = "in" /\ Is("get_other", rest, "nothing", w, o, x)'
<1>1. IsNext(l, "login") /\ cmds' = [cmds EXCEPT ![l] = Tail(@)]
      /\ UNCHANGED <<net, gate_vars, temp, online, db_vars, lobby_vars>>
  BY DEF RunLogin, Runs
<1>2. /\ l = Srv /\ job[Srv] = Idle /\ rest \in {"nobody", "in"}
      /\ at = "login" /\ at \in InCmds /\ first = "nothing" /\ Cmd(l).s = w
      /\ cmds'[Srv] = <<>> /\ temp = IF at \in Kicking THEN w ELSE None
  BY <1>1, CmdIs
<1>3. temp' = None
  BY <1>1, <1>2 DEF Kicking
<1>4. replies \in [Logins -> Seq(Answers)] /\ job \in [Logins -> Jobs] /\ Srv \in Logins
  BY OneServer DEF IType, LoginOK
<1>5. Works(job[Srv], replies[Srv], queries, listed, at, w, o)
      /\ Knows(player, lobby_cmds, info, online, at, rest, first, w, o)
      /\ w \in Clients \union {None} /\ o \in Clients \union {None} /\ x \in Links
      /\ Fits(at, rest, first)
  BY DEF Is
<1>6. replies[Srv] = <<>> /\ queries = <<>> /\ ~listed
  BY <1>2, <1>5 DEF Works, InReplies
<1>7. info = (IF rest = "in" THEN [s |-> o, guid |-> TRUE] ELSE NoInfo) /\ (rest = "nobody" => ~online)
  BY <1>2, <1>5 DEF Knows, Admitted, Checking
<1>8. CASE info = NoInfo
  <2>1. /\ info' = [s |-> w, guid |-> FALSE]
        /\ replies' = Push(replies, l, Msg("verify", w, FALSE)) /\ job' = job
    BY <1>8, <1>2 DEF RunLogin
  <2>2. rest = "nobody"
    BY <1>2, <1>7, <1>8 DEF NoInfo
  <2>3. Fits("verify", rest, "nothing")
    BY <2>2 DEF Fits, Places, InReplies, Rests, Firsts, Kicking, MayDelete
  <2>4. replies'[Srv] = Append(<<>>, Msg("verify", w, FALSE))
    BY <2>1, <1>2, <1>4, <1>6 DEF Push
  <2>5. Single(replies'[Srv], "verify", w)
    BY <2>4 DEF Single, Msg
  <2>6. Works(job'[Srv], replies'[Srv], queries', listed', "verify", w, o)
    BY <2>1, <2>5, <1>1, <1>2, <1>6 DEF Works, InReplies, InJob, db_vars
  <2>7. Knows(player', lobby_cmds', info', online', "verify", rest, "nothing", w, o)
    BY <2>1, <2>2, <1>1, <1>2, <1>5 DEF Knows, Checking, Admitted, lobby_vars
  <2>8. Waiting(cmds'[Srv], temp', "verify", "nothing", w)
    BY <1>2, <1>3, NoneWaits DEF InCmds, Kicking
  <2>9. /\ Sessions("verify", rest, w, o)'
        /\ Carries(net', "verify", rest, w, o, x, <<gate'[o], Lobby>>)
    BY <1>1, <1>2, StaysIn DEF InCmds, InReplies, Kicking
  <2> QED BY <1>5, <2>3, <2>6, <2>7, <2>8, <2>9 DEF Is
<1>9. CASE info # NoInfo
  <2>1. job' = [job EXCEPT ![l] = Msg("get_other", w, FALSE)] /\ UNCHANGED <<info, replies>>
    BY <1>9, <1>2 DEF RunLogin, Then
  <2>2. rest = "in"
    BY <1>2, <1>7, <1>9
  <2>3. Fits("get_other", rest, "nothing")
    BY <2>2 DEF Fits, Places, InJob, Rests, Firsts, Kicking, MayDelete, Checking, Admitted
  <2>4. job'[Srv] = Msg("get_other", w, FALSE)
    BY <2>1, <1>2, <1>4
  <2>5. Works(job'[Srv], replies'[Srv], queries', listed', "get_other", w, o)
    BY <2>1, <2>4, <1>1, <1>6 DEF Works, InReplies, InJob, db_vars, Msg
  <2>6. Knows(player', lobby_cmds', info', online', "get_other", rest, "nothing", w, o)
    BY <2>1, <2>2, <1>1, <1>2, <1>5 DEF Knows, Checking, Admitted, lobby_vars
  <2>7. Waiting(cmds'[Srv], temp', "get_other", "nothing", w)
    BY <1>2, <1>3, NoneWaits DEF InCmds, Kicking
  <2>8. /\ Sessions("get_other", rest, w, o)'
        /\ Carries(net', "get_other", rest, w, o, x, <<gate'[o], Lobby>>)
    BY <1>1, <1>2, StaysIn DEF InCmds, InJob, Kicking
  <2> QED BY <1>5, <2>2, <2>3, <2>5, <2>6, <2>7, <2>8 DEF Is
<1> QED BY <1>8, <1>9

LEMMA RunGetOtherIs ==
    ASSUME OneByOne, IType, NEW at, NEW rest, NEW first, NEW w, NEW o, NEW x, Is(at, rest, first, w, o, x),
           NEW l \in Logins, RunGetOther(l), at \in Meets => Fresh(o)
    PROVE  \/ Is("refused", rest, "nothing", w, o, <<l, gate[w]>>)'
           \/ Is("kick", rest, "nothing", w, o, x)'
<1>1. job[l].type = "get_other" /\ job' = [job EXCEPT ![l] = Idle]
      /\ UNCHANGED <<gate_vars, redis_vars, cmds, db_vars, lobby_vars>>
  BY DEF RunGetOther, Continues
<1>2. /\ l = Srv /\ at = "get_other" /\ at \in InJob /\ job[l].s = w
      /\ first = "nothing" /\ cmds[Srv] = <<>> /\ temp = None
      /\ w \in Clients /\ job \in [Logins -> Jobs]
  BY <1>1, JobIs
<1>3. replies \in [Logins -> Seq(Answers)] /\ Srv \in Logins /\ job'[Srv] = Idle
  BY <1>1, <1>2, OneServer DEF IType, LoginOK
<1>4. Works(job[Srv], replies[Srv], queries, listed, at, w, o)
      /\ Knows(player, lobby_cmds, info, online, at, rest, first, w, o)
      /\ Sessions(at, rest, w, o)
      /\ o \in Clients \union {None} /\ x \in Links /\ Fits(at, rest, first)
  BY DEF Is
<1>5. replies[Srv] = <<>> /\ queries = <<>> /\ ~listed
  BY <1>2, <1>4 DEF Works, InReplies
<1>6. info = IF rest \in {"in", "S_Logout", "hdel_info"} THEN [s |-> o, guid |-> TRUE] ELSE NoInfo
  BY <1>2, <1>4 DEF Knows, Admitted, Checking
<1>7. rest # "nobody" => o \in in_game /\ o # w
  BY <1>2, <1>4 DEF Sessions
<1>8. info # NoInfo => info.s = o /\ session_id[o] # session_id[w]
  <2> SUFFICES ASSUME info # NoInfo, session_id[o] = session_id[w], info.s = o PROVE FALSE
    BY <1>6
  <2>1. w \in send_login /\ sock[w] = "open" /\ w # o
    BY <1>2, <1>4, <1>6, <1>7 DEF Sessions
  <2>2. tries[w] > 0
    BY <2>1 DEF IType, NumbersOK
  <2>3. Fresh(o)
    BY <1>2 DEF Meets
  <2>4. tries[w] = 0
    BY <2>1, <2>3, <1>2 DEF Fresh, InTable
  <2> QED BY <2>2, <2>4
<1>9. CASE info = NoInfo /\ net' = ToClient(net, l, w) /\ replies' = replies
  <2>1. Fits("refused", rest, "nothing")
    BY <1>2, <1>4 DEF Fits, Places, OnNet, Rests, Firsts, Kicking, MayDelete, Checking, Admitted
  <2>2. at \notin OnNet /\ at \notin {"S_Logout", "nobody"}
    BY <1>2 DEF OnNet
  <2>3. /\ <<l, gate[w]>> \in Links
        /\ Carries(ToClient(net, l, w), "refused", rest, w, o, <<l, gate[w]>>, <<gate[o], Lobby>>)
    BY <2>2, ToWaiting
  <2>4. /\ <<l, gate'[w]>> \in Links
        /\ Carries(net', "refused", rest, w, o, <<l, gate'[w]>>, <<gate'[o], Lobby>>)
    BY <2>3, <1>1, <1>9 DEF gate_vars
  <2>5. Works(job'[Srv], replies'[Srv], queries', listed', "refused", w, o)
    BY <1>1, <1>3, <1>5, <1>9 DEF Works, InReplies, InJob, db_vars
  <2>6. Knows(player', lobby_cmds', info', online', "refused", rest, "nothing", w, o)
    BY <1>1, <1>2, <1>4 DEF Knows, Checking, Admitted, lobby_vars, redis_vars
  <2>7. Waiting(cmds'[Srv], temp', "refused", "nothing", w)
    BY <1>1, <1>2, NoneWaits DEF InCmds, Kicking, redis_vars
  <2>8. Sessions("refused", rest, w, o)'
    BY <1>1, <1>2, <1>4, SameSessions DEF Kicking
  <2> QED BY <1>2, <1>4, <2>1, <2>4, <2>5, <2>6, <2>7, <2>8 DEF Is
<1>10. CASE /\ info # NoInfo /\ net' = net
            /\ replies' = Push(replies, l, [type |-> "kick", s |-> w, flag |-> info.guid, other |-> info.s])
  <2> DEFINE a == [type |-> "kick", s |-> w, flag |-> info.guid, other |-> info.s]
  <2>1. rest \in {"in", "S_Logout", "hdel_info"} /\ info.s = o
    BY <1>6, <1>10 DEF NoInfo
  <2>2. Fits("kick", rest, "nothing")
    BY <1>2, <1>4 DEF Fits, Places, InReplies, Rests, Firsts, Kicking, MayDelete, Checking, Admitted
  <2>3. replies'[Srv] = Append(<<>>, a)
    BY <1>2, <1>3, <1>5, <1>10 DEF Push
  <2>4. Single(replies'[Srv], "kick", w) /\ replies'[Srv][1].other = o
    BY <2>1, <2>3 DEF Single
  <2>5. Works(job'[Srv], replies'[Srv], queries', listed', "kick", w, o)
    BY <2>4, <1>1, <1>3, <1>5 DEF Works, InReplies, InJob, db_vars
  <2>6. Knows(player', lobby_cmds', info', online', "kick", rest, "nothing", w, o)
    BY <1>1, <1>2, <1>4 DEF Knows, Checking, Admitted, lobby_vars, redis_vars
  <2>7. Waiting(cmds'[Srv], temp', "kick", "nothing", w)
    BY <1>1, <1>2, NoneWaits DEF InCmds, Kicking, redis_vars
  <2>8. /\ Sessions("kick", rest, w, o)'
        /\ Carries(net', "kick", rest, w, o, x, <<gate'[o], Lobby>>)
    BY <1>1, <1>2, <1>7, <1>10, <2>1, StaysIn DEF InReplies, InJob, Kicking
  <2> QED BY <1>2, <1>4, <2>2, <2>5, <2>6, <2>7, <2>8 DEF Is
<1> QED BY <1>2, <1>8, <1>9, <1>10 DEF RunGetOther

LEMMA RunNever ==
    ASSUME OneByOne, IType, NEW at, NEW rest, NEW first, NEW w, NEW o, NEW x, Is(at, rest, first, w, o, x),
           NEW l \in Logins
    PROVE  ~(RunTakeover(l) \/ RunLogout(l) \/ RunForget(l) \/ RunWhere(l))
<1>1. ASSUME RunTakeover(l) PROVE FALSE
  BY <1>1, CmdIs DEF RunTakeover, Runs, InCmds
<1>2. ASSUME RunLogout(l) PROVE FALSE
  BY <1>2, CmdIs DEF RunLogout, Runs, InCmds
<1>3. ASSUME RunForget(l) \/ RunWhere(l) PROVE FALSE
  <2>1. job[l].type \in {"forget", "where"}
    BY <1>3 DEF RunForget, RunWhere, Continues
  <2>2. at = job[l].type /\ at \in InJob
    BY <2>1, JobIs
  <2> QED BY <2>1, <2>2 DEF InJob
<1> QED BY <1>1, <1>2, <1>3

\* What does not change while the closure before the login's is run.
LEMMA StaysWhere ==
    ASSUME NEW at, NEW rest, NEW first, NEW w, NEW o, NEW x, Is(at, rest, first, w, o, x),
           UNCHANGED <<net, gate_vars, job, replies, db_vars>>
    PROVE  /\ Sessions(at, rest, w, o)'
           /\ Carries(net', at, rest, w, o, x, <<gate'[o], Lobby>>)
           /\ Works(job'[Srv], replies'[Srv], queries', listed', at, w, o)
<1>1. Sessions(at, rest, w, o)'
  BY DEF Is, Sessions, gate_vars
<1>2. Carries(net', at, rest, w, o, x, <<gate'[o], Lobby>>)
  BY DEF Is, gate_vars
<1>3. Works(job'[Srv], replies'[Srv], queries', listed', at, w, o)
  BY DEF Is, db_vars
<1> QED BY <1>1, <1>2, <1>3

LEMMA RunFirstIs ==
    ASSUME OneByOne, IType, NEW at, NEW rest, NEW first, NEW w, NEW o, NEW x, Is(at, rest, first, w, o, x),
           NEW l \in Logins, RunHsetTemp(l) \/ RunHdelInfo(l)
    PROVE  Is(at, rest, "nothing", w, o, x)'
<1> DEFINE op == IF RunHsetTemp(l) THEN "hset_temp" ELSE "hdel_info"
<1>1. /\ IsNext(l, op) /\ op \in {"hset_temp", "hdel_info"}
      /\ cmds' = [cmds EXCEPT ![l] = Tail(@)]
      /\ UNCHANGED <<net, gate_vars, online, job, replies, db_vars, lobby_vars>>
      /\ op = "hset_temp" => temp' = Cmd(l).s /\ info' = info
      /\ op = "hdel_info" => info' = NoInfo /\ temp' = temp
  BY DEF RunHsetTemp, RunHdelInfo, Runs
<1> HIDE DEF op
<1>2. /\ l = Srv /\ cmds \in [Logins -> Seq(Closures)] /\ cmds[Srv] \in Seq(Closures) /\ cmds[Srv] # <<>>
      /\ Cmd(l) = Head(cmds[Srv]) /\ Cmd(l).type = op
  BY <1>1, NextIs
<1>3. Waiting(cmds[Srv], temp, at, first, w) /\ Fits(at, rest, first)
      /\ Knows(player, lobby_cmds, info, online, at, rest, first, w, o)
      /\ w \in Clients \union {None} /\ o \in Clients \union {None} /\ x \in Links
  BY DEF Is
<1>4. Head(cmds[Srv]).type \in {"hdel_info", "hset_temp"}
  BY <1>1, <1>2
<1>5. /\ first = Head(cmds[Srv]).type /\ (first = "hset_temp" => Head(cmds[Srv]).s = w)
      /\ \A t2 : t2 = (IF at \in Kicking THEN w ELSE None) => Waiting(Tail(cmds[Srv]), t2, at, "nothing", w)
  BY <1>2, <1>3, <1>4, TakesFirst
<1>6. first = op
  BY <1>2, <1>5
<1>7. temp' = IF at \in Kicking THEN w ELSE None
  <2>1. CASE op = "hset_temp"
    BY <2>1, <1>1, <1>2, <1>3, <1>5, <1>6 DEF Fits
  <2>2. CASE op = "hdel_info"
    BY <2>2, <1>1, <1>3, <1>6 DEF Fits, Waiting, Kicking, MayDelete
  <2> QED BY <2>1, <2>2, <1>1
<1>8. Waiting(cmds'[Srv], temp', at, "nothing", w)
  <2>1. cmds'[Srv] = Tail(cmds[Srv])
    BY <1>1, <1>2
  <2> QED BY <2>1, <1>5, <1>7
<1>9. Fits(at, rest, "nothing")
  BY <1>3 DEF Fits, Firsts
<1>10. Knows(player', lobby_cmds', info', online', at, rest, "nothing", w, o)
  <2>1. CASE op = "hset_temp"
    BY <2>1, <1>1, <1>3, <1>6 DEF Knows, lobby_vars
  <2>2. CASE op = "hdel_info"
    <3>1. rest = "nobody" /\ at \notin Admitted /\ at \notin Checking
      BY <2>2, <1>3, <1>6 DEF Fits, MayDelete, Admitted, Checking
    <3> QED BY <2>2, <3>1, <1>1, <1>3 DEF Knows, lobby_vars
  <2> QED BY <2>1, <2>2, <1>1
<1>11. /\ Sessions(at, rest, w, o)'
       /\ Carries(net', at, rest, w, o, x, <<gate'[o], Lobby>>)
       /\ Works(job'[Srv], replies'[Srv], queries', listed', at, w, o)
  BY <1>1, StaysWhere
<1> QED BY <1>3, <1>8, <1>9, <1>10, <1>11 DEF Is

\* The remembered login goes on when all that is left of the other session is done.
LEMMA RunKickedIs ==
    ASSUME OneByOne, IType, NEW at, NEW rest, NEW first, NEW w, NEW o, NEW x, Is(at, rest, first, w, o, x),
           NEW l \in Logins, RunKicked(l)
    PROVE  Is("verify", rest, "nothing", w, o, x)'
<1>1. IsNext(l, "kicked") /\ cmds' = [cmds EXCEPT ![l] = Tail(@)]
      /\ UNCHANGED <<net, gate_vars, online, job, db_vars, lobby_vars>>
  BY DEF RunKicked, Runs
<1>2. /\ l = Srv /\ job[Srv] = Idle /\ rest \in {"nobody", "in"}
      /\ at = "kicked" /\ at \in InCmds /\ first = "nothing"
      /\ cmds'[Srv] = <<>> /\ temp = IF at \in Kicking THEN w ELSE None
  BY <1>1, CmdIs
<1>3. replies \in [Logins -> Seq(Answers)] /\ Srv \in Logins
  BY OneServer DEF IType, LoginOK
<1>4. Works(job[Srv], replies[Srv], queries, listed, at, w, o)
      /\ Knows(player, lobby_cmds, info, online, at, rest, first, w, o)
      /\ Sessions(at, rest, w, o)
      /\ w \in Clients \union {None} /\ o \in Clients \union {None} /\ x \in Links /\ Fits(at, rest, first)
  BY DEF Is
<1>5. temp = w /\ w \in Clients /\ w # None
  BY <1>2, <1>4, Distinct DEF Kicking, Sessions, IType, GateOK
<1>6. /\ temp' = None /\ info' = [s |-> w, guid |-> FALSE]
      /\ replies' = Push(replies, l, Msg("verify", w, FALSE))
  BY <1>5 DEF RunKicked
<1>7. rest = "nobody" /\ ~online
  BY <1>2, <1>4 DEF Fits, Knows, Admitted
<1>8. Fits("verify", rest, "nothing")
  BY <1>7 DEF Fits, Places, InReplies, Rests, Firsts, Kicking, MayDelete
<1>9. replies[Srv] = <<>> /\ queries = <<>> /\ ~listed
  BY <1>2, <1>4 DEF Works, InReplies
<1>10. replies'[Srv] = Append(<<>>, Msg("verify", w, FALSE))
  BY <1>2, <1>3, <1>6, <1>9 DEF Push
<1>11. Single(replies'[Srv], "verify", w)
  BY <1>10 DEF Single, Msg
<1>12. Works(job'[Srv], replies'[Srv], queries', listed', "verify", w, o)
  BY <1>11, <1>1, <1>2, <1>9 DEF Works, InReplies, InJob, db_vars
<1>13. Knows(player', lobby_cmds', info', online', "verify", rest, "nothing", w, o)
  BY <1>1, <1>2, <1>4, <1>6, <1>7 DEF Knows, Checking, Admitted, lobby_vars
<1>14. Waiting(cmds'[Srv], temp', "verify", "nothing", w)
  BY <1>2, <1>6, NoneWaits DEF InCmds, Kicking
<1>15. /\ Sessions("verify", rest, w, o)'
       /\ Carries(net', "verify", rest, w, o, x, <<gate'[o], Lobby>>)
  BY <1>1, <1>2, StaysIn DEF InCmds, InReplies, Kicking
<1> QED BY <1>4, <1>8, <1>12, <1>13, <1>14, <1>15 DEF Is

LEMMA RunVerifiedIs ==
    ASSUME OneByOne, IType, NEW at, NEW rest, NEW first, NEW w, NEW o, NEW x, Is(at, rest, first, w, o, x),
           NEW l \in Logins, RunVerified(l)
    PROVE  Is("reconnect", rest, "nothing", w, o, x)'
<1>1. IsNext(l, "result") /\ cmds' = [cmds EXCEPT ![l] = Tail(@)]
      /\ UNCHANGED <<net, gate_vars, redis_vars, replies, db_vars, lobby_vars>>
  BY DEF RunVerified, Runs
<1>2. /\ l = Srv /\ job[Srv] = Idle /\ rest \in {"nobody", "in"}
      /\ at = "result" /\ at \in InCmds /\ first = "nothing"
      /\ cmds'[Srv] = <<>> /\ temp = IF at \in Kicking THEN w ELSE None
  BY <1>1, CmdIs
<1>3. job \in [Logins -> Jobs] /\ Srv \in Logins
  BY OneServer DEF IType, LoginOK
<1>4. Works(job[Srv], replies[Srv], queries, listed, at, w, o)
      /\ Knows(player, lobby_cmds, info, online, at, rest, first, w, o)
      /\ Sessions(at, rest, w, o)
      /\ w \in Clients \union {None} /\ o \in Clients \union {None} /\ x \in Links /\ Fits(at, rest, first)
  BY DEF Is
<1>5. rest = "nobody"
  BY <1>2, <1>4 DEF Fits, Checking
<1>6. info = [s |-> w, guid |-> FALSE] /\ w \in Clients
  BY <1>2, <1>4, <1>5 DEF Knows, Checking, Admitted, Sessions, IType, GateOK
<1>7. job' = [job EXCEPT ![l] = Msg("reconnect", w, FALSE)]
  BY <1>6, Distinct DEF RunVerified, Then, NoInfo
<1>8. job'[Srv] = Msg("reconnect", w, FALSE)
  BY <1>2, <1>3, <1>7
<1>9. Fits("reconnect", rest, "nothing")
  BY <1>5 DEF Fits, Places, InJob, Rests, Firsts, Kicking, MayDelete
<1>10. Works(job'[Srv], replies'[Srv], queries', listed', "reconnect", w, o)
  BY <1>1, <1>2, <1>4, <1>8 DEF Works, InReplies, InJob, db_vars, Msg
<1>11. Knows(player', lobby_cmds', info', online', "reconnect", rest, "nothing", w, o)
  BY <1>1, <1>2, <1>4 DEF Knows, Checking, Admitted, lobby_vars, redis_vars
<1>12. Waiting(cmds'[Srv], temp', "reconnect", "nothing", w)
  BY <1>1, <1>2, NoneWaits DEF InCmds, Kicking, redis_vars
<1>13. /\ Sessions("reconnect", rest, w, o)'
       /\ Carries(net', "reconnect", rest, w, o, x, <<gate'[o], Lobby>>)
  BY <1>1, <1>2, StaysIn DEF InCmds, InJob, Kicking
<1> QED BY <1>4, <1>9, <1>10, <1>11, <1>12, <1>13 DEF Is

LEMMA RunReconnectIs ==
    ASSUME OneByOne, IType, NEW at, NEW rest, NEW first, NEW w, NEW o, NEW x, Is(at, rest, first, w, o, x),
           NEW l \in Logins, RunReconnect(l)
    PROVE  \/ Is("enter", rest, "nothing", w, o, x)'
           \/ Is("no_lobby", rest, "hdel_info", w, o, x)'
<1>1. job[l].type = "reconnect" /\ UNCHANGED <<net, gate_vars, redis_vars, db_vars, lobby_vars>>
  BY DEF RunReconnect
<1>2. /\ l = Srv /\ at = "reconnect" /\ at \in InJob /\ job[l].s = w
      /\ first = "nothing" /\ cmds[Srv] = <<>> /\ temp = None /\ cmds \in [Logins -> Seq(Closures)]
      /\ w \in Clients /\ job \in [Logins -> Jobs]
  BY <1>1, JobIs
<1>3. replies \in [Logins -> Seq(Answers)] /\ Srv \in Logins
  BY OneServer DEF IType, LoginOK
<1>4. Works(job[Srv], replies[Srv], queries, listed, at, w, o)
      /\ Knows(player, lobby_cmds, info, online, at, rest, first, w, o)
      /\ o \in Clients \union {None} /\ x \in Links /\ Fits(at, rest, first)
  BY DEF Is
<1>5. rest = "nobody" /\ ~online
  BY <1>2, <1>4 DEF Fits, Checking, Knows, Admitted
<1>6. replies[Srv] = <<>> /\ queries = <<>> /\ ~listed
  BY <1>2, <1>4 DEF Works, InReplies
<1>7. CASE job' = [job EXCEPT ![l] = Msg("enter", w, FALSE)] /\ UNCHANGED <<cmds, replies>>
  <2>1. job'[Srv] = Msg("enter", w, FALSE)
    BY <1>2, <1>3, <1>7
  <2>2. Fits("enter", rest, "nothing")
    BY <1>5 DEF Fits, Places, InJob, Rests, Firsts, Kicking, MayDelete
  <2>3. Works(job'[Srv], replies'[Srv], queries', listed', "enter", w, o)
    BY <2>1, <1>1, <1>6, <1>7 DEF Works, InReplies, InJob, db_vars, Msg
  <2>4. Knows(player', lobby_cmds', info', online', "enter", rest, "nothing", w, o)
    BY <1>1, <1>2, <1>4 DEF Knows, Checking, Admitted, lobby_vars, redis_vars
  <2>5. Waiting(cmds'[Srv], temp', "enter", "nothing", w)
    BY <1>1, <1>2, <1>7, NoneWaits DEF InCmds, Kicking, redis_vars
  <2>6. /\ Sessions("enter", rest, w, o)'
        /\ Carries(net', "enter", rest, w, o, x, <<gate'[o], Lobby>>)
    BY <1>1, <1>2, StaysIn DEF InJob, Kicking
  <2> QED BY <1>2, <1>4, <2>2, <2>3, <2>4, <2>5, <2>6 DEF Is
<1>8. CASE /\ replies' = Push(replies, l, Msg("no_lobby", w, FALSE))
           /\ cmds' = Push(cmds, l, Msg("hdel_info", None, FALSE))
           /\ job' = [job EXCEPT ![l] = Idle]
  <2> DEFINE c == Msg("hdel_info", None, FALSE)
  <2>1. job'[Srv] = Idle /\ replies'[Srv] = Append(<<>>, Msg("no_lobby", w, FALSE))
        /\ cmds'[Srv] = Append(<<>>, c)
    BY <1>2, <1>3, <1>6, <1>8 DEF Push
  <2>2. Fits("no_lobby", rest, "hdel_info")
    BY <1>5 DEF Fits, Places, InReplies, Rests, Firsts, Kicking, MayDelete
  <2>3. Single(replies'[Srv], "no_lobby", w)
    BY <2>1 DEF Single, Msg
  <2>4. Works(job'[Srv], replies'[Srv], queries', listed', "no_lobby", w, o)
    BY <2>1, <2>3, <1>1, <1>6 DEF Works, InReplies, InJob, db_vars
  <2>5. Knows(player', lobby_cmds', info', online', "no_lobby", rest, "hdel_info", w, o)
    BY <1>1, <1>2, <1>4 DEF Knows, Checking, Admitted, lobby_vars, redis_vars
  <2>6. Waiting(cmds'[Srv], temp', "no_lobby", "hdel_info", w)
    <3>1. c \in Closures /\ c.type = "hdel_info"
      BY DEF c, Msg, Closures
    <3> HIDE DEF c
    <3>2. Waiting(Append(<<>>, c), None, "no_lobby", "hdel_info", w)
      BY <3>1, PutsFirst DEF Firsts, InCmds
    <3> QED BY <2>1, <3>2, <1>1, <1>2 DEF redis_vars
  <2>7. /\ Sessions("no_lobby", rest, w, o)'
        /\ Carries(net', "no_lobby", rest, w, o, x, <<gate'[o], Lobby>>)
    BY <1>1, <1>2, StaysIn DEF InJob, InReplies, Kicking
  <2> QED BY <1>2, <1>4, <2>2, <2>4, <2>5, <2>6, <2>7 DEF Is
<1> QED BY <1>2, <1>5, <1>7, <1>8 DEF RunReconnect, Then

LEMMA RunEnterIs ==
    ASSUME OneByOne, IType, NEW at, NEW rest, NEW first, NEW w, NEW o, NEW x, Is(at, rest, first, w, o, x),
           NEW l \in Logins, RunEnter(l)
    PROVE  Is("notify", rest, "nothing", w, o, x)'
<1>1. job[l].type = "enter" /\ job' = [job EXCEPT ![l] = Idle]
      /\ online' = TRUE /\ UNCHANGED <<net, gate_vars, temp, cmds, db_vars, lobby_vars>>
  BY DEF RunEnter, Continues
<1>2. /\ l = Srv /\ at = "enter" /\ at \in InJob /\ job[l].s = w
      /\ first = "nothing" /\ cmds[Srv] = <<>> /\ temp = None
      /\ w \in Clients /\ job \in [Logins -> Jobs]
  BY <1>1, JobIs
<1>3. /\ info' = [s |-> w, guid |-> TRUE]
      /\ replies' = Push(replies, l, Msg("notify", w, FALSE))
  BY <1>2 DEF RunEnter
<1>4. Works(job[Srv], replies[Srv], queries, listed, at, w, o)
      /\ Knows(player, lobby_cmds, info, online, at, rest, first, w, o)
      /\ o \in Clients \union {None} /\ x \in Links /\ Fits(at, rest, first)
  BY DEF Is
<1>5. rest = "nobody"
  BY <1>2, <1>4 DEF Fits, Checking
<1>6. replies[Srv] = <<>> /\ queries = <<>> /\ ~listed
  BY <1>2, <1>4 DEF Works, InReplies
<1>7. replies \in [Logins -> Seq(Answers)] /\ Srv \in Logins
  BY OneServer DEF IType, LoginOK
<1>8. job'[Srv] = Idle /\ replies'[Srv] = Append(<<>>, Msg("notify", w, FALSE))
  BY <1>1, <1>2, <1>3, <1>6, <1>7 DEF Push
<1>9. Single(replies'[Srv], "notify", w)
  BY <1>8 DEF Single, Msg
<1>10. Fits("notify", rest, "nothing")
  BY <1>5 DEF Fits, Places, InReplies, Rests, Firsts, Kicking, MayDelete
<1>11. Works(job'[Srv], replies'[Srv], queries', listed', "notify", w, o)
  BY <1>8, <1>9, <1>1, <1>6 DEF Works, InReplies, InJob, db_vars
<1>12. Knows(player', lobby_cmds', info', online', "notify", rest, "nothing", w, o)
  BY <1>1, <1>2, <1>3, <1>4, <1>5 DEF Knows, Checking, Admitted, lobby_vars
<1>13. Waiting(cmds'[Srv], temp', "notify", "nothing", w)
  BY <1>1, <1>2, NoneWaits DEF InCmds, Kicking
<1>14. /\ Sessions("notify", rest, w, o)'
       /\ Carries(net', "notify", rest, w, o, x, <<gate'[o], Lobby>>)
  BY <1>1, <1>2, StaysIn DEF InJob, InReplies, Kicking
<1> QED BY <1>2, <1>4, <1>10, <1>11, <1>12, <1>13, <1>14 DEF Is

LEMMA RunRefusedIs ==
    ASSUME OneByOne, IType, NEW at, NEW rest, NEW first, NEW w, NEW o, NEW x, Is(at, rest, first, w, o, x),
           NEW l \in Logins, RunRefused(l)
    PROVE  Is("refused", rest, "hdel_info", w, o, <<l, gate[w]>>)'
<1> DEFINE c == Msg("hdel_info", None, FALSE)
<1>1. IsNext(l, "result") /\ UNCHANGED <<gate_vars, redis_vars, job, replies, db_vars, lobby_vars>>
  BY DEF RunRefused
<1>2. /\ l = Srv /\ job[Srv] = Idle /\ at = "result" /\ at \in InCmds /\ first = "nothing" /\ Cmd(l).s = w
      /\ Tail(cmds[Srv]) = <<>> /\ temp = IF at \in Kicking THEN w ELSE None
  BY <1>1, CmdIs
<1>3. Works(job[Srv], replies[Srv], queries, listed, at, w, o)
      /\ Knows(player, lobby_cmds, info, online, at, rest, first, w, o)
      /\ Sessions(at, rest, w, o)
      /\ w \in Clients \union {None} /\ o \in Clients \union {None} /\ x \in Links /\ Fits(at, rest, first)
  BY DEF Is
<1>4. rest = "nobody"
  BY <1>2, <1>3 DEF Fits, Checking
<1>5. info = [s |-> w, guid |-> FALSE] /\ w \in Clients
  BY <1>2, <1>3, <1>4 DEF Knows, Checking, Admitted, Sessions, IType, GateOK
<1>6. info # NoInfo /\ cmds \in [Logins -> Seq(Closures)] /\ Srv \in Logins
  BY <1>5, Distinct, OneServer DEF NoInfo, IType, LoginOK
<1>7. cmds'[Srv] = Append(<<>>, c) /\ net' = ToClient(net, l, w)
  BY <1>2, <1>6 DEF RunRefused
<1>8. Fits("refused", rest, "hdel_info")
  BY <1>4 DEF Fits, Places, OnNet, Rests, Firsts, Kicking, MayDelete, Checking, Admitted
<1>9. /\ <<l, gate[w]>> \in Links
      /\ Carries(ToClient(net, l, w), "refused", rest, w, o, <<l, gate[w]>>, <<gate[o], Lobby>>)
  <2>1. at \notin OnNet /\ at \notin {"S_Logout", "nobody"}
    BY <1>2 DEF OnNet
  <2> QED BY <2>1, ToWaiting
<1>10. /\ <<l, gate'[w]>> \in Links
       /\ Carries(net', "refused", rest, w, o, <<l, gate'[w]>>, <<gate'[o], Lobby>>)
  BY <1>1, <1>7, <1>9 DEF gate_vars
<1>11. Works(job'[Srv], replies'[Srv], queries', listed', "refused", w, o)
  BY <1>1, <1>2, <1>3 DEF Works, InReplies, InJob, db_vars
<1>12. Knows(player', lobby_cmds', info', online', "refused", rest, "hdel_info", w, o)
  BY <1>1, <1>2, <1>3, <1>4 DEF Knows, Checking, Admitted, lobby_vars, redis_vars
<1>13. Waiting(cmds'[Srv], temp', "refused", "hdel_info", w)
  <2>1. c \in Closures /\ c.type = "hdel_info"
    BY DEF c, Msg, Closures
  <2> HIDE DEF c
  <2>2. Waiting(Append(<<>>, c), None, "refused", "hdel_info", w)
    BY <2>1, PutsFirst DEF Firsts, InCmds
  <2>3. temp' = None
    BY <1>1, <1>2 DEF redis_vars, Kicking
  <2> QED BY <2>2, <2>3, <1>7
<1>14. Sessions("refused", rest, w, o)'
  BY <1>1, <1>2, <1>3, SameSessions DEF Kicking
<1> QED BY <1>3, <1>8, <1>10, <1>11, <1>12, <1>13, <1>14 DEF Is

-----------------------------------------------------------------------------
(* The database server *)

LEMMA DbReceivesIs ==
    ASSUME OneByOne, IType, NEW at, NEW rest, NEW first, NEW w, NEW o, NEW x, Is(at, rest, first, w, o, x),
           NEW l \in Logins, DbReceives(l)
    PROVE  Is("query", rest, first, w, o, x)'
<1> DEFINE k == <<l, Db>>
<1>1. Arrives(k, "LD_VerifyAccount") /\ UNCHANGED <<gate_vars, redis_vars, login_vars, lobby_vars>>
  BY DEF DbReceives
<1>2. k \in Links
  BY LinkType
<1>3. /\ net' = Took(k) /\ listed' = TRUE
         /\ queries' = Append(queries, [l |-> l, s |-> Head(net[k]).s])
      \/ listed
  BY DEF DbReceives
<1> HIDE DEF k
<1>4. /\ at \in OnNet /\ k = x /\ "LD_VerifyAccount" = TypeOf(at)
      /\ Head(net[k]) \in Msgs
      /\ Head(net[k]).type = "LD_VerifyAccount" /\ Head(net[k]).s = Names(at, w, o)
      /\ Took(k) \in [Links -> Seq(Msgs)]
  BY <1>1, <1>2, FoundLogin
<1>5. at = "LD_VerifyAccount" /\ Head(net[k]).s = w
  BY <1>4 DEF TypeOf, Names
<1>6. Works(job[Srv], replies[Srv], queries, listed, at, w, o)
      /\ Knows(player, lobby_cmds, info, online, at, rest, first, w, o)
      /\ Sessions(at, rest, w, o) /\ Waiting(cmds[Srv], temp, at, first, w)
      /\ w \in Clients \union {None} /\ o \in Clients \union {None} /\ x \in Links /\ Fits(at, rest, first)
  BY DEF Is
<1>7. job[Srv] = Idle /\ replies[Srv] = <<>> /\ queries = <<>> /\ ~listed
  BY <1>5, <1>6 DEF Works, InReplies, InJob
<1>8. net' = Took(x) /\ listed' = TRUE /\ queries' = <<[l |-> l, s |-> w]>>
  BY <1>3, <1>4, <1>5, <1>7
<1>9. rest = "nobody" /\ first = "nothing"
  BY <1>5, <1>6, NothingFirst DEF Fits, Checking, Kicking, MayDelete
<1>10. Fits("query", rest, first)
  BY <1>5, <1>6, <1>9 DEF Fits, Places, Checking
<1>11. Carries(net', "query", rest, w, o, x, <<gate'[o], Lobby>>)
  <2>1. Carries(Took(x), "query", rest, w, o, x, <<gate[o], Lobby>>)
    BY <1>4, TakesMessage DEF OnNet
  <2> QED BY <2>1, <1>1, <1>8 DEF gate_vars
<1>12. Works(job'[Srv], replies'[Srv], queries', listed', "query", w, o)
  BY <1>1, <1>7, <1>8 DEF Works, InReplies, InJob, login_vars
<1>13. Knows(player', lobby_cmds', info', online', "query", rest, first, w, o)
  BY <1>1, <1>5, <1>6 DEF Knows, Checking, Admitted, lobby_vars, redis_vars
<1>14. Waiting(cmds'[Srv], temp', "query", first, w)
  BY <1>1, <1>5, <1>6, SameClosures DEF InCmds, Kicking, login_vars, redis_vars
<1>15. Sessions("query", rest, w, o)'
  BY <1>1, <1>5, <1>6, SameSessions DEF Kicking
<1> QED BY <1>6, <1>10, <1>11, <1>12, <1>13, <1>14, <1>15 DEF Is

LEMMA DbAnswerIs ==
    ASSUME OneByOne, IType, NEW at, NEW rest, NEW first, NEW w, NEW o, NEW x, Is(at, rest, first, w, o, x),
           NEW i \in 1..Len(queries), DbAnswer(i)
    PROVE  \E l \in Logins : Is("DL_VerifyAccountResult", rest, first, w, o, <<Db, l>>)'
<1>1. UNCHANGED <<gate_vars, redis_vars, login_vars, lobby_vars>> /\ listed' = FALSE
      /\ queries' = SubSeq(queries, 1, i - 1) \o SubSeq(queries, i + 1, Len(queries))
  BY DEF DbAnswer
<1>2. Works(job[Srv], replies[Srv], queries, listed, at, w, o)
      /\ Knows(player, lobby_cmds, info, online, at, rest, first, w, o)
      /\ Sessions(at, rest, w, o) /\ Waiting(cmds[Srv], temp, at, first, w)
      /\ w \in Clients \union {None} /\ o \in Clients \union {None} /\ x \in Links /\ Fits(at, rest, first)
  BY DEF Is
<1>3. queries \in Seq(Queries)
  BY DEF IType, DbOK
<1>4. at = "query"
  <2>1. 1 <= i /\ i <= Len(queries) /\ Len(queries) \in Nat
    BY <1>3
  <2>2. queries # <<>>
    BY <2>1
  <2> QED BY <1>2, <2>2 DEF Works
<1>5. Len(queries) = 1 /\ queries[1].s = w /\ i = 1
  <2>1. Len(queries) = 1 /\ queries[1].s = w
    BY <1>2, <1>4 DEF Works
  <2> QED BY <2>1
<1>6. PICK l \in Logins : l = queries[i].l
  <2>1. queries[1] \in Queries
    BY <1>3, <1>5, ElementOfSeq
  <2> QED BY <1>5, <2>1 DEF Queries
<1> DEFINE z == <<Db, l>>
<1>7. queries' = <<>>
  <2>1. SubSeq(queries, 1, 0) = <<>> /\ SubSeq(queries, 2, 1) = <<>>
    BY <1>3, <1>5
  <2> QED BY <1>1, <1>5, <2>1
<1>8. PICK ok \in BOOLEAN : net' = Put(net, z, Msg("DL_VerifyAccountResult", w, ok))
  BY <1>5, <1>6 DEF DbAnswer
<1> DEFINE m == Msg("DL_VerifyAccountResult", w, ok)
<1>9. z \in Links /\ z[2] # Lobby /\ z # <<gate[o], Lobby>> /\ w \in Clients
  BY <1>2, <1>4, <1>6, LinkType, Distinct DEF Sessions, IType, GateOK
<1>10. m \in Msgs /\ m.type = TypeOf("DL_VerifyAccountResult") /\ m.s = Names("DL_VerifyAccountResult", w, o)
  BY <1>9 DEF Msg, Msgs, TypeOf, Names
<1>11. job[Srv] = Idle /\ replies[Srv] = <<>>
  BY <1>2, <1>4 DEF Works, InReplies, InJob
<1>12. Fits("DL_VerifyAccountResult", rest, first) /\ first = "nothing"
  BY <1>2, <1>4, NothingFirst DEF Fits, Places, OnNet, Checking, Kicking, MayDelete, Firsts
<1>13. Carries(net', "DL_VerifyAccountResult", rest, w, o, z, <<gate'[o], Lobby>>)
  <2> HIDE DEF m, z
  <2>1. at \notin OnNet /\ at # "S_Logout" /\ "DL_VerifyAccountResult" \in OnNet
    BY <1>4 DEF OnNet
  <2>2. Carries(Put(net, z, m), "DL_VerifyAccountResult", rest, w, o, z, <<gate[o], Lobby>>)
    BY <2>1, <1>9, <1>10, PutsMessage
  <2> QED BY <2>2, <1>1, <1>8 DEF gate_vars, m
<1>14. Works(job'[Srv], replies'[Srv], queries', listed', "DL_VerifyAccountResult", w, o)
  BY <1>1, <1>7, <1>11 DEF Works, InReplies, InJob, login_vars
<1>15. Knows(player', lobby_cmds', info', online', "DL_VerifyAccountResult", rest, first, w, o)
  BY <1>1, <1>2, <1>4 DEF Knows, Checking, Admitted, lobby_vars, redis_vars
<1>16. Waiting(cmds'[Srv], temp', "DL_VerifyAccountResult", first, w)
  BY <1>1, <1>2, <1>4, SameClosures DEF InCmds, Kicking, login_vars, redis_vars
<1>17. Sessions("DL_VerifyAccountResult", rest, w, o)'
  BY <1>1, <1>2, <1>4, SameSessions DEF Kicking
<1> HIDE DEF m, z
<1>18. Is("DL_VerifyAccountResult", rest, first, w, o, z)'
  BY <1>2, <1>9, <1>12, <1>13, <1>14, <1>15, <1>16, <1>17 DEF Is
<1> QED BY <1>6, <1>18 DEF z

-----------------------------------------------------------------------------
(* The lobby *)

\* The message that carries the login is taken, and another one is sent for it.
LEMMA MovesMessage ==
    ASSUME IType, NEW at, NEW rest, NEW first, NEW w, NEW o, NEW x, Is(at, rest, first, w, o, x),
           at \in OnNet, Took(x) \in [Links -> Seq(Msgs)],
           NEW at2 \in OnNet, NEW z \in Links, z # <<gate[o], Lobby>> \/ rest # "S_Logout", NEW m \in Msgs, NEW w2,
           m.type = TypeOf(at2), m.s = Names(at2, w2, o),
           z[2] = Lobby => at2 = "LS_LoginNotify",
           at2 = "LC_Login" => z[1] = Lobby,
           at2 = "refused" => z[1] \in Logins
    PROVE  Carries(Put(Took(x), z, m), at2, rest, w2, o, z, <<gate[o], Lobby>>)
<1> DEFINE y == <<gate[o], Lobby>>
           n == Took(x)
<1>1. "nobody" \notin OnNet /\ "nobody" # "S_Logout"
  BY DEF OnNet
<1>2. Carries(n, "nobody", rest, w, o, x, y)
  BY <1>1, TakesMessage
<1>3. rest = "S_Logout" => y \in Links
  BY LogoutLink
<1>4. rest = "S_Logout" => z # y
  OBVIOUS
<1>5. n \in [Links -> Seq(Msgs)]
  OBVIOUS
<1> HIDE DEF y, n
<1>6. Carries(Put(n, z, m), at2, rest, w2, o, z, y)
  BY <1>1, <1>2, <1>3, <1>4, <1>5, PutLogin
<1> QED BY <1>6 DEF y, n

\* on_ls_login_notify(): the lobby makes a player object, for it has none.
LEMMA LobbyNotifyIs ==
    ASSUME OneByOne, IType, NEW at, NEW rest, NEW first, NEW w, NEW o, NEW x, Is(at, rest, first, w, o, x),
           NEW l \in Logins, LobbyNotify(l)
    PROVE  /\ at = "LS_LoginNotify" /\ player = NoPlayer /\ w \in Clients
           /\ Is("LC_Login", rest, first, w, o, <<Lobby, gate[w]>>)'
<1> DEFINE k == <<l, Lobby>>
           m == Msg("LC_Login", w, TRUE)
           z == <<Lobby, gate[w]>>
<1>1. Arrives(k, "LS_LoginNotify") /\ k \in Links
      /\ UNCHANGED <<gate_vars, redis_vars, login_vars, db_vars, lobby_cmds>>
  BY LinkType DEF LobbyNotify
<1>2. /\ \/ Head(net[k]).flag /\ player # NoPlayer
         \/ player' = [NoPlayer EXCEPT !.s = Head(net[k]).s]
      /\ net' = IF gate[Head(net[k]).s] \in up
                THEN Put(Took(k), <<Lobby, gate[Head(net[k]).s]>>, Msg("LC_Login", Head(net[k]).s, TRUE))
                ELSE Took(k)
  BY DEF LobbyNotify
<1> HIDE DEF k
<1>3. /\ at \in OnNet /\ k = x /\ "LS_LoginNotify" = TypeOf(at)
      /\ Head(net[k]) \in Msgs
      /\ Head(net[k]).type = "LS_LoginNotify" /\ Head(net[k]).s = Names(at, w, o)
      /\ Took(k) \in [Links -> Seq(Msgs)]
  BY <1>1, FoundLogin
<1>4. at = "LS_LoginNotify" /\ Head(net[k]).s = w
  BY <1>3 DEF TypeOf, Names
<1>5. Works(job[Srv], replies[Srv], queries, listed, at, w, o)
      /\ Knows(player, lobby_cmds, info, online, at, rest, first, w, o)
      /\ Sessions(at, rest, w, o) /\ Waiting(cmds[Srv], temp, at, first, w)
      /\ w \in Clients \union {None} /\ o \in Clients \union {None} /\ x \in Links /\ Fits(at, rest, first)
  BY DEF Is
<1>6. rest = "nobody" /\ first = "nothing"
  BY <1>4, <1>5, NothingFirst DEF Fits, Admitted, Kicking, MayDelete
<1>7. w \in Clients /\ gate[w] \in Gates /\ up = Gates
  BY <1>4, <1>5 DEF Sessions, IType, GateOK
<1>8. player = NoPlayer
  BY <1>4, <1>5, <1>6 DEF Knows
<1>9. player' = PlayerOf(w) /\ net' = Put(Took(x), z, m)
  BY <1>2, <1>3, <1>4, <1>7, <1>8 DEF PlayerOf
<1>10. Fits("LC_Login", rest, first)
  BY <1>5, <1>6 DEF Fits, Places, OnNet
<1>11. z \in Links /\ z[2] # Lobby /\ z[1] = Lobby /\ m \in Msgs /\ m.type = TypeOf("LC_Login")
       /\ m.s = Names("LC_Login", w, o)
  BY <1>7, LinkType, Distinct DEF Msg, Msgs, TypeOf, Names
<1>12. Carries(net', "LC_Login", rest, w, o, z, <<gate'[o], Lobby>>)
  <2> HIDE DEF m, z
  <2>1. Carries(Put(Took(x), z, m), "LC_Login", rest, w, o, z, <<gate[o], Lobby>>)
    BY <1>3, <1>6, <1>11, MovesMessage DEF OnNet
  <2> QED BY <2>1, <1>1, <1>9 DEF gate_vars
<1>13. Works(job'[Srv], replies'[Srv], queries', listed', "LC_Login", w, o)
  <2>1. Works(job[Srv], replies[Srv], queries, listed, "LC_Login", w, o)
    BY <1>4, <1>5, SameWorks DEF InJob, InReplies
  <2> QED BY <2>1, <1>1 DEF login_vars, db_vars
<1>14. Knows(player', lobby_cmds', info', online', "LC_Login", rest, first, w, o)
  BY <1>1, <1>4, <1>5, <1>6, <1>9 DEF Knows, Admitted, redis_vars
<1>15. Waiting(cmds'[Srv], temp', "LC_Login", first, w)
  BY <1>1, <1>4, <1>5, SameClosures DEF InCmds, Kicking, login_vars, redis_vars
<1>16. Sessions("LC_Login", rest, w, o)'
  BY <1>1, <1>4, <1>5, SameSessions DEF Kicking
<1>17. z' = z /\ <<Lobby, gate'[w]>> = z
  BY <1>1 DEF gate_vars
<1>18. Is("LC_Login", rest, first, w, o, <<Lobby, gate[w]>>)'
  BY <1>5, <1>10, <1>11, <1>12, <1>13, <1>14, <1>15, <1>16, <1>17 DEF Is
<1> QED BY <1>4, <1>7, <1>8, <1>18

\* The S_Logout of o has been taken from y.
LEMMA TookLogout ==
    ASSUME NEW n \in [Links -> Seq(Msgs)], NEW at, NEW w, NEW o, NEW x \in Links, NEW y \in Links,
           Carries(n, at, "S_Logout", w, o, x, y),
           NEW at2, at2 = at \/ (at \notin OnNet /\ at2 \notin OnNet), NEW rest2, rest2 # "S_Logout"
    PROVE  Carries([n EXCEPT ![y] = Tail(@)], at2, rest2, w, o, x, y)
<1> DEFINE n2 == [n EXCEPT ![y] = Tail(@)]
<1>1. Single(n[y], "S_Logout", o)
  BY DEF Carries
<1>2. n2[y] = <<>> /\ \A k \in Links : k # y => n2[k] = n[k]
  BY <1>1, SingleHead
<1>3. at \in OnNet => x # y /\ TypeOf(at) # "S_Logout"
  BY <1>1 DEF Carries, Single, TypeOf, OnNet
<1>4. \A k \in Links : n2[k] = <<>> \/ (at \in OnNet /\ k = x)
  BY <1>2 DEF Carries
<1> HIDE DEF n2
<1>5. Carries(n2, at2, rest2, w, o, x, y)
  BY <1>2, <1>3, <1>4 DEF Carries
<1> QED BY <1>5 DEF n2

\* An S_Logout is o's, and it is on its way to the lobby.
LEMMA FoundBye ==
    ASSUME IType, NEW at, NEW rest, NEW first, NEW w, NEW o, NEW x, Is(at, rest, first, w, o, x),
           NEW k \in Links, Arrives(k, "S_Logout")
    PROVE  /\ rest = "S_Logout" /\ k = <<gate[o], Lobby>> /\ o \in Clients
           /\ Head(net[k]).s = o /\ (Head(net[k]).flag <=> at = "S_Logout")
           /\ Took(k) \in [Links -> Seq(Msgs)]
           /\ \A at2 : at2 = at \/ (at \notin OnNet /\ at2 \notin OnNet) =>
                 Carries(Took(k), at2, "hdel_info", w, o, x, <<gate[o], Lobby>>)
<1> DEFINE y == <<gate[o], Lobby>>
           n == net
<1>1. n \in [Links -> Seq(Msgs)] /\ n[k] # <<>> /\ Head(n[k]).type = "S_Logout"
  BY DEF IType, NetOK, Arrives
<1>2. Carries(n, at, rest, w, o, x, y) /\ x \in Links /\ at \in Places
  BY DEF Is, Fits
<1>3. rest = "S_Logout" => y \in Links /\ o \in Clients
  BY LogoutLink
<1> HIDE DEF y, n
<1>4. rest = "S_Logout" /\ k = y /\ Head(n[k]).s = o /\ Head(n[k]) = n[y][1]
  BY <1>1, <1>2, <1>3, FoundLogout
<1>7. Head(n[k]).flag <=> at = "S_Logout"
  <2>1. n[y][1].flag <=> at = "S_Logout"
    BY <1>2, <1>4 DEF Carries
  <2> QED BY <2>1, <1>4
<1>5. ASSUME NEW at2, at2 = at \/ (at \notin OnNet /\ at2 \notin OnNet)
      PROVE  Carries([n EXCEPT ![y] = Tail(@)], at2, "hdel_info", w, o, x, y)
  BY <1>1, <1>2, <1>3, <1>4, <1>5, TookLogout
<1>6. Took(k) \in [Links -> Seq(Msgs)]
  BY TookType DEF IType
<1> QED BY <1>3, <1>4, <1>5, <1>6, <1>7 DEF n, y, Took

\* logout(): the player object, which is o's, is deleted.
LEMMA LobbyLogoutIs ==
    ASSUME OneByOne, IType, NEW at, NEW rest, NEW first, NEW w, NEW o, NEW x, Is(at, rest, first, w, o, x),
           NEW y \in Gates \union Logins, LobbyLogout(y)
    PROVE  /\ player.s = o /\ Head(net[<<y, Lobby>>]).s = o /\ rest = "S_Logout" /\ o \in Clients
           /\ player' = NoPlayer
           /\ \/ Is(at, "hdel_info", first, w, o, x)'
              \/ \E l \in Logins : Is("L_KickClient", "hdel_info", first, w, o, <<Lobby, l>>)'
<1> DEFINE k == <<y, Lobby>>
<1>1. Arrives(k, "S_Logout") /\ Logout /\ k \in Links
      /\ UNCHANGED <<gate_vars, redis_vars, login_vars, db_vars>>
  BY LinkType DEF LobbyLogout
<1>2. \/ ~Head(net[k]).flag /\ net' = Took(k)
      \/ /\ Head(net[k]).flag
         /\ \E l \in Logins : net' = Put(Took(k), <<Lobby, l>>, Msg("L_KickClient", None, TRUE))
  BY DEF LobbyLogout
<1> HIDE DEF k
<1>3. /\ rest = "S_Logout" /\ k = <<gate[o], Lobby>> /\ o \in Clients
      /\ Head(net[k]).s = o /\ (Head(net[k]).flag <=> at = "S_Logout")
      /\ Took(k) \in [Links -> Seq(Msgs)]
      /\ \A at2 : at2 = at \/ (at \notin OnNet /\ at2 \notin OnNet) =>
            Carries(Took(k), at2, "hdel_info", w, o, x, <<gate[o], Lobby>>)
  BY <1>1, FoundBye
<1>4. Works(job[Srv], replies[Srv], queries, listed, at, w, o)
      /\ Knows(player, lobby_cmds, info, online, at, rest, first, w, o)
      /\ Sessions(at, rest, w, o) /\ Waiting(cmds[Srv], temp, at, first, w)
      /\ w \in Clients \union {None} /\ o \in Clients \union {None} /\ x \in Links /\ Fits(at, rest, first)
  BY DEF Is
<1>5. player = PlayerOf(o) /\ lobby_cmds = <<>> /\ at \notin Admitted
  BY <1>3, <1>4 DEF Knows, Fits
<1>6. player # NoPlayer /\ ~player.playing /\ player.s = o
  BY <1>3, <1>5, Distinct DEF PlayerOf, NoPlayer
<1>7. player' = NoPlayer /\ lobby_cmds' = <<"hdel_info", "hdel_online">>
  BY <1>1, <1>5, <1>6 DEF Logout, Delete, Bye
<1>8. Knows(player', lobby_cmds', info', online', at, "hdel_info", first, w, o)
  BY <1>1, <1>3, <1>4, <1>5, <1>7 DEF Knows, redis_vars, Admitted
<1>9. CASE ~Head(net[k]).flag /\ net' = Took(k)
  <2>1. at # "S_Logout"
    BY <1>3, <1>9
  <2>2. Fits(at, "hdel_info", first)
    BY <2>1, <1>3, <1>4 DEF Fits, Rests
  <2>3. Carries(net', at, "hdel_info", w, o, x, <<gate'[o], Lobby>>)
    BY <1>1, <1>3, <1>9 DEF gate_vars
  <2>4. Sessions(at, "hdel_info", w, o)'
    BY <1>1, <1>3, <1>4 DEF Sessions, gate_vars
  <2>5. Is(at, "hdel_info", first, w, o, x)'
    BY <2>2, <2>3, <2>4, <1>1, <1>4, <1>8 DEF Is, redis_vars, login_vars, db_vars
  <2> QED BY <2>5, <1>3, <1>6, <1>7 DEF k
<1>10. ASSUME Head(net[k]).flag,
              NEW l \in Logins, net' = Put(Took(k), <<Lobby, l>>, Msg("L_KickClient", None, TRUE))
       PROVE  Is("L_KickClient", "hdel_info", first, w, o, <<Lobby, l>>)'
  <2> DEFINE m == Msg("L_KickClient", None, TRUE)
             z == <<Lobby, l>>
             n == Took(k)
             b == <<gate[o], Lobby>>
  <2>1. at = "S_Logout" /\ "nobody" \notin OnNet /\ at \notin OnNet
    BY <1>3, <1>10 DEF OnNet
  <2>2. Carries(n, "nobody", "hdel_info", w, o, x, b)
    BY <1>3, <2>1
  <2>3. z \in Links /\ z[2] # Lobby /\ m \in Msgs /\ m.type = TypeOf("L_KickClient")
        /\ m.s = Names("L_KickClient", w, o) /\ "L_KickClient" \in OnNet
    BY LinkType, Distinct DEF Msg, Msgs, TypeOf, Names, OnNet
  <2>4. n \in [Links -> Seq(Msgs)] /\ net' = Put(n, z, m)
    BY <1>3, <1>10
  <2> HIDE DEF m, z, n, b
  <2>5. Carries(Put(n, z, m), "L_KickClient", "hdel_info", w, o, z, b)
    BY <2>1, <2>2, <2>3, <2>4, PutLogin
  <2>6. Carries(net', "L_KickClient", "hdel_info", w, o, z, <<gate'[o], Lobby>>)
    BY <2>4, <2>5, <1>1 DEF b, gate_vars
  <2>7. Fits("L_KickClient", "hdel_info", first)
    BY <2>1, <1>3, <1>4 DEF Fits, Places, OnNet, Rests, Kicking, Checking, Admitted, MayDelete
  <2>8. Works(job'[Srv], replies'[Srv], queries', listed', "L_KickClient", w, o)
    <3>1. Works(job[Srv], replies[Srv], queries, listed, "L_KickClient", w, o)
      BY <2>1, <1>4, SameWorks DEF InJob, InReplies
    <3> QED BY <3>1, <1>1 DEF login_vars, db_vars
  <2>9. Knows(player', lobby_cmds', info', online', "L_KickClient", "hdel_info", first, w, o)
    BY <2>1, <1>8 DEF Knows, Admitted
  <2>10. Waiting(cmds'[Srv], temp', "L_KickClient", first, w)
    BY <2>1, <1>1, <1>4, SameClosures DEF InCmds, Kicking, login_vars, redis_vars
  <2>11. Sessions("L_KickClient", "hdel_info", w, o)'
    BY <2>1, <1>1, <1>3, <1>4 DEF Sessions, gate_vars, Kicking
  <2>12. Is("L_KickClient", "hdel_info", first, w, o, z)'
    BY <2>3, <2>6, <2>7, <2>8, <2>9, <2>10, <2>11, <1>4 DEF Is
  <2> QED BY <2>12 DEF z
<1> QED BY <1>2, <1>3, <1>6, <1>7, <1>9, <1>10 DEF k

\* The lobby's Redis thread forgets o.
LEMMA LobbyRedisIs ==
    ASSUME OneByOne, IType, NEW at, NEW rest, NEW first, NEW w, NEW o, NEW x, Is(at, rest, first, w, o, x),
           LobbyRedis
    PROVE  \E rest2 \in {"hdel_online", "nobody"} : Is(at, rest2, first, w, o, x)'
<1>1. UNCHANGED <<net, gate_vars, temp, login_vars, db_vars, player>>
      /\ lobby_cmds # <<>> /\ lobby_cmds' = Tail(lobby_cmds)
      /\ IF Head(lobby_cmds) = "hdel_info" THEN info' = NoInfo /\ UNCHANGED online
         ELSE online' = FALSE /\ UNCHANGED info
  BY DEF LobbyRedis
<1>2. Works(job[Srv], replies[Srv], queries, listed, at, w, o)
      /\ Knows(player, lobby_cmds, info, online, at, rest, first, w, o)
      /\ Sessions(at, rest, w, o) /\ Waiting(cmds[Srv], temp, at, first, w)
      /\ Carries(net, at, rest, w, o, x, <<gate[o], Lobby>>)
      /\ w \in Clients \union {None} /\ o \in Clients \union {None} /\ x \in Links /\ Fits(at, rest, first)
  BY DEF Is
<1>3. rest \in {"hdel_info", "hdel_online"}
  BY <1>1, <1>2 DEF Knows
<1>4. at \notin Admitted /\ at \notin Checking /\ first # "hdel_info" /\ at \notin {"closes", "S_Logout", "no_lobby"}
  BY <1>2, <1>3 DEF Fits
<1>5. ASSUME NEW rest2 \in {"hdel_online", "nobody"},
             Knows(player', lobby_cmds', info', online', at, rest2, first, w, o)
      PROVE  Is(at, rest2, first, w, o, x)'
  <2>1. Fits(at, rest2, first)
    BY <1>2, <1>3, <1>4 DEF Fits, Rests
  <2>2. Carries(net', at, rest2, w, o, x, <<gate'[o], Lobby>>)
    BY <1>1, <1>2, <1>3, NoLogout DEF gate_vars
  <2>3. Sessions(at, rest2, w, o)'
    BY <1>1, <1>2, <1>3 DEF Sessions, gate_vars
  <2> QED BY <2>1, <2>2, <2>3, <1>1, <1>2, <1>5 DEF Is, login_vars, db_vars
<1>6. CASE rest = "hdel_info"
  <2>1. lobby_cmds = <<"hdel_info", "hdel_online">>
    BY <1>2, <1>6 DEF Knows
  <2>2. Head(lobby_cmds) = "hdel_info" /\ lobby_cmds' = <<"hdel_online">>
    BY <1>1, <2>1
  <2>3. info' = NoInfo /\ online' = online
    BY <1>1, <2>2
  <2>4. Knows(player', lobby_cmds', info', online', at, "hdel_online", first, w, o)
    BY <1>1, <1>2, <1>4, <1>6, <2>2, <2>3 DEF Knows
  <2> QED BY <1>5, <2>4
<1>7. CASE rest = "hdel_online"
  <2>1. lobby_cmds = <<"hdel_online">>
    BY <1>2, <1>7 DEF Knows
  <2>2. Head(lobby_cmds) = "hdel_online" /\ lobby_cmds' = <<>>
    BY <1>1, <2>1
  <2>3. online' = FALSE /\ info' = info
    BY <1>1, <2>2
  <2>4. Knows(player', lobby_cmds', info', online', at, "nobody", first, w, o)
    BY <1>1, <1>2, <1>4, <1>7, <2>2, <2>3 DEF Knows
  <2> QED BY <1>5, <2>4
<1> QED BY <1>3, <1>6, <1>7

-----------------------------------------------------------------------------
(* The gates *)

LEMMA ConnectIs ==
    ASSUME OneByOne, IType, NEW at, NEW rest, NEW first, NEW w, NEW o, NEW x, Is(at, rest, first, w, o, x),
           NEW s \in Clients, NEW g \in Gates, Connect(s, g)
    PROVE  Is(at, rest, first, w, o, x)'
<1>1. sock[s] = "new" /\ sock' = [sock EXCEPT ![s] = "open"] /\ gate' = [gate EXCEPT ![s] = g]
      /\ UNCHANGED <<net, up, closing, send_login, in_game, user_data, quque,
                     redis_vars, login_vars, db_vars, lobby_vars>>
  BY DEF Connect
<1>2. Carries(net, at, rest, w, o, x, <<gate[o], Lobby>>) /\ Sessions(at, rest, w, o)
  BY DEF Is
<1>3. sock \in [Clients -> {"new", "open", "closed", "gone"}] /\ gate \in [Clients -> Gates \union {None}]
  BY DEF IType, GateOK
<1>4. s \notin in_game /\ (at # "nobody" => s # w)
  BY <1>1, <1>2 DEF Sessions
<1>5. Carries(net', at, rest, w, o, x, <<gate'[o], Lobby>>)
  <2>1. CASE rest = "S_Logout"
    <3>1. o # s
      BY <2>1, <1>2, <1>4 DEF Sessions
    <3>2. gate'[o] = gate[o]
      BY <3>1, <1>1, <1>3
    <3> QED BY <3>2, <1>1, <1>2
  <2>2. CASE rest # "S_Logout"
    BY <2>2, <1>1, <1>2, NoLogout
  <2> QED BY <2>1, <2>2
<1>6. Sessions(at, rest, w, o)'
  <2>1. rest # "nobody" \/ at \in Kicking \union {"kick"} => o # s
    BY <1>2, <1>4 DEF Sessions
  <2>2. at # "nobody" => w \in Clients
    BY <1>2 DEF Sessions, IType, GateOK
  <2>3. \A t \in Clients : t # s => sock'[t] = sock[t] /\ gate'[t] = gate[t]
    BY <1>1, <1>3
  <2>4. sock'[s] = "open" /\ gate'[s] = g
    BY <1>1, <1>3
  <2>5. rest # "nobody" \/ at \in Kicking \union {"kick"} => sock'[o] = sock[o]
    BY <2>1, <1>1, <1>3
  <2>6. at # "nobody" => sock'[w] = sock[w] /\ gate'[w] = gate[w]
    BY <2>2, <2>3, <1>4
  <2>7. up' = Gates /\ \A t \in Clients : sock'[t] # "new" => gate'[t] \in Gates
    BY <2>3, <2>4, <1>1, <1>2 DEF Sessions
  <2>8. at # "nobody" => w \in send_login' \ in_game' /\ sock'[w] = "open"
    BY <2>6, <1>1, <1>2 DEF Sessions
  <2>9. \A h \in Gates : quque'[h] = IF at = "queued" /\ h = gate'[w] THEN w ELSE None
    BY <2>6, <1>1, <1>2 DEF Sessions
  <2>10. \A t \in in_game' : sock'[t] = "gone" \/ (rest = "in" /\ t = o)
    BY <2>3, <1>1, <1>2, <1>4 DEF Sessions, IType, GateOK
  <2>11. closing' = IF at = "closes" /\ sock'[o] = "open" THEN {o} ELSE {}
    BY <2>5, <1>1, <1>2 DEF Sessions, Kicking
  <2> QED BY <2>5, <2>7, <2>8, <2>9, <2>10, <2>11, <1>1, <1>2 DEF Sessions
<1> QED BY <1>1, <1>5, <1>6 DEF Is, redis_vars, login_vars, db_vars, lobby_vars

\* A login begins when no other one is under way.
LEMMA OnCLLoginIs ==
    ASSUME OneByOne, IType, NEW at, NEW rest, NEW first, NEW w, NEW o, NEW x, Is(at, rest, first, w, o, x),
           NEW s \in Clients, OnCLLogin(s)
    PROVE  at = "nobody" /\ Is("queued", rest, first, s, o, x)'
<1>1. sock[s] = "open" /\ s \notin send_login /\ (\A t \in Clients : ~Waits(t))
      /\ quque' = [quque EXCEPT ![gate[s]] = s] /\ send_login' = send_login \union {s}
      /\ UNCHANGED <<net, up, sock, gate, closing, in_game, user_data,
                     redis_vars, login_vars, db_vars, lobby_vars>>
  BY DEF OnCLLogin, OneByOne
<1>2. Works(job[Srv], replies[Srv], queries, listed, at, w, o)
      /\ Knows(player, lobby_cmds, info, online, at, rest, first, w, o)
      /\ Sessions(at, rest, w, o) /\ Waiting(cmds[Srv], temp, at, first, w)
      /\ Carries(net, at, rest, w, o, x, <<gate[o], Lobby>>)
      /\ w \in Clients \union {None} /\ o \in Clients \union {None} /\ x \in Links /\ Fits(at, rest, first)
  BY DEF Is
<1>3. at = "nobody"
  <2> SUFFICES ASSUME at # "nobody" PROVE FALSE
    OBVIOUS
  <2>1. w \in send_login \ in_game /\ sock[w] = "open" /\ w \in Clients
    BY <1>2 DEF Sessions, IType, GateOK
  <2> QED BY <2>1, <1>1 DEF Waits
<1>4. Fits("queued", rest, first) /\ first # "hset_temp"
  BY <1>2, <1>3 DEF Fits, Places, Checking, Admitted, Kicking, MayDelete
<1>5. "queued" \notin OnNet \union InCmds \union InJob \union InReplies \union Kicking \union Checking \union Admitted
      /\ "nobody" \notin OnNet \union InCmds \union InJob \union InReplies \union Kicking \union Checking \union Admitted
  BY DEF OnNet, InCmds, InJob, InReplies, Kicking, Checking, Admitted
<1>6. Carries(net', "queued", rest, s, o, x, <<gate'[o], Lobby>>)
  <2> DEFINE y == <<gate[o], Lobby>>
  <2>1. Carries(net, at, rest, w, o, x, y)
    BY <1>2
  <2>2. rest = "S_Logout" => ("queued" = "S_Logout" <=> at = "S_Logout")
    BY <1>3
  <2>3. at \notin OnNet /\ "queued" \notin OnNet
    BY <1>3, <1>5
  <2> HIDE DEF y
  <2>4. Carries(net, "queued", rest, s, o, x, y)
    BY <2>1, <2>2, <2>3, SameLinks
  <2> QED BY <2>4, <1>1 DEF y
<1>7. Waiting(cmds'[Srv], temp', "queued", first, s)
  <2>1. Waiting(cmds[Srv], temp, "queued", first, s)
    BY <1>2, <1>3, <1>4, <1>5 DEF Waiting
  <2> QED BY <2>1, <1>1 DEF login_vars, redis_vars
<1>8. Works(job'[Srv], replies'[Srv], queries', listed', "queued", s, o)
  <2>1. Works(job[Srv], replies[Srv], queries, listed, "queued", s, o)
    BY <1>2, <1>3, <1>5, SameWorks
  <2> QED BY <2>1, <1>1 DEF login_vars, db_vars
<1>9. Knows(player', lobby_cmds', info', online', "queued", rest, first, s, o)
  <2>1. Knows(player, lobby_cmds, info, online, "queued", rest, first, s, o)
    BY <1>2, <1>3, <1>5, SameKnows
  <2> QED BY <2>1, <1>1 DEF redis_vars, lobby_vars
<1>10. Sessions("queued", rest, s, o)'
  <2>1. s \notin in_game /\ quque \in [Gates -> Clients \union {None}] /\ gate[s] \in Gates
    BY <1>1, <1>2 DEF Sessions, IType, GateOK
  <2>2. \A h \in Gates : quque'[h] = IF h = gate'[s] THEN s ELSE None
    BY <2>1, <1>1, <1>2, <1>3 DEF Sessions
  <2>3. \A t \in send_login' \ in_game' : t = s
    BY <1>1, <1>2, <1>3 DEF Sessions
  <2>4. closing' = {} /\ user_data' = {}
    BY <1>1, <1>2, <1>3 DEF Sessions
  <2>5. in_game' \subseteq send_login'
    BY <1>1, <1>2 DEF Sessions
  <2> QED BY <2>1, <2>2, <2>3, <2>4, <2>5, <1>1, <1>2, <1>5 DEF Sessions
<1> QED BY <1>2, <1>3, <1>4, <1>6, <1>7, <1>8, <1>9, <1>10 DEF Is

LEMMA OnLoginQuqueIs ==
    ASSUME OneByOne, IType, NEW at, NEW rest, NEW first, NEW w, NEW o, NEW x, Is(at, rest, first, w, o, x),
           NEW g \in Gates, NEW l \in Logins, OnLoginQuque(g, l)
    PROVE  Is("CL_Login", rest, first, w, o, <<g, l>>)'
<1> DEFINE m == Msg("CL_Login", w, FALSE)
           z == <<g, l>>
<1>1. quque[g] # None /\ quque' = [quque EXCEPT ![g] = None]
      /\ UNCHANGED <<up, sock, gate, closing, send_login, in_game, user_data,
                     redis_vars, login_vars, db_vars, lobby_vars>>
  BY DEF OnLoginQuque
<1>2. Works(job[Srv], replies[Srv], queries, listed, at, w, o)
      /\ Knows(player, lobby_cmds, info, online, at, rest, first, w, o)
      /\ Sessions(at, rest, w, o) /\ Waiting(cmds[Srv], temp, at, first, w)
      /\ w \in Clients \union {None} /\ o \in Clients \union {None} /\ x \in Links /\ Fits(at, rest, first)
  BY DEF Is
<1>3. at = "queued" /\ g = gate[w] /\ quque[g] = w
  BY <1>1, <1>2 DEF Sessions
<1>4. w \in Clients /\ sock[w] = "open"
  BY <1>2, <1>3 DEF Sessions, IType, GateOK
<1>5. net' = Put(net, z, m)
  <2>1. FindById(w) = w
    BY <1>4, FoundById DEF IType, InTable
  <2> QED BY <2>1, <1>3, <1>4 DEF OnLoginQuque
<1>6. z \in Links /\ z[2] # Lobby /\ z # <<gate[o], Lobby>>
  BY LinkType, Distinct
<1>7. m \in Msgs /\ m.type = TypeOf("CL_Login") /\ m.s = Names("CL_Login", w, o)
  BY <1>4 DEF Msg, Msgs, TypeOf, Names
<1>8. Fits("CL_Login", rest, first)
  BY <1>2, <1>3 DEF Fits, Places, OnNet, Checking, Admitted, Kicking, MayDelete
<1>9. Carries(net', "CL_Login", rest, w, o, z, <<gate'[o], Lobby>>)
  <2> HIDE DEF m, z
  <2>1. at \notin OnNet /\ at # "S_Logout" /\ "CL_Login" \in OnNet
    BY <1>3 DEF OnNet
  <2>2. Carries(Put(net, z, m), "CL_Login", rest, w, o, z, <<gate[o], Lobby>>)
    BY <2>1, <1>6, <1>7, PutsMessage
  <2> QED BY <2>2, <1>1, <1>5
<1>10. Waiting(cmds'[Srv], temp', "CL_Login", first, w)
  BY <1>1, <1>2, <1>3, SameClosures DEF InCmds, Kicking, login_vars, redis_vars
<1>11. Works(job'[Srv], replies'[Srv], queries', listed', "CL_Login", w, o)
  <2>1. Works(job[Srv], replies[Srv], queries, listed, "CL_Login", w, o)
    BY <1>2, <1>3, SameWorks DEF InJob, InReplies
  <2> QED BY <2>1, <1>1 DEF login_vars, db_vars
<1>12. Knows(player', lobby_cmds', info', online', "CL_Login", rest, first, w, o)
  <2>1. Knows(player, lobby_cmds, info, online, "CL_Login", rest, first, w, o)
    BY <1>2, <1>3, SameKnows DEF Admitted, Checking
  <2> QED BY <2>1, <1>1 DEF redis_vars, lobby_vars
<1>13. Sessions("CL_Login", rest, w, o)'
  <2>1. \A h \in Gates : quque'[h] = None
    BY <1>1, <1>2, <1>3 DEF Sessions, IType, GateOK
  <2> QED BY <2>1, <1>1, <1>2, <1>3 DEF Sessions, Kicking
<1> HIDE DEF z
<1>14. Is("CL_Login", rest, first, w, o, z)'
  BY <1>2, <1>6, <1>8, <1>9, <1>10, <1>11, <1>12, <1>13 DEF Is
<1> QED BY <1>14 DEF z

\* A client goes away, or is closed; the one whose login is under way does neither.
LEMMA SocketClosesIs ==
    ASSUME OneByOne, IType, NEW at, NEW rest, NEW first, NEW w, NEW o, NEW x, Is(at, rest, first, w, o, x),
           NEW s \in Clients, SocketCloses(s)
    PROVE  Is(at, rest, first, w, o, x)'
<1>1. sock[s] = "open" /\ (s \in closing \/ ~Waits(s))
      /\ sock' = [sock EXCEPT ![s] = "closed"] /\ closing' = closing \ {s}
      /\ UNCHANGED <<net, up, gate, send_login, in_game, user_data, quque,
                     redis_vars, login_vars, db_vars, lobby_vars>>
  BY DEF SocketCloses, OneByOne
<1>2. Sessions(at, rest, w, o)
  BY DEF Is
<1>3. sock \in [Clients -> {"new", "open", "closed", "gone"}] /\ in_game \subseteq Clients
      /\ send_login \subseteq Clients
  BY DEF IType, GateOK
<1>4. \A t \in Clients : sock'[t] = IF t = s THEN "closed" ELSE sock[t]
  BY <1>1, <1>3
<1>5. at # "nobody" => s # w
  <2> SUFFICES ASSUME at # "nobody", s = w PROVE FALSE
    OBVIOUS
  <2>1. w \in send_login \ in_game /\ Waits(s)
    BY <1>1, <1>2 DEF Sessions, Waits
  <2>2. w = o /\ o \in in_game
    BY <2>1, <1>1, <1>2 DEF Sessions, Kicking
  <2> QED BY <2>1, <2>2
<1>6. at # "nobody" => w \in send_login' \ in_game' /\ sock'[w] = "open"
  BY <1>1, <1>2, <1>3, <1>4, <1>5 DEF Sessions
<1>7. \A t \in in_game' : sock'[t] = "gone" \/ (rest = "in" /\ t = o)
  BY <1>1, <1>2, <1>3, <1>4 DEF Sessions
<1>8. /\ rest = "in" => sock'[o] \in {"open", "closed"}
      /\ rest \notin {"nobody", "in"} => sock'[o] = "gone"
  BY <1>1, <1>2, <1>3, <1>4 DEF Sessions
<1>9. closing' = IF at = "closes" /\ sock'[o] = "open" THEN {o} ELSE {}
  <2>1. CASE at = "closes"
    <3>1. o \in Clients
      BY <2>1, <1>2, <1>3 DEF Sessions, Kicking
    <3> QED BY <2>1, <3>1, <1>1, <1>2, <1>4 DEF Sessions
  <2>2. CASE at # "closes"
    BY <2>2, <1>1, <1>2 DEF Sessions
  <2> QED BY <2>1, <2>2
<1>10. \A t \in Clients : sock'[t] # "new" => gate'[t] \in Gates
  BY <1>1, <1>2, <1>4 DEF Sessions
<1>11. Sessions(at, rest, w, o)'
  BY <1>1, <1>2, <1>6, <1>7, <1>8, <1>9, <1>10 DEF Sessions
<1> QED BY <1>1, <1>11 DEF Is, redis_vars, login_vars, db_vars, lobby_vars

\* The lobby's LC_Login: w is in.
LEMMA GateLoggedInIs ==
    ASSUME OneByOne, IType, NEW at, NEW rest, NEW first, NEW w, NEW o, NEW x, Is(at, rest, first, w, o, x),
           NEW g \in Gates, GateLoggedIn(g)
    PROVE  /\ at = "LC_Login" /\ w \in Clients /\ in_game' = in_game \union {w}
           /\ Is("nobody", "in", "nothing", w, w, x)'
<1> DEFINE k == <<Lobby, g>>
<1>1. Arrives(k, "LC_Login") /\ k \in Links /\ net' = Took(k)
      /\ UNCHANGED <<up, sock, gate, closing, send_login, user_data, quque,
                     redis_vars, login_vars, db_vars, lobby_vars>>
  BY LinkType DEF GateLoggedIn
<1> DEFINE found == FindById(Head(net[k]).s)
<1>2. sock[found] # "gone" => in_game' = in_game \union {found}
  BY DEF GateLoggedIn
<1>3. k[1] = Lobby /\ Lobby \notin Logins
  BY Distinct
<1> HIDE DEF k
<1>4. /\ at \in OnNet /\ k = x /\ "LC_Login" = TypeOf(at)
      /\ Head(net[k]) \in Msgs
      /\ Head(net[k]).type = "LC_Login" /\ Head(net[k]).s = Names(at, w, o)
      /\ Took(k) \in [Links -> Seq(Msgs)]
  BY <1>1, FoundLogin
<1>5. Works(job[Srv], replies[Srv], queries, listed, at, w, o)
      /\ Knows(player, lobby_cmds, info, online, at, rest, first, w, o)
      /\ Sessions(at, rest, w, o) /\ Waiting(cmds[Srv], temp, at, first, w)
      /\ Carries(net, at, rest, w, o, x, <<gate[o], Lobby>>)
      /\ w \in Clients \union {None} /\ o \in Clients \union {None} /\ x \in Links /\ Fits(at, rest, first)
  BY DEF Is
<1>6. at = "LC_Login" /\ Head(net[k]).s = w
  BY <1>3, <1>4, <1>5 DEF TypeOf, Names, Carries
<1>7. rest = "nobody" /\ first = "nothing"
  BY <1>5, <1>6, NothingFirst DEF Fits, Admitted, Kicking, MayDelete
<1>8. w \in Clients /\ sock[w] = "open" /\ w \in send_login
  BY <1>5, <1>6 DEF Sessions, IType, GateOK
<1>9. in_game' = in_game \union {w}
  <2>1. found = w
    BY <1>6, <1>8, FoundById DEF IType, InTable
  <2> QED BY <2>1, <1>2, <1>8
<1>10. Fits("nobody", "in", "nothing")
  BY DEF Fits, Places, Rests, Firsts, Checking, Admitted, Kicking, MayDelete
<1>11. Carries(net', "nobody", "in", w, w, x, <<gate'[w], Lobby>>)
  <2>1. Carries(Took(x), "nobody", rest, w, o, x, <<gate[o], Lobby>>)
    BY <1>4, TakesMessage DEF OnNet
  <2> DEFINE y == <<gate[o], Lobby>>
             y2 == <<gate[w], Lobby>>
             n == Took(x)
  <2>2. Carries(n, "nobody", rest, w, o, x, y)
    BY <2>1
  <2> HIDE DEF y, y2, n
  <2>3. Carries(n, "nobody", "in", w, w, x, y2)
    BY <2>2, <1>7, NoLogout
  <2> QED BY <2>3, <1>1, <1>4 DEF n, y2
<1>12. Waiting(cmds'[Srv], temp', "nobody", "nothing", w)
  <2>1. Waiting(cmds[Srv], temp, "nobody", "nothing", w)
    BY <1>5, <1>6, <1>7 DEF Waiting, InCmds, Kicking
  <2> QED BY <2>1, <1>1 DEF login_vars, redis_vars
<1>13. Works(job'[Srv], replies'[Srv], queries', listed', "nobody", w, w)
  <2>1. Works(job[Srv], replies[Srv], queries, listed, "nobody", w, w)
    BY <1>5, <1>6, SameWorks DEF InJob, InReplies
  <2> QED BY <2>1, <1>1 DEF login_vars, db_vars
<1>14. Knows(player', lobby_cmds', info', online', "nobody", "in", "nothing", w, w)
  <2>1. Knows(player, lobby_cmds, info, online, "nobody", "in", "nothing", w, w)
    BY <1>5, <1>6, <1>7 DEF Knows, Admitted
  <2> QED BY <2>1, <1>1 DEF redis_vars, lobby_vars
<1>15. Sessions("nobody", "in", w, w)'
  <2>1. \A t \in in_game' : sock'[t] = "gone" \/ t = w
    BY <1>1, <1>5, <1>7, <1>9 DEF Sessions
  <2>2. send_login' \ in_game' = {}
    BY <1>1, <1>5, <1>9 DEF Sessions
  <2>3. in_game' \subseteq send_login' /\ w \in in_game'
    BY <1>1, <1>5, <1>8, <1>9 DEF Sessions
  <2>4. \A h \in Gates : quque'[h] = None
    BY <1>1, <1>5, <1>6 DEF Sessions
  <2>5. closing' = {} /\ user_data' = {}
    BY <1>1, <1>5, <1>6 DEF Sessions
  <2> QED BY <2>1, <2>2, <2>3, <2>4, <2>5, <1>1, <1>5, <1>8 DEF Sessions
<1>16. Is("nobody", "in", "nothing", w, w, x)'
  BY <1>5, <1>10, <1>11, <1>12, <1>13, <1>14, <1>15 DEF Is
<1> QED BY <1>6, <1>8, <1>9, <1>16

\* A login server's LC_Login: w is refused.
LEMMA GateRefusedIs ==
    ASSUME OneByOne, IType, NEW at, NEW rest, NEW first, NEW w, NEW o, NEW x, Is(at, rest, first, w, o, x),
           NEW g \in Gates, NEW l \in Logins, GateRefused(g, l)
    PROVE  /\ at = "refused" /\ w \in Clients /\ send_login' = send_login \ {w}
           /\ Is("nobody", rest, first, w, o, x)'
<1> DEFINE k == <<l, g>>
<1>1. Arrives(k, "LC_Login") /\ k \in Links /\ net' = Took(k)
      /\ UNCHANGED <<up, sock, gate, closing, in_game, user_data, quque,
                     redis_vars, login_vars, db_vars, lobby_vars>>
  BY LinkType DEF GateRefused
<1> DEFINE found == FindById(Head(net[k]).s)
<1>2. sock[found] # "gone" => send_login' = send_login \ {found}
  BY DEF GateRefused
<1>3. k[1] # Lobby
  BY Distinct
<1> HIDE DEF k
<1>4. /\ at \in OnNet /\ k = x /\ "LC_Login" = TypeOf(at)
      /\ Head(net[k]) \in Msgs
      /\ Head(net[k]).type = "LC_Login" /\ Head(net[k]).s = Names(at, w, o)
      /\ Took(k) \in [Links -> Seq(Msgs)]
  BY <1>1, FoundLogin
<1>5. Works(job[Srv], replies[Srv], queries, listed, at, w, o)
      /\ Knows(player, lobby_cmds, info, online, at, rest, first, w, o)
      /\ Sessions(at, rest, w, o) /\ Waiting(cmds[Srv], temp, at, first, w)
      /\ Carries(net, at, rest, w, o, x, <<gate[o], Lobby>>)
      /\ w \in Clients \union {None} /\ o \in Clients \union {None} /\ x \in Links /\ Fits(at, rest, first)
  BY DEF Is
<1>6. at = "refused" /\ Head(net[k]).s = w
  BY <1>3, <1>4, <1>5 DEF TypeOf, Names, Carries
<1>7. w \in Clients /\ sock[w] = "open" /\ w \in send_login \ in_game
  BY <1>5, <1>6 DEF Sessions, IType, GateOK
<1>8. send_login' = send_login \ {w}
  <2>1. found = w
    BY <1>6, <1>7, FoundById DEF IType, InTable
  <2> QED BY <2>1, <1>2, <1>7
<1>9. Fits("nobody", rest, first)
  BY <1>5, <1>6 DEF Fits, Places, Rests, Firsts, Checking, Admitted, Kicking, MayDelete
<1>10. Carries(net', "nobody", rest, w, o, x, <<gate'[o], Lobby>>)
  <2>1. Carries(Took(x), "nobody", rest, w, o, x, <<gate[o], Lobby>>)
    BY <1>4, TakesMessage DEF OnNet
  <2> QED BY <2>1, <1>1, <1>4
<1>11. Waiting(cmds'[Srv], temp', "nobody", first, w)
  BY <1>1, <1>5, <1>6, SameClosures DEF InCmds, Kicking, login_vars, redis_vars
<1>12. Works(job'[Srv], replies'[Srv], queries', listed', "nobody", w, o)
  <2>1. Works(job[Srv], replies[Srv], queries, listed, "nobody", w, o)
    BY <1>5, <1>6, SameWorks DEF InJob, InReplies
  <2> QED BY <2>1, <1>1 DEF login_vars, db_vars
<1>13. Knows(player', lobby_cmds', info', online', "nobody", rest, first, w, o)
  <2>1. Knows(player, lobby_cmds, info, online, "nobody", rest, first, w, o)
    BY <1>5, <1>6, SameKnows DEF Admitted, Checking
  <2> QED BY <2>1, <1>1 DEF redis_vars, lobby_vars
<1>14. Sessions("nobody", rest, w, o)'
  <2>1. in_game' \subseteq send_login' /\ send_login' \ in_game' = {}
    BY <1>1, <1>5, <1>7, <1>8 DEF Sessions
  <2>2. \A h \in Gates : quque'[h] = None
    BY <1>1, <1>5, <1>6 DEF Sessions
  <2> QED BY <2>1, <2>2, <1>1, <1>5, <1>6 DEF Sessions, Kicking
<1>15. Is("nobody", rest, first, w, o, x)'
  BY <1>5, <1>9, <1>10, <1>11, <1>12, <1>13, <1>14 DEF Is
<1> QED BY <1>6, <1>7, <1>8, <1>15

\* LG_KickClient: o is being closed, or it has gone and the login goes on at once.
LEMMA GateKickIs ==
    ASSUME OneByOne, IType, NEW at, NEW rest, NEW first, NEW w, NEW o, NEW x, Is(at, rest, first, w, o, x),
           NEW g \in Gates, NEW l \in Logins, GateKick(g, l), at \in Meets => Fresh(o)
    PROVE  \/ /\ Is("closes", rest, first, w, o, x)'
              /\ o \in in_game /\ o \in Clients /\ user_data' = user_data \union {o}
              /\ closing' = IF sock[o] = "open" THEN closing \union {o} ELSE closing
           \/ Is("L_KickClient", rest, first, w, o, <<g, l>>)' /\ UNCHANGED <<user_data, closing>>
<1> DEFINE k == <<l, g>>
           m == Msg("L_KickClient", None, TRUE)
           z == <<g, l>>
<1>1. Arrives(k, "LG_KickClient") /\ k \in Links
      /\ UNCHANGED <<up, sock, gate, send_login, in_game, quque,
                     redis_vars, login_vars, db_vars, lobby_vars>>
  BY LinkType DEF GateKick
<1> DEFINE found == FindById(Head(net[k]).s)
<1>2. IF sock[found] # "gone" /\ tries[found] > 0
      THEN /\ user_data' = user_data \union {found}
           /\ closing' = IF sock[found] = "open" THEN closing \union {found} ELSE closing
           /\ net' = Took(k)
      ELSE net' = Put(Took(k), z, m) /\ UNCHANGED <<user_data, closing>>
  BY DEF GateKick
<1> HIDE DEF k
<1>4. /\ at \in OnNet /\ k = x /\ "LG_KickClient" = TypeOf(at)
      /\ Head(net[k]) \in Msgs
      /\ Head(net[k]).type = "LG_KickClient" /\ Head(net[k]).s = Names(at, w, o)
      /\ Took(k) \in [Links -> Seq(Msgs)]
  BY <1>1, FoundLogin
<1>5. Works(job[Srv], replies[Srv], queries, listed, at, w, o)
      /\ Knows(player, lobby_cmds, info, online, at, rest, first, w, o)
      /\ Sessions(at, rest, w, o) /\ Waiting(cmds[Srv], temp, at, first, w)
      /\ w \in Clients \union {None} /\ o \in Clients \union {None} /\ x \in Links /\ Fits(at, rest, first)
  BY DEF Is
<1>6. at = "LG_KickClient" /\ Head(net[k]).s = o
  BY <1>4 DEF TypeOf, Names
<1>7. o \in in_game /\ o \in Clients
  BY <1>5, <1>6 DEF Sessions, Kicking, IType, GateOK
<1>3. IF sock[o] # "gone" THEN found = o /\ tries[o] > 0
      ELSE ~(sock[found] # "gone" /\ tries[found] > 0)
  <2>1. GateOK /\ NumbersOK /\ sock[o] # "new" /\ o \in send_login
    BY <1>5, <1>6, <1>7 DEF IType, Sessions
  <2>2. found \in Clients /\ (InTable(o) => found = o)
        /\ (found # o => InTable(found) /\ session_id[found] = session_id[o])
    BY <2>1, <1>6, <1>7, FoundById
  <2>3. InTable(o) <=> sock[o] # "gone"
    BY <2>1, <1>7 DEF InTable, GateOK
  <2>4. tries[o] > 0
    BY <2>1 DEF NumbersOK
  <2>5. CASE sock[o] = "gone"
    <3>1. found # o => tries[found] = 0
      BY <2>2, <1>6 DEF Fresh, Meets
    <3> QED BY <2>5, <3>1
  <2> QED BY <2>2, <2>3, <2>4, <2>5
<1>8. ASSUME NEW at2, at2 \in {"closes", "L_KickClient"}
      PROVE  /\ Waiting(cmds'[Srv], temp', at2, first, w)
             /\ Works(job'[Srv], replies'[Srv], queries', listed', at2, w, o)
             /\ Knows(player', lobby_cmds', info', online', at2, rest, first, w, o)
  <2>1. Waiting(cmds[Srv], temp, at2, first, w)
    BY <1>5, <1>6, <1>8, SameClosures DEF InCmds, Kicking
  <2>2. Works(job[Srv], replies[Srv], queries, listed, at2, w, o)
    BY <1>5, <1>6, <1>8, SameWorks DEF InJob, InReplies
  <2>3. Knows(player, lobby_cmds, info, online, at2, rest, first, w, o)
    BY <1>5, <1>6, <1>8, SameKnows DEF Admitted, Checking
  <2> QED BY <2>1, <2>2, <2>3, <1>1 DEF login_vars, redis_vars, db_vars, lobby_vars
<1>9. CASE sock[o] # "gone"
  <2>1. rest = "in" /\ net' = Took(x) /\ user_data' = user_data \union {o}
        /\ closing' = IF sock[o] = "open" THEN closing \union {o} ELSE closing
    BY <1>2, <1>3, <1>4, <1>5, <1>6, <1>7, <1>9 DEF Sessions
  <2>2. Fits("closes", rest, first)
    BY <2>1, <1>5, <1>6 DEF Fits, Places, Checking, Admitted, Kicking, MayDelete
  <2>3. Carries(net', "closes", rest, w, o, x, <<gate'[o], Lobby>>)
    <3>1. Carries(Took(x), "closes", rest, w, o, x, <<gate[o], Lobby>>)
      BY <1>4, TakesMessage DEF OnNet
    <3> QED BY <3>1, <2>1, <1>1
  <2>4. Sessions("closes", rest, w, o)'
    <3>1. user_data' = {o} /\ closing' = IF sock'[o] = "open" THEN {o} ELSE {}
      BY <2>1, <1>1, <1>5, <1>6 DEF Sessions
    <3>2. \A h \in Gates : quque'[h] = None
      BY <1>1, <1>5, <1>6 DEF Sessions
    <3> QED BY <3>1, <3>2, <2>1, <1>1, <1>5, <1>6, <1>7 DEF Sessions
  <2>5. Is("closes", rest, first, w, o, x)'
    BY <2>2, <2>3, <2>4, <1>5, <1>8 DEF Is
  <2> QED BY <2>1, <2>5, <1>7
<1>10. CASE sock[o] = "gone"
  <2>1. rest # "in" /\ net' = Put(Took(x), z, m) /\ UNCHANGED <<user_data, closing>>
    BY <1>2, <1>3, <1>4, <1>5, <1>6, <1>10 DEF Sessions
  <2>2. Fits("L_KickClient", rest, first)
    BY <2>1, <1>5, <1>6 DEF Fits, Places, OnNet, Checking, Admitted, Kicking, MayDelete
  <2>3. z \in Links /\ z[2] # Lobby /\ z # <<gate[o], Lobby>>
        /\ m \in Msgs /\ m.type = TypeOf("L_KickClient") /\ m.s = Names("L_KickClient", w, o)
    BY LinkType, Distinct DEF Msg, Msgs, TypeOf, Names
  <2>4. Carries(net', "L_KickClient", rest, w, o, z, <<gate'[o], Lobby>>)
    <3> HIDE DEF m, z
    <3>1. Carries(Put(Took(x), z, m), "L_KickClient", rest, w, o, z, <<gate[o], Lobby>>)
      BY <1>4, <2>3, MovesMessage DEF OnNet
    <3> QED BY <3>1, <2>1, <1>1
  <2>5. Sessions("L_KickClient", rest, w, o)'
    BY <2>1, <1>1, <1>5, <1>6, <1>7 DEF Sessions
  <2> HIDE DEF z
  <2>6. Is("L_KickClient", rest, first, w, o, z)'
    BY <2>2, <2>3, <2>4, <2>5, <1>5, <1>8 DEF Is
  <2> QED BY <2>1, <2>6 DEF z
<1> QED BY <1>9, <1>10

\* The S_Logout of o is put on y.
LEMMA PutLogout ==
    ASSUME NEW n \in [Links -> Seq(Msgs)], NEW at, NEW rest, rest # "S_Logout", NEW w, NEW o,
           NEW x \in Links, NEW y \in Links, Carries(n, at, rest, w, o, x, y), at \in OnNet => x # y,
           NEW at2, at2 = at \/ (at \notin OnNet /\ at2 \notin OnNet), NEW flag \in BOOLEAN,
           flag <=> at2 = "S_Logout", o \in Clients
    PROVE  Carries(Put(n, y, Msg("S_Logout", o, flag)), at2, "S_Logout", w, o, x, y)
<1> DEFINE m == Msg("S_Logout", o, flag)
           n2 == Put(n, y, m)
<1>1. n[y] = <<>>
  BY DEF Carries
<1>2. n2[y] = Append(<<>>, m) /\ \A k \in Links : k # y => n2[k] = n[k]
  BY <1>1 DEF Put
<1>3. m \in Msgs /\ m.type = "S_Logout" /\ m.s = o /\ m.flag = flag
  BY DEF Msg, Msgs
<1> HIDE DEF m
<1>4. Single(n2[y], "S_Logout", o) /\ n2[y][1] = m
  BY <1>2, <1>3, SingleMade
<1>5. \A k \in Links : n2[k] = <<>> \/ (at \in OnNet /\ k = x) \/ k = y
  BY <1>2 DEF Carries
<1> HIDE DEF n2
<1>6. n2[y][1].flag <=> at2 = "S_Logout"
  BY <1>3, <1>4
<1>7. Carries(n2, at2, "S_Logout", w, o, x, y)
  BY <1>2, <1>4, <1>5, <1>6 DEF Carries
<1> QED BY <1>7 DEF n2, m

\* A session is erased.  If it is o, its S_Logout goes to the lobby.
LEMMA OnClosedIs ==
    ASSUME OneByOne, IType, NEW at, NEW rest, NEW first, NEW w, NEW o, NEW x, Is(at, rest, first, w, o, x),
           NEW s \in Clients, OnClosed(s)
    PROVE  \/ Is(at, rest, first, w, o, x)'
           \/ \E at2 \in Places : (at2 \in Meets => at2 = at) /\ Is(at2, "S_Logout", first, w, o, x)'
<1> DEFINE y == <<gate[o], Lobby>>
<1>1. sock[s] = "closed" /\ sock' = [sock EXCEPT ![s] = "gone"]
      /\ UNCHANGED <<up, gate, closing, send_login, in_game, quque,
                     redis_vars, login_vars, db_vars, lobby_vars>>
  BY DEF OnClosed
<1>2. Works(job[Srv], replies[Srv], queries, listed, at, w, o)
      /\ Knows(player, lobby_cmds, info, online, at, rest, first, w, o)
      /\ Sessions(at, rest, w, o) /\ Waiting(cmds[Srv], temp, at, first, w)
      /\ Carries(net, at, rest, w, o, x, y)
      /\ w \in Clients \union {None} /\ o \in Clients \union {None} /\ x \in Links /\ Fits(at, rest, first)
  BY DEF Is
<1>3. sock \in [Clients -> {"new", "open", "closed", "gone"}] /\ in_game \subseteq Clients
      /\ send_login \subseteq Clients /\ net \in [Links -> Seq(Msgs)]
  BY DEF IType, GateOK, NetOK
<1>4. \A t \in Clients : sock'[t] = IF t = s THEN "gone" ELSE sock[t]
  BY <1>1, <1>3
<1>5. at # "nobody" => s # w /\ w \in Clients
  BY <1>1, <1>2, <1>3 DEF Sessions
<1>6. at # "nobody" => w \in send_login' \ in_game' /\ sock'[w] = "open"
  BY <1>1, <1>2, <1>4, <1>5 DEF Sessions
<1>7. \A t \in Clients : sock'[t] # "new" => gate'[t] \in Gates
  BY <1>1, <1>2, <1>4 DEF Sessions
<1>8. CASE s \notin send_login
  <2>1. UNCHANGED <<net, user_data>>
    BY <1>8 DEF OnClosed
  <2>2. s \notin in_game
    BY <1>8, <1>2 DEF Sessions
  <2>3. rest # "nobody" \/ at \in Kicking \union {"kick"} => sock'[o] = sock[o]
    BY <2>2, <1>2, <1>3, <1>4 DEF Sessions
  <2>4. \A t \in in_game' : sock'[t] = "gone" \/ (rest = "in" /\ t = o)
    BY <1>1, <1>2, <1>3, <1>4 DEF Sessions
  <2>5. closing' = IF at = "closes" /\ sock'[o] = "open" THEN {o} ELSE {}
    BY <2>3, <1>1, <1>2 DEF Sessions, Kicking
  <2>6. Sessions(at, rest, w, o)'
    BY <2>1, <2>3, <2>4, <2>5, <1>1, <1>2, <1>6, <1>7 DEF Sessions
  <2>7. Is(at, rest, first, w, o, x)'
    BY <2>1, <2>6, <1>1, <1>2 DEF Is, redis_vars, login_vars, db_vars, lobby_vars
  <2> QED BY <2>7
<1>9. CASE s \in send_login
  <2>1. s \in in_game
    BY <1>2, <1>5, <1>9 DEF Sessions
  <2>2. rest = "in" /\ s = o
    BY <2>1, <1>1, <1>2 DEF Sessions
  <2> DEFINE at2 == IF at = "closes" THEN "S_Logout" ELSE at
             flag == o \in user_data
  <2>3. net' = Put(net, y, Msg("S_Logout", o, flag)) /\ user_data' = user_data \ {o}
    BY <2>1, <2>2, <1>9 DEF OnClosed
  <2>15. at2 \in Meets => at2 = at
    BY DEF Meets
  <2>4. at2 \in Places /\ Fits(at2, "S_Logout", first) /\ at \notin Admitted \union Checking /\ at # "S_Logout"
    BY <2>2, <1>2 DEF Fits, Places, Rests, Checking, Admitted, Kicking, MayDelete
  <2>5. flag \in BOOLEAN /\ (flag <=> at2 = "S_Logout") /\ o \in Clients
    BY <2>2, <2>4, <1>2, <1>3 DEF Sessions
  <2>6. y \in Links /\ (at \in OnNet => x # y)
    <3>1. y \in Links /\ y[2] = Lobby
      BY <2>2, LogoutLink
    <3>2. at \in OnNet => x[2] # Lobby
      BY <2>4, <1>2 DEF Carries, Admitted
    <3> QED BY <3>1, <3>2
  <2>7. at2 = at \/ (at \notin OnNet /\ at2 \notin OnNet)
    BY DEF OnNet
  <2>8. Waiting(cmds'[Srv], temp', at2, first, w)
    <3>1. Waiting(cmds[Srv], temp, at2, first, w)
      BY <1>2, SameClosures DEF InCmds, Kicking
    <3> QED BY <3>1, <1>1 DEF login_vars, redis_vars
  <2>9. Works(job'[Srv], replies'[Srv], queries', listed', at2, w, o)
    <3>1. Works(job[Srv], replies[Srv], queries, listed, at2, w, o)
      BY <1>2, SameWorks DEF InJob, InReplies
    <3> QED BY <3>1, <1>1 DEF login_vars, db_vars
  <2>10. Knows(player', lobby_cmds', info', online', at2, "S_Logout", first, w, o)
    <3>1. Knows(player, lobby_cmds, info, online, at2, "S_Logout", first, w, o)
      BY <2>2, <2>4, <1>2 DEF Knows, Admitted
    <3> QED BY <3>1, <1>1 DEF redis_vars, lobby_vars
  <2>11. Sessions(at2, "S_Logout", w, o)'
    <3>1. sock'[o] = "gone" /\ o \in in_game' /\ \A t \in in_game' : sock'[t] = "gone"
      BY <2>1, <2>2, <1>1, <1>2, <1>3, <1>4 DEF Sessions
    <3>2. user_data' = {} /\ closing' = {}
      BY <2>2, <2>3, <1>1, <1>2 DEF Sessions
    <3>3. \A h \in Gates : quque'[h] = IF at = "queued" /\ h = gate'[w] THEN w ELSE None
      BY <1>1, <1>2 DEF Sessions
    <3> QED BY <3>1, <3>2, <3>3, <2>2, <1>1, <1>2, <1>6, <1>7 DEF Sessions
  <2> HIDE DEF y, at2, flag
  <2>12. Carries(Put(net, y, Msg("S_Logout", o, flag)), at2, "S_Logout", w, o, x, y)
    BY <2>2, <2>5, <2>6, <2>7, <1>2, <1>3, PutLogout
  <2>13. Carries(net', at2, "S_Logout", w, o, x, <<gate'[o], Lobby>>)
    BY <2>12, <2>3, <1>1 DEF y
  <2>14. Is(at2, "S_Logout", first, w, o, x)'
    BY <2>4, <2>8, <2>9, <2>10, <2>11, <2>13, <1>2 DEF Is
  <2> QED BY <2>4, <2>14, <2>15
<1> QED BY <1>8, <1>9

-----------------------------------------------------------------------------
(* Every step *)

LEMMA ToSerial ==
    ASSUME NEW at, NEW rest, NEW first, NEW w, NEW o, NEW x, Is(at, rest, first, w, o, x)',
           at \in Meets => Fresh(o)'
    PROVE  Serial'
<1>1. /\ at \in Places /\ rest \in Rests /\ first \in Firsts
      /\ w \in Clients \union {None} /\ o \in Clients \union {None} /\ x \in Links
  BY DEF Is, Fits
<1> QED BY <1>1 DEF Serial

\* A number's holders change when a session connects, and their asking when none is
\* under way.
LEMMA StaysFresh ==
    ASSUME NEW o, Fresh(o), UNCHANGED <<in_game, session_id, tries>>,
           \A t \in Clients : InTable(t)' => InTable(t)
    PROVE  Fresh(o)'
BY DEF Fresh

\* The login meets o while o is in its gate's table, and no other session has its number.
LEMMA BecomesFresh ==
    ASSUME ~Confused, IType, NEW at, NEW first, NEW w, NEW o, NEW x, Is(at, "in", first, w, o, x)
    PROVE  Fresh(o)
<1>1. o \in Clients /\ o \in in_game /\ InTable(o) /\ NumbersOK
  BY DEF Is, Sessions, InTable, IType, GateOK
<1>2. ASSUME NEW t \in Clients \ {o}, InTable(t), session_id[t] = session_id[o] PROVE FALSE
  <2>1. SameNumber(t, o)
    BY <1>1, <1>2 DEF SameNumber, InTable
  <2>2. gate[t] = gate[o]
    BY <2>1, <1>1 DEF SameNumber, Confused
  <2> QED BY <2>1, <2>2, <1>1, <1>2 DEF NumbersOK
<1> QED BY <1>1, <1>2 DEF Fresh

LEMMA InitSerial == OneByOne /\ Init => Serial
<1> SUFFICES ASSUME OneByOne, Init PROVE Serial
  OBVIOUS
<1> DEFINE x == <<Srv, Db>>
<1>1. Srv \in Logins /\ x \in Links
  BY OneServer, LinkType
<1>2. Fits("nobody", "nobody", "nothing")
  BY DEF Fits, Places, Rests, Firsts, Checking, Admitted, Kicking
<1>3. Sessions("nobody", "nobody", None, None)
  BY DEF Init, Sessions, Kicking
<1>4. Carries(net, "nobody", "nobody", None, None, x, <<gate[None], Lobby>>)
  BY DEF Init, Carries, OnNet
<1>5. Waiting(cmds[Srv], temp, "nobody", "nothing", None)
  BY <1>1 DEF Init, Waiting, InCmds, Kicking
<1>6. Works(job[Srv], replies[Srv], queries, listed, "nobody", None, None)
  BY <1>1 DEF Init, Works, InJob, InReplies
<1>7. Knows(player, lobby_cmds, info, online, "nobody", "nobody", "nothing", None, None)
  BY DEF Init, Knows, Admitted, Checking
<1> HIDE DEF x
<1>8. Is("nobody", "nobody", "nothing", None, None, x)
  BY <1>1, <1>2, <1>3, <1>4, <1>5, <1>6, <1>7 DEF Is
<1>9. "nobody" \in Places /\ "nobody" \in Rests /\ "nothing" \in Firsts
  BY <1>2 DEF Fits
<1> QED BY <1>1, <1>8, <1>9 DEF Serial, Meets

LEMMA ReplySerial ==
    ASSUME OneByOne, IType, Serial, NEW l \in Logins,
           ReplyVerify(l) \/ ReplyNotify(l) \/ ReplyNoLobby(l) \/ ReplyKick(l)
    PROVE  Serial'
<1>1. PICK at, rest, first, w, o, x : Is(at, rest, first, w, o, x) /\ (at \in Meets => Fresh(o))
  BY DEF Serial
<1>2. CASE ReplyVerify(l)
  <2>1. Is("LD_VerifyAccount", rest, first, w, o, <<l, Db>>)'
    BY <1>1, <1>2, VerifyIs
  <2> QED BY <2>1, ToSerial DEF Meets
<1>3. CASE ReplyNotify(l)
  <2>1. Is("LS_LoginNotify", rest, first, w, o, <<l, Lobby>>)'
    BY <1>1, <1>3, NotifyIs
  <2> QED BY <2>1, ToSerial DEF Meets
<1>4. CASE ReplyNoLobby(l)
  <2>1. Is("refused", rest, first, w, o, <<l, gate[w]>>)'
    BY <1>1, <1>4, NoLobbyIs
  <2>2. PICK z : z = <<l, gate'[w]>>
    OBVIOUS
  <2>3. Is("refused", rest, first, w, o, z)'
    BY <2>1, <2>2 DEF Is
  <2> QED BY <2>3, ToSerial DEF Meets
<1>5. CASE ReplyKick(l)
  <2>1. Is("LG_KickClient", rest, "hset_temp", w, o, <<l, gate[o]>>)'
    BY <1>1, <1>5, KickIs
  <2>2. PICK z : z = <<l, gate'[o]>>
    OBVIOUS
  <2>3. Is("LG_KickClient", rest, "hset_temp", w, o, z)'
    BY <2>1, <2>2
  <2>4. at = "kick" /\ UNCHANGED gate_vars
    BY <1>1, <1>5, AnswerIs DEF ReplyKick
  <2>5. Fresh(o)'
    BY <2>4, <1>1, StaysFresh DEF Meets, gate_vars, InTable
  <2> QED BY <2>3, <2>5, ToSerial
<1> QED BY <1>2, <1>3, <1>4, <1>5

LEMMA LoginSerial == ASSUME OneByOne, IType, Serial, LoginStep PROVE Serial'
<1>1. PICK at, rest, first, w, o, x : Is(at, rest, first, w, o, x) /\ (at \in Meets => Fresh(o))
  BY DEF Serial
<1>2. PICK l \in Logins :
          \/ OnClLogin(l) \/ OnSLogout(l) \/ OnLKickClient(l) \/ OnDlVerifyAccountResult(l)
          \/ ReplyVerify(l) \/ ReplyNotify(l) \/ ReplyNoLobby(l) \/ ReplyKick(l)
  BY DEF LoginStep
<1>3. CASE OnClLogin(l)
  <2>1. PICK g \in Gates : LoginReceives(l, <<g, l>>, "CL_Login", "login")
    BY <1>3 DEF OnClLogin
  <2>2. Is("login", rest, first, w, o, x)'
    BY <1>1, <2>1, LinkType, Receives
  <2> QED BY <2>2, ToSerial DEF Meets
<1>4. CASE OnSLogout(l)
  <2>1. PICK k \in Gates \X {l} : Arrives(k, "S_Logout")
    BY <1>4 DEF OnSLogout, LoginReceives
  <2>2. k \in Links
    <3>1. PICK g \in Gates : k = <<g, l>>
      OBVIOUS
    <3> QED BY <3>1, LinkType
  <2>3. k = <<gate[o], Lobby>>
    BY <1>1, <2>1, <2>2, FoundBye
  <2> QED BY <2>3, Distinct
<1>5. CASE OnLKickClient(l)
  <2>1. PICK y \in Gates \union {Lobby} : LoginReceives(l, <<y, l>>, "L_KickClient", "kicked")
    BY <1>5 DEF OnLKickClient
  <2>2. Is("kicked", rest, first, w, o, x)'
    BY <1>1, <2>1, LinkType, Receives
  <2> QED BY <2>2, ToSerial DEF Meets
<1>6. CASE OnDlVerifyAccountResult(l)
  <2>1. Is("result", rest, first, w, o, x)'
    BY <1>1, <1>6, LinkType, Receives DEF OnDlVerifyAccountResult
  <2> QED BY <2>1, ToSerial DEF Meets
<1> QED BY <1>2, <1>3, <1>4, <1>5, <1>6, ReplySerial

LEMMA RedisSerial == ASSUME OneByOne, ~Confused, IType, Serial, RedisStep PROVE Serial'
<1>1. PICK at, rest, first, w, o, x : Is(at, rest, first, w, o, x) /\ (at \in Meets => Fresh(o))
  BY DEF Serial
<1>2. PICK l \in Logins :
          \/ RunLogin(l) \/ RunGetOther(l) \/ RunTakeover(l) \/ RunHsetTemp(l) \/ RunHdelInfo(l)
          \/ RunKicked(l) \/ RunLogout(l) \/ RunForget(l) \/ RunWhere(l) \/ RunVerified(l)
          \/ RunReconnect(l) \/ RunEnter(l) \/ RunRefused(l)
  BY DEF RedisStep
<1>3. CASE RunLogin(l)
  <2>1. \/ Is("verify", rest, "nothing", w, o, x)'
        \/ rest = "in" /\ Is("get_other", rest, "nothing", w, o, x)'
    BY <1>1, <1>3, RunLoginIs
  <2>2. rest = "in" => Fresh(o)
    BY <1>1, BecomesFresh
  <2>3. rest = "in" => Fresh(o)'
    <3>1. UNCHANGED gate_vars
      BY <1>3 DEF RunLogin
    <3> QED BY <2>2, <3>1, StaysFresh DEF gate_vars, InTable
  <2> QED BY <2>1, <2>3, ToSerial DEF Meets
<1>4. CASE RunGetOther(l)
  <2>1. \/ Is("refused", rest, "nothing", w, o, <<l, gate[w]>>)'
        \/ Is("kick", rest, "nothing", w, o, x)'
    BY <1>1, <1>4, RunGetOtherIs
  <2>2. PICK z : z = <<l, gate'[w]>>
    OBVIOUS
  <2>3. Is("refused", rest, "nothing", w, o, z)' \/ Is("kick", rest, "nothing", w, o, x)'
    BY <2>1, <2>2
  <2>4. at = "get_other" /\ UNCHANGED gate_vars
    BY <1>1, <1>4, JobIs DEF RunGetOther, Continues
  <2>5. Fresh(o)'
    BY <2>4, <1>1, StaysFresh DEF Meets, gate_vars, InTable
  <2> QED BY <2>3, <2>5, ToSerial DEF Meets
<1>5. CASE RunHsetTemp(l) \/ RunHdelInfo(l)
  <2>1. Is(at, rest, "nothing", w, o, x)'
    BY <1>1, <1>5, RunFirstIs
  <2>2. UNCHANGED gate_vars
    BY <1>5 DEF RunHsetTemp, RunHdelInfo
  <2>3. at \in Meets => Fresh(o)'
    BY <2>2, <1>1, StaysFresh DEF gate_vars, InTable
  <2> QED BY <2>1, <2>3, ToSerial
<1>6. CASE RunKicked(l)
  <2>1. Is("verify", rest, "nothing", w, o, x)'
    BY <1>1, <1>6, RunKickedIs
  <2> QED BY <2>1, ToSerial DEF Meets
<1>7. CASE RunVerified(l)
  <2>1. Is("reconnect", rest, "nothing", w, o, x)'
    BY <1>1, <1>7, RunVerifiedIs
  <2> QED BY <2>1, ToSerial DEF Meets
<1>8. CASE RunReconnect(l)
  BY <1>1, <1>8, RunReconnectIs, ToSerial DEF Meets
<1>9. CASE RunEnter(l)
  <2>1. Is("notify", rest, "nothing", w, o, x)'
    BY <1>1, <1>9, RunEnterIs
  <2> QED BY <2>1, ToSerial DEF Meets
<1>10. CASE RunRefused(l)
  <2>1. Is("refused", rest, "hdel_info", w, o, <<l, gate[w]>>)'
    BY <1>1, <1>10, RunRefusedIs
  <2>2. PICK z : z = <<l, gate'[w]>>
    OBVIOUS
  <2>3. Is("refused", rest, "hdel_info", w, o, z)'
    BY <2>1, <2>2
  <2> QED BY <2>3, ToSerial DEF Meets
<1> QED BY <1>1, <1>2, <1>3, <1>4, <1>5, <1>6, <1>7, <1>8, <1>9, <1>10, RunNever

LEMMA DbSerial == ASSUME OneByOne, IType, Serial, DbStep PROVE Serial'
<1>1. PICK at, rest, first, w, o, x : Is(at, rest, first, w, o, x) /\ (at \in Meets => Fresh(o))
  BY DEF Serial
<1>2. ASSUME NEW l \in Logins, DbReceives(l) PROVE Serial'
  <2>1. Is("query", rest, first, w, o, x)'
    BY <1>1, <1>2, DbReceivesIs
  <2> QED BY <2>1, ToSerial DEF Meets
<1>3. ASSUME NEW i \in 1..Len(queries), DbAnswer(i) PROVE Serial'
  <2>1. PICK l \in Logins : Is("DL_VerifyAccountResult", rest, first, w, o, <<Db, l>>)'
    BY <1>1, <1>3, DbAnswerIs
  <2> QED BY <2>1, ToSerial DEF Meets
<1> QED BY <1>2, <1>3 DEF DbStep

LEMMA LobbySerial == ASSUME OneByOne, IType, Serial, LobbyStep PROVE Serial'
<1>1. PICK at, rest, first, w, o, x : Is(at, rest, first, w, o, x) /\ (at \in Meets => Fresh(o))
  BY DEF Serial
<1>2. ASSUME NEW l \in Logins, LobbyNotify(l) PROVE Serial'
  <2>1. Is("LC_Login", rest, first, w, o, <<Lobby, gate[w]>>)'
    BY <1>1, <1>2, LobbyNotifyIs
  <2>2. PICK z : z = <<Lobby, gate'[w]>>
    OBVIOUS
  <2>3. Is("LC_Login", rest, first, w, o, z)'
    BY <2>1, <2>2
  <2> QED BY <2>3, ToSerial DEF Meets
<1>3. ASSUME NEW y \in Gates \union Logins, LobbyLogout(y) PROVE Serial'
  <2>1. \/ Is(at, "hdel_info", first, w, o, x)'
        \/ \E l \in Logins : Is("L_KickClient", "hdel_info", first, w, o, <<Lobby, l>>)'
    BY <1>1, <1>3, LobbyLogoutIs
  <2>2. UNCHANGED gate_vars
    BY <1>3 DEF LobbyLogout
  <2>3. at \in Meets => Fresh(o)'
    BY <2>2, <1>1, StaysFresh DEF gate_vars, InTable
  <2> QED BY <2>1, <2>3, ToSerial DEF Meets
<1>4. ASSUME LobbyRedis PROVE Serial'
  <2>1. UNCHANGED gate_vars
    BY <1>4 DEF LobbyRedis
  <2>2. at \in Meets => Fresh(o)'
    BY <2>1, <1>1, StaysFresh DEF gate_vars, InTable
  <2> QED BY <1>1, <1>4, <2>2, LobbyRedisIs, ToSerial
<1> QED BY <1>2, <1>3, <1>4 DEF LobbyStep

LEMMA GateSerial == ASSUME OneByOne, IType, Serial, Client \/ GateStep PROVE Serial'
<1>1. PICK at, rest, first, w, o, x : Is(at, rest, first, w, o, x) /\ (at \in Meets => Fresh(o))
  BY DEF Serial
<1>2. ASSUME NEW s \in Clients, OnCLLogin(s) PROVE Serial'
  <2>1. Is("queued", rest, first, s, o, x)'
    BY <1>1, <1>2, OnCLLoginIs
  <2> QED BY <2>1, ToSerial DEF Meets
<1>3. ASSUME NEW s \in Clients, SocketCloses(s) PROVE Serial'
  <2>1. Is(at, rest, first, w, o, x)'
    BY <1>1, <1>3, SocketClosesIs
  <2>2. UNCHANGED <<in_game, session_id, tries>> /\ \A t \in Clients : InTable(t)' => InTable(t)
    BY <1>3 DEF SocketCloses, InTable, IType, GateOK
  <2>3. at \in Meets => Fresh(o)'
    BY <2>2, <1>1, StaysFresh
  <2> QED BY <2>1, <2>3, ToSerial
<1>4. ASSUME NEW s \in Clients, NEW g \in Gates, Connect(s, g) PROVE Serial'
  <2>1. Is(at, rest, first, w, o, x)'
    BY <1>1, <1>4, ConnectIs
  <2>2. /\ sock[s] = "new" /\ sock' = [sock EXCEPT ![s] = "open"] /\ tries' = tries
        /\ in_game' = in_game /\ \E n : session_id' = [session_id EXCEPT ![s] = n]
    BY <1>4 DEF Connect
  <2>3. tries[s] = 0 /\ \A t \in Clients \ {s} : session_id'[t] = session_id[t] /\ InTable(t)' = InTable(t)
    BY <2>2 DEF IType, GateOK, NumbersOK, InTable
  <2>4. at \in Meets => Fresh(o)'
    <3>1. at \in Meets => o \in Clients /\ o # s
      BY <1>1, <2>2 DEF Fresh, Is, Sessions, IType, GateOK
    <3> QED BY <3>1, <2>2, <2>3, <1>1 DEF Fresh
  <2> QED BY <2>1, <2>4, ToSerial
<1>5. ASSUME NEW s \in Clients, OnClosed(s) PROVE Serial'
  <2>1. \/ Is(at, rest, first, w, o, x)'
        \/ \E at2 \in Places : (at2 \in Meets => at2 = at) /\ Is(at2, "S_Logout", first, w, o, x)'
    BY <1>1, <1>5, OnClosedIs
  <2>2. UNCHANGED <<in_game, session_id, tries>> /\ \A t \in Clients : InTable(t)' => InTable(t)
    BY <1>5 DEF OnClosed, InTable, IType, GateOK
  <2>3. at \in Meets => Fresh(o)'
    BY <2>2, <1>1, StaysFresh
  <2> QED BY <2>1, <2>3, ToSerial
<1>6. ASSUME NEW g \in Gates, GateLoggedIn(g) PROVE Serial'
  <2>1. Is("nobody", "in", "nothing", w, w, x)'
    BY <1>1, <1>6, GateLoggedInIs
  <2> QED BY <2>1, ToSerial DEF Meets
<1>7. ASSUME NEW g \in Gates, NEW l \in Logins, OnLoginQuque(g, l) PROVE Serial'
  <2>1. Is("CL_Login", rest, first, w, o, <<g, l>>)'
    BY <1>1, <1>7, OnLoginQuqueIs
  <2> QED BY <2>1, ToSerial DEF Meets
<1>8. ASSUME NEW g \in Gates, NEW l \in Logins, GateRefused(g, l) PROVE Serial'
  <2>1. Is("nobody", rest, first, w, o, x)'
    BY <1>1, <1>8, GateRefusedIs
  <2> QED BY <2>1, ToSerial DEF Meets
<1>9. ASSUME NEW g \in Gates, NEW l \in Logins, GateKick(g, l) PROVE Serial'
  <2>1. Is("closes", rest, first, w, o, x)' \/ Is("L_KickClient", rest, first, w, o, <<g, l>>)'
    BY <1>1, <1>9, GateKickIs
  <2> QED BY <2>1, ToSerial DEF Meets
<1> QED BY <1>2, <1>3, <1>4, <1>5, <1>6, <1>7, <1>8, <1>9 DEF Client, GateStep

\* Nobody plays, and no gate crashes.
LEMMA NoFault == OneByOne /\ IType /\ Serial => ~Table /\ ~Fault
<1> SUFFICES ASSUME OneByOne, IType, Serial PROVE ~Table /\ ~Fault
  OBVIOUS
<1>1. PICK at, rest, first, w, o, x : Is(at, rest, first, w, o, x)
  BY DEF Serial
<1>2. ~player.playing /\ ~player.is_offline
  <2>1. player = NoPlayer \/ player = PlayerOf(o) \/ player = PlayerOf(w)
    BY <1>1 DEF Is, Knows
  <2> QED BY <2>1 DEF NoPlayer, PlayerOf
<1>3. ~Table
  BY <1>2 DEF Table, Play, LoadComplete, GameOver, OneByOne
<1>4. up = Gates /\ MaxCrashes = 0 /\ crashes \in 0..MaxCrashes
  BY <1>1 DEF Is, Sessions, OneByOne, IType, GateOK
<1>5. ~Fault
  BY <1>4 DEF Fault, Crash, Restart
<1> QED BY <1>3, <1>5

LEMMA StepSerial == OneByOne /\ ~Confused /\ IType /\ Serial /\ [Next]_vars => Serial'
<1> SUFFICES ASSUME OneByOne, ~Confused, IType, Serial, [Next]_vars PROVE Serial'
  OBVIOUS
<1>1. CASE UNCHANGED vars
  <2>1. PICK at, rest, first, w, o, x : Is(at, rest, first, w, o, x) /\ (at \in Meets => Fresh(o))
    BY DEF Serial
  <2>2. Is(at, rest, first, w, o, x)'
    BY <2>1, <1>1 DEF Is, Sessions, vars, gate_vars, redis_vars, login_vars, db_vars, lobby_vars
  <2>3. at \in Meets => Fresh(o)'
    BY <2>1, <1>1, StaysFresh DEF vars, gate_vars, InTable
  <2> QED BY <2>2, <2>3, ToSerial
<1>2. CASE Next
  <2>1. \/ Client \/ GateStep \/ LoginStep \/ RedisStep \/ DbStep \/ LobbyStep
    BY <1>2, NoFault DEF Next
  <2> QED BY <2>1, GateSerial, LoginSerial, RedisSerial, DbSerial, LobbySerial
<1> QED BY <1>1, <1>2

\* A session keeps its gate and its number.
LEMMA NamesStay ==
    ASSUME IType, [Next]_vars, NEW c \in Clients, sock[c] # "new"
    PROVE  sock'[c] # "new" /\ gate'[c] = gate[c] /\ session_id'[c] = session_id[c]
<1>1. sock \in [Clients -> {"new", "open", "closed", "gone"}]
  BY DEF IType, GateOK
<1>2. CASE Client
  BY <1>2 DEF Client, OnCLLogin, SocketCloses, Connect, IType, GateOK
<1>3. CASE GateStep
  BY <1>1, <1>3 DEF GateStep, OnClosed, SocketCloses, GateLoggedIn, OnLoginQuque, GateRefused, GateKick
<1>4. CASE Fault
  BY <1>1, <1>4 DEF Fault, Crash, Restart
<1>5. CASE LoginStep \/ RedisStep \/ DbStep
  BY <1>5 DEF gate_vars, LoginStep, OnClLogin, OnSLogout, OnLKickClient, OnDlVerifyAccountResult, LoginReceives,
       ReplyVerify, ReplyNotify, ReplyNoLobby, ReplyKick,
       RedisStep, RunLogin, RunGetOther, RunTakeover, RunHsetTemp, RunHdelInfo, RunKicked, RunLogout,
       RunForget, RunWhere, RunVerified, RunReconnect, RunEnter, RunRefused, DbStep, DbReceives, DbAnswer
<1>6. CASE LobbyStep \/ Table \/ UNCHANGED vars
  BY <1>6 DEF vars, gate_vars, LobbyStep, LobbyNotify, LobbyLogout, LobbyRedis, Table, Play, LoadComplete, GameOver
<1> QED BY <1>2, <1>3, <1>4, <1>5, <1>6 DEF Next

LEMMA StaysConfused == IType /\ Confused /\ [Next]_vars => Confused'
<1> SUFFICES ASSUME IType, Confused, [Next]_vars PROVE Confused'
  OBVIOUS
<1>1. PICK s, t \in Clients :
        sock[s] # "new" /\ sock[t] # "new" /\ gate[s] # gate[t] /\ session_id[s] = session_id[t]
  BY DEF Confused
<1>2. \A c \in {s, t} : sock'[c] # "new" /\ gate'[c] = gate[c] /\ session_id'[c] = session_id[c]
  BY <1>1, NamesStay
<1> QED BY <1>1, <1>2 DEF Confused

LEMMA Serially == ASSUME OneByOne PROVE Spec => [](IType /\ (Confused \/ Serial))
<1>1. Init => IType /\ Serial
  BY InitType, InitSerial
<1>2. IType /\ (Confused \/ Serial) /\ [Next]_vars => (IType /\ (Confused \/ Serial))'
  BY NextType, StepSerial, StaysConfused
<1> QED BY <1>1, <1>2, PTL DEF Spec

\* One gate, or gates that share no number.
LEMMA NotConfused == ASSUME ~SameIds PROVE Spec => []~Confused
<1>1. IType => ~Confused
  BY DEF IType, NumbersOK, SameNumber, Confused
<1>2. Spec => []IType
  BY InitType, NextType, PTL DEF Spec
<1> QED BY <1>1, <1>2, PTL

-----------------------------------------------------------------------------
(* What the cluster promises then *)

\* Whoever is logged in is o, and o is in.
LEMMA IsIn ==
    ASSUME IType, NEW at, NEW rest, NEW first, NEW w, NEW o, NEW x, Is(at, rest, first, w, o, x),
           NEW s \in Clients, LoggedIn(s)
    PROVE  s = o /\ rest = "in"
BY DEF Is, Sessions, LoggedIn

\* Nothing is under way when everything is handled.
LEMMA QuietIs ==
    ASSUME OneByOne, IType, NEW at, NEW rest, NEW first, NEW w, NEW o, NEW x, Is(at, rest, first, w, o, x), Quiet
    PROVE  at = "nobody" /\ first = "nothing" /\ rest \in {"nobody", "in"}
           /\ (rest = "in" => sock[o] = "open" /\ o \in Clients)
<1> DEFINE y == <<gate[o], Lobby>>
<1>1. Works(job[Srv], replies[Srv], queries, listed, at, w, o)
      /\ Knows(player, lobby_cmds, info, online, at, rest, first, w, o)
      /\ Sessions(at, rest, w, o) /\ Waiting(cmds[Srv], temp, at, first, w)
      /\ Carries(net, at, rest, w, o, x, y)
      /\ x \in Links /\ Fits(at, rest, first)
  BY DEF Is
<1>2. Srv \in Logins /\ cmds[Srv] = <<>> /\ job[Srv] = Idle /\ replies[Srv] = <<>> /\ queries = <<>>
      /\ lobby_cmds = <<>> /\ net[x] = <<>>
  BY <1>1, OneServer DEF Quiet
<1>3. at \notin OnNet
  BY <1>1, <1>2 DEF Carries, Single
<1>4. rest # "S_Logout"
  <2> SUFFICES ASSUME rest = "S_Logout" PROVE FALSE
    OBVIOUS
  <2>1. y \in Links
    BY LogoutLink
  <2>2. net[y] = <<>>
    BY <2>1 DEF Quiet
  <2> QED BY <2>2, <1>1 DEF Carries, Single
<1>5. at \notin InCmds /\ first = "nothing"
  <2>1. Len(cmds[Srv]) = 0
    BY <1>2
  <2> QED BY <2>1, <1>1 DEF Waiting
<1>6. at \notin InJob \union InReplies \union {"query"}
  BY <1>1, <1>2 DEF Works, Single, Idle, Msg, InJob
<1>7. at # "queued"
  <2> SUFFICES ASSUME at = "queued" PROVE FALSE
    OBVIOUS
  <2>1. w \in Clients /\ sock[w] = "open"
    BY <1>1 DEF Sessions, IType, GateOK
  <2>2. gate[w] \in Gates
    BY <2>1, <1>1 DEF Sessions
  <2>3. quque[gate[w]] = w /\ quque[gate[w]] = None
    BY <2>2, <1>1 DEF Sessions, Quiet
  <2> QED BY <2>1, <2>3, Distinct
<1>8. at # "S_Logout" /\ rest \in {"nobody", "in"}
  BY <1>1, <1>2, <1>4 DEF Fits, Rests, Knows
<1>9. rest = "in" => sock[o] = "open" /\ o \in Clients
  BY <1>1, LogoutLink DEF Sessions, Quiet
<1>10. at # "closes"
  BY <1>1, <1>9 DEF Sessions, Quiet, Fits
<1> QED BY <1>1, <1>3, <1>5, <1>6, <1>7, <1>8, <1>9, <1>10 DEF Fits, Places

\* One client at a time is logged in, since the cluster lets nobody in before the
\* one that was in has been closed, until two gates have given sessions of the account
\* the same number.
THEOREM OneSessionSafe == ASSUME OneByOne PROVE Spec => []OneSession
<1>1. IType /\ (Confused \/ Serial) => OneSession
  BY IsIn DEF Serial, OneSession
<1> QED BY <1>1, Serially, PTL

\* The client that is in has its player in the lobby, until
\* two gates have given sessions of the account the same number.
THEOREM HasPlayerSafe == ASSUME OneByOne PROVE Spec => [](HasPlayer \/ Confused)
<1>1. ASSUME IType, Serial, NEW s \in Clients, LoggedIn(s) PROVE player.s = s
  <2>1. PICK at, rest, first, w, o, x : Is(at, rest, first, w, o, x)
    BY <1>1 DEF Serial
  <2>2. s = o /\ rest = "in"
    BY <1>1, <2>1, IsIn
  <2>3. player = PlayerOf(o)
    BY <2>1, <2>2 DEF Is, Knows
  <2> QED BY <2>2, <2>3 DEF PlayerOf, NoPlayer
<1>2. IType /\ Serial => HasPlayer
  BY <1>1 DEF HasPlayer
<1> QED BY <1>2, Serially, PTL

\* Redis names the session of the client that is in once everything is handled, until
\* two gates have given sessions of the account the same number.
THEOREM HasInfoSafe == ASSUME OneByOne PROVE Spec => [](HasInfo \/ Confused)
<1>1. ASSUME OneByOne, IType, Serial, NEW s \in Clients, Quiet, LoggedIn(s)
      PROVE  info.s = s /\ online
  <2>1. PICK at, rest, first, w, o, x : Is(at, rest, first, w, o, x)
    BY <1>1 DEF Serial
  <2>2. s = o /\ rest = "in"
    BY <1>1, <2>1, IsIn
  <2>3. first = "nothing"
    BY <1>1, <2>1, QuietIs
  <2>4. info = [s |-> o, guid |-> TRUE] /\ online
    BY <2>1, <2>2, <2>3 DEF Is, Knows
  <2> QED BY <2>2, <2>4
<1>2. OneByOne /\ IType /\ Serial => HasInfo
  BY <1>1 DEF HasInfo
<1> QED BY <1>2, Serially, PTL

\* No player is left in the lobby whose client is gone, until
\* two gates have given sessions of the account the same number.
THEOREM NoGhostSafe == ASSUME OneByOne PROVE Spec => [](NoGhost \/ Confused)
<1>1. ASSUME OneByOne, IType, Serial, Quiet, player # NoPlayer PROVE sock[player.s] = "open"
  <2>1. PICK at, rest, first, w, o, x : Is(at, rest, first, w, o, x)
    BY <1>1 DEF Serial
  <2>2. at = "nobody" /\ (rest = "in" => sock[o] = "open") /\ rest \in {"nobody", "in"}
    BY <1>1, <2>1, QuietIs
  <2>3. rest = "in" /\ player = PlayerOf(o)
    BY <1>1, <2>1, <2>2 DEF Is, Knows
  <2> QED BY <2>2, <2>3 DEF PlayerOf, NoPlayer
<1>2. OneByOne /\ IType /\ Serial => NoGhost
  BY <1>1 DEF NoGhost
<1> QED BY <1>2, Serially, PTL

\* When the last client and the last player are gone, Redis has forgotten them, until
\* two gates have given sessions of the account the same number.
THEOREM NoLeftoversSafe == ASSUME OneByOne PROVE Spec => [](NoLeftovers \/ Confused)
<1>1. ASSUME OneByOne, IType, Serial, Quiet, player = NoPlayer PROVE info = NoInfo /\ ~online
  <2>1. PICK at, rest, first, w, o, x : Is(at, rest, first, w, o, x)
    BY <1>1 DEF Serial
  <2>2. at = "nobody" /\ first = "nothing" /\ rest \in {"nobody", "in"} /\ (rest = "in" => o \in Clients)
    BY <1>1, <2>1, QuietIs
  <2>3. rest = "in" => player = PlayerOf(o) /\ PlayerOf(o) # NoPlayer
    BY <2>1, <2>2, Distinct DEF Is, Knows, PlayerOf, NoPlayer
  <2>4. rest = "nobody"
    BY <1>1, <2>2, <2>3
  <2> QED BY <2>1, <2>2, <2>4 DEF Is, Knows, Admitted, Checking
<1>2. OneByOne /\ IType /\ Serial => NoLeftovers
  BY <1>1 DEF NoLeftovers
<1> QED BY <1>2, Serially, PTL

\* The end of a session removes the player of no other one, where no two gates give
\* sessions of the account the same number.
THEOREM LogoutOwnSafe == ASSUME OneByOne PROVE Spec /\ []~Confused => LogoutOwn
<1> DEFINE Own ==
        \A x \in Gates \union Logins :
          LobbyLogout(x) /\ player # NoPlayer /\ player' = NoPlayer
            => player.s = Head(net[<<x, Lobby>>]).s
<1>1. ASSUME OneByOne, IType, Serial, NEW x \in Gates \union Logins, LobbyLogout(x)
      PROVE  player.s = Head(net[<<x, Lobby>>]).s
  <2>1. PICK at, rest, first, w, o, z : Is(at, rest, first, w, o, z)
    BY <1>1 DEF Serial
  <2> QED BY <1>1, <2>1, LobbyLogoutIs
<1>2. IType /\ Serial => Own
  BY <1>1
<1>3. LogoutOwn <=> [][Own]_vars
  BY DEF LogoutOwn
<1> HIDE DEF Own
<1>4. IType /\ Serial /\ [Next]_vars => [Own]_vars
  BY <1>2
<1> QED BY <1>3, <1>4, Serially, PTL DEF Spec

-----------------------------------------------------------------------------
(* The steps of the cluster are steps of AccountPromise *)

\* Only the socket, the flags of the session and the lobby's player are seen.
LEMMA Unseen ==
    ASSUME UNCHANGED <<sock, closing, in_game, send_login>>, player' = player
    PROVE  UNCHANGED Abstract!vars
BY DEF Client_st, Abstract!vars

LEMMA Becoming ==
    ASSUME NEW c \in Clients, NEW v, Client_st'[c] = v,
           \A s \in Clients : s # c => Client_st'[s] = Client_st[s], player' = player
    PROVE  Abstract!Becomes(c, v)
<1>1. Client_st' = [Client_st EXCEPT ![c] = v]
  BY DEF Client_st
<1> QED BY <1>1 DEF Abstract!Becomes

\* A client whose login is under way is asking, and nobody else is.
LEMMA Asking ==
    ASSUME IType, NEW at, NEW rest, NEW first, NEW w, NEW o, NEW x, Is(at, rest, first, w, o, x), at # "nobody"
    PROVE  w \in Clients /\ Client_st[w] = "asking"
<1>1. w \in send_login \ in_game /\ sock[w] = "open" /\ w \in Clients
  BY DEF Is, Sessions, IType, GateOK
<1>2. w \notin closing
  BY <1>1 DEF Is, Sessions, Kicking
<1> QED BY <1>1, <1>2 DEF Client_st

LEMMA AskStep ==
    ASSUME OneByOne, IType, Serial, NEW s \in Clients, OnCLLogin(s)
    PROVE  Abstract!Ask(s)
<1>1. PICK at, rest, first, w, o, x : Is(at, rest, first, w, o, x)
  BY DEF Serial
<1>2. at = "nobody" /\ closing = {} /\ in_game \subseteq send_login
  <2>1. at = "nobody" /\ Is("queued", rest, first, s, o, x)'
    BY <1>1, OnCLLoginIs
  <2> QED BY <1>1, <2>1 DEF Is, Sessions
<1>3. sock[s] = "open" /\ s \notin send_login /\ send_login' = send_login \union {s}
      /\ UNCHANGED <<sock, closing, in_game, player>>
  BY DEF OnCLLogin, lobby_vars
<1>4. Client_st[s] = "out" /\ Client_st'[s] = "asking"
  BY <1>2, <1>3 DEF Client_st
<1>5. \A t \in Clients : t # s => Client_st'[t] = Client_st[t]
  BY <1>3 DEF Client_st
<1>6. Abstract!Becomes(s, "asking")
  BY <1>3, <1>4, <1>5, Becoming
<1> QED BY <1>4, <1>6 DEF Abstract!Ask

LEMMA LeaveStep ==
    ASSUME OneByOne, IType, Serial, NEW s \in Clients, SocketCloses(s)
    PROVE  Abstract!Leave(s) \/ UNCHANGED Abstract!vars
<1>1. sock[s] = "open" /\ sock' = [sock EXCEPT ![s] = "closed"] /\ closing' = closing \ {s}
      /\ UNCHANGED <<in_game, send_login, player>> /\ sock \in [Clients -> {"new", "open", "closed", "gone"}]
  BY DEF SocketCloses, lobby_vars, IType, GateOK
<1>2. Client_st'[s] = "left" /\ \A t \in Clients : t # s => Client_st'[t] = Client_st[t]
  BY <1>1 DEF Client_st
<1>3. Abstract!Becomes(s, "left")
  BY <1>1, <1>2, Becoming
<1>4. CASE Client_st[s] # "left"
  BY <1>3, <1>4 DEF Abstract!Leave
<1>5. CASE Client_st[s] = "left"
  <2>1. Client_st' = Client_st
    BY <1>2, <1>5 DEF Client_st
  <2> QED BY <2>1, <1>1 DEF Abstract!vars
<1> QED BY <1>4, <1>5

\* A session that is erased had left already.
LEMMA ErasedStep ==
    ASSUME IType, NEW s \in Clients, OnClosed(s)
    PROVE  UNCHANGED Abstract!vars
<1>1. sock[s] = "closed" /\ sock' = [sock EXCEPT ![s] = "gone"]
      /\ UNCHANGED <<closing, in_game, send_login, player>> /\ sock \in [Clients -> {"new", "open", "closed", "gone"}]
  BY DEF OnClosed, lobby_vars, IType, GateOK
<1>2. \A t \in Clients : Client_st'[t] = Client_st[t]
  BY <1>1 DEF Client_st
<1>3. Client_st' = Client_st
  BY <1>2 DEF Client_st
<1> QED BY <1>1, <1>3 DEF Abstract!vars

LEMMA ConnectStep ==
    ASSUME IType, NEW s \in Clients, NEW g \in Gates, Connect(s, g)
    PROVE  UNCHANGED Abstract!vars
<1>1. sock[s] = "new" /\ sock' = [sock EXCEPT ![s] = "open"]
      /\ UNCHANGED <<closing, in_game, send_login, player>> /\ sock \in [Clients -> {"new", "open", "closed", "gone"}]
  BY DEF Connect, lobby_vars, IType, GateOK
<1>2. \A t \in Clients : Client_st'[t] = Client_st[t]
  BY <1>1 DEF Client_st
<1>3. Client_st' = Client_st
  BY <1>2 DEF Client_st
<1> QED BY <1>1, <1>3 DEF Abstract!vars

LEMMA EnterStep ==
    ASSUME OneByOne, IType, Serial, NEW g \in Gates, GateLoggedIn(g)
    PROVE  \E c \in Clients : Abstract!Enter(c)
<1>1. PICK at, rest, first, w, o, x : Is(at, rest, first, w, o, x)
  BY DEF Serial
<1>2. at = "LC_Login" /\ w \in Clients /\ in_game' = in_game \union {w}
      /\ Is("nobody", "in", "nothing", w, w, x)'
  BY <1>1, GateLoggedInIs
<1>3. UNCHANGED <<sock, closing, send_login, player>>
  BY DEF GateLoggedIn, lobby_vars
<1>4. Client_st[w] = "asking"
  BY <1>1, <1>2, Asking
<1>5. rest = "nobody" /\ player = PlayerOf(w)
  BY <1>1, <1>2 DEF Is, Fits, Knows, Admitted
<1>6. \A d \in Clients : Client_st[d] # "in"
  BY <1>1, <1>5 DEF Is, Sessions, Client_st
<1>7. Client_st'[w] = "in" /\ \A t \in Clients : t # w => Client_st'[t] = Client_st[t]
  BY <1>2, <1>3, <1>4 DEF Client_st
<1>8. Abstract!Becomes(w, "in")
  BY <1>2, <1>3, <1>7, Becoming
<1>9. player.s = w
  BY <1>5 DEF PlayerOf, NoPlayer
<1> QED BY <1>2, <1>4, <1>6, <1>8, <1>9 DEF Abstract!Enter

LEMMA RefuseStep ==
    ASSUME OneByOne, IType, Serial, NEW g \in Gates, NEW l \in Logins, GateRefused(g, l)
    PROVE  \E c \in Clients : Abstract!Refuse(c)
<1>1. PICK at, rest, first, w, o, x : Is(at, rest, first, w, o, x)
  BY DEF Serial
<1>2. at = "refused" /\ w \in Clients /\ send_login' = send_login \ {w}
  BY <1>1, GateRefusedIs
<1>3. UNCHANGED <<sock, closing, in_game, player>>
  BY DEF GateRefused, lobby_vars
<1>4. Client_st[w] = "asking"
  BY <1>1, <1>2, Asking
<1>5. player.s # w
  <2>1. (player = PlayerOf(o) /\ o \in in_game) \/ player = NoPlayer
    BY <1>1, <1>2 DEF Is, Sessions, Knows
  <2>2. w \notin in_game
    BY <1>1, <1>2 DEF Is, Sessions
  <2> QED BY <1>2, <2>1, <2>2, Distinct DEF PlayerOf, NoPlayer
<1>6. Client_st'[w] = "out" /\ \A t \in Clients : t # w => Client_st'[t] = Client_st[t]
  BY <1>2, <1>3, <1>4 DEF Client_st
<1>7. Abstract!Becomes(w, "out")
  BY <1>2, <1>3, <1>6, Becoming
<1> QED BY <1>2, <1>4, <1>5, <1>7 DEF Abstract!Refuse

LEMMA KickStep ==
    ASSUME OneByOne, IType, Serial, NEW g \in Gates, NEW l \in Logins, GateKick(g, l)
    PROVE  (\E c \in Clients : Abstract!Leave(c)) \/ UNCHANGED Abstract!vars
<1>1. PICK at, rest, first, w, o, x : Is(at, rest, first, w, o, x) /\ (at \in Meets => Fresh(o))
  BY DEF Serial
<1>2. UNCHANGED <<sock, in_game, send_login, player>>
  BY DEF GateKick, lobby_vars
<1>3. CASE UNCHANGED closing
  BY <1>2, <1>3, Unseen
<1>4. CASE closing' # closing
  <2>1. o \in Clients /\ closing' = closing \union {o} /\ o \notin closing /\ sock[o] = "open"
    <3>1. \/ /\ Is("closes", rest, first, w, o, x)'
             /\ o \in in_game /\ o \in Clients /\ user_data' = user_data \union {o}
             /\ closing' = IF sock[o] = "open" THEN closing \union {o} ELSE closing
          \/ Is("L_KickClient", rest, first, w, o, <<g, l>>)' /\ UNCHANGED <<user_data, closing>>
      BY <1>1, GateKickIs
    <3> QED BY <3>1, <1>4
  <2>2. Client_st'[o] = "left" /\ Client_st[o] # "left"
        /\ \A t \in Clients : t # o => Client_st'[t] = Client_st[t]
    BY <2>1, <1>2 DEF Client_st
  <2>3. Abstract!Becomes(o, "left")
    BY <2>1, <2>2, <1>2, Becoming
  <2> QED BY <2>1, <2>2, <2>3 DEF Abstract!Leave
<1> QED BY <1>3, <1>4

LEMMA AdmitStep ==
    ASSUME OneByOne, IType, Serial, NEW l \in Logins, LobbyNotify(l)
    PROVE  \E c \in Clients : Abstract!Admit(c)
<1>1. PICK at, rest, first, w, o, x : Is(at, rest, first, w, o, x)
  BY DEF Serial
<1>2. at = "LS_LoginNotify" /\ player = NoPlayer /\ w \in Clients
      /\ Is("LC_Login", rest, first, w, o, <<Lobby, gate[w]>>)'
  BY <1>1, LobbyNotifyIs
<1>3. UNCHANGED <<sock, closing, in_game, send_login>>
  BY DEF LobbyNotify, gate_vars
<1>4. Client_st' = Client_st
  BY <1>3 DEF Client_st
<1>5. rest = "nobody"
  BY <1>1, <1>2 DEF Is, Fits, Admitted
<1>6. player' = PlayerOf(w)
  BY <1>2, <1>5 DEF Is, Knows
<1>7. player.s = None /\ player'.s = w
  BY <1>2, <1>6 DEF PlayerOf, NoPlayer
<1>8. Client_st[w] = "asking"
  BY <1>1, <1>2, Asking
<1> QED BY <1>2, <1>4, <1>7, <1>8 DEF Abstract!Admit

LEMMA ReleaseStep ==
    ASSUME OneByOne, IType, Serial, NEW y \in Gates \union Logins, LobbyLogout(y)
    PROVE  Abstract!Release
<1>1. PICK at, rest, first, w, o, x : Is(at, rest, first, w, o, x)
  BY DEF Serial
<1>2. /\ player.s = o /\ Head(net[<<y, Lobby>>]).s = o /\ rest = "S_Logout" /\ o \in Clients
      /\ player' = NoPlayer
      /\ \/ Is(at, "hdel_info", first, w, o, x)'
         \/ \E l \in Logins : Is("L_KickClient", "hdel_info", first, w, o, <<Lobby, l>>)'
  BY <1>1, LobbyLogoutIs
<1>3. UNCHANGED <<sock, closing, in_game, send_login>>
  BY DEF LobbyLogout, gate_vars
<1>4. Client_st' = Client_st
  BY <1>3 DEF Client_st
<1>5. sock[o] = "gone"
  BY <1>1, <1>2 DEF Is, Sessions
<1>6. Client_st[o] = "left"
  BY <1>2, <1>5 DEF Client_st
<1>7. player'.s = None
  BY <1>2 DEF NoPlayer
<1> QED BY <1>2, <1>4, <1>6, <1>7, Distinct DEF Abstract!Release

LEMMA StepPromise ==
    ASSUME OneByOne, IType, Serial, [Next]_vars PROVE [Abstract!Next]_(Abstract!vars)
<1> SUFFICES Abstract!Next \/ UNCHANGED Abstract!vars
  OBVIOUS
<1>1. CASE UNCHANGED vars
  BY <1>1, Unseen DEF vars, gate_vars, lobby_vars
<1>2. CASE Client
  <2>1. ASSUME NEW s \in Clients, OnCLLogin(s) PROVE Abstract!Next
    BY <2>1, AskStep DEF Abstract!Next
  <2>2. ASSUME NEW s \in Clients, SocketCloses(s) PROVE Abstract!Next \/ UNCHANGED Abstract!vars
    BY <2>2, LeaveStep DEF Abstract!Next
  <2>3. ASSUME NEW s \in Clients, NEW g \in Gates, Connect(s, g) PROVE UNCHANGED Abstract!vars
    BY <2>3, ConnectStep
  <2> QED BY <1>2, <2>1, <2>2, <2>3 DEF Client
<1>3. CASE GateStep
  <2>1. ASSUME NEW s \in Clients, OnClosed(s) PROVE UNCHANGED Abstract!vars
    BY <2>1, ErasedStep
  <2>2. ASSUME NEW s \in Clients, SocketCloses(s) PROVE Abstract!Next \/ UNCHANGED Abstract!vars
    BY <2>2, LeaveStep DEF Abstract!Next
  <2>3. ASSUME NEW g \in Gates, GateLoggedIn(g) PROVE Abstract!Next
    BY <2>3, EnterStep DEF Abstract!Next
  <2>4. ASSUME NEW g \in Gates, NEW l \in Logins, OnLoginQuque(g, l) PROVE UNCHANGED Abstract!vars
    BY <2>4, Unseen DEF OnLoginQuque, lobby_vars
  <2>5. ASSUME NEW g \in Gates, NEW l \in Logins, GateRefused(g, l) PROVE Abstract!Next
    BY <2>5, RefuseStep DEF Abstract!Next
  <2>6. ASSUME NEW g \in Gates, NEW l \in Logins, GateKick(g, l)
        PROVE  Abstract!Next \/ UNCHANGED Abstract!vars
    BY <2>6, KickStep DEF Abstract!Next
  <2> QED BY <1>3, <2>1, <2>2, <2>3, <2>4, <2>5, <2>6 DEF GateStep
<1>4. CASE LoginStep \/ RedisStep \/ DbStep
  <2>1. UNCHANGED <<gate_vars, lobby_vars>>
    BY <1>4 DEF LoginStep, OnClLogin, OnSLogout, OnLKickClient, OnDlVerifyAccountResult, LoginReceives,
         ReplyVerify, ReplyNotify, ReplyNoLobby, ReplyKick,
         RedisStep, RunLogin, RunGetOther, RunTakeover, RunHsetTemp, RunHdelInfo, RunKicked, RunLogout,
         RunForget, RunWhere, RunVerified, RunReconnect, RunEnter, RunRefused, DbStep, DbReceives, DbAnswer
  <2> QED BY <2>1, Unseen DEF gate_vars, lobby_vars
<1>5. CASE LobbyStep
  <2>1. ASSUME NEW l \in Logins, LobbyNotify(l) PROVE Abstract!Next
    BY <2>1, AdmitStep DEF Abstract!Next
  <2>2. ASSUME NEW y \in Gates \union Logins, LobbyLogout(y) PROVE Abstract!Next
    BY <2>2, ReleaseStep DEF Abstract!Next
  <2>3. ASSUME LobbyRedis PROVE UNCHANGED Abstract!vars
    BY <2>3, Unseen DEF LobbyRedis, gate_vars
  <2> QED BY <1>5, <2>1, <2>2, <2>3 DEF LobbyStep
<1> QED BY <1>1, <1>2, <1>3, <1>4, <1>5, NoFault DEF Next

LEMMA InitPromise == Init => Abstract!Init
BY DEF Init, Abstract!Init, Client_st, NoPlayer

\* The cluster, whatever its size, does what AccountPromise says and nothing else,
\* where no two gates give sessions of the account the same number.
THEOREM PromiseSafe == ASSUME OneByOne PROVE Spec /\ []~Confused => Abstract!Safety
<1>1. IType /\ Serial /\ [Next]_vars => [Abstract!Next]_(Abstract!vars)
  BY StepPromise
<1> QED BY <1>1, InitPromise, Serially, PTL DEF Spec, Abstract!Safety
=============================================================================
