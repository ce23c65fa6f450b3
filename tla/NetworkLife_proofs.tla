-------------------------- MODULE NetworkLife_proofs --------------------------
(***************************************************************************)
(* Proofs about the two ends of a connection between servers and with      *)
(* clients.  NetworkAllocator, the accepting end, for any set of socket    *)
(* numbers and any number of connections: on_closed() comes at most once   *)
(* for a session, no session is forgotten unless a socket number was used  *)
(* again too early, and with the same exception stopping closes every      *)
(* session.  NetworkConnectSession, the connecting end, for any number of  *)
(* failures of the peer: at most one attempt is outstanding, a connected   *)
(* session uses no socket that is being connected, a connecting one has an *)
(* attempt, and the timeout closes no connection whose peer is alive.      *)
(***************************************************************************)
EXTENDS NetworkAllocator, NetworkConnectSession, TLAPS

-----------------------------------------------------------------------------
(* The accepting end: NetworkAllocator. *)

\* The table holds sessions that are allocated, under their own socket number,
\* and that have had no on_closed().
Table ==
    \A i \in Ids : session[i] # None =>
        session[i] \in Allocated /\ id[session[i]] = i /\ notified[session[i]] = 0

\* A session has a number before it is entered, and no on_closed().
Accepted ==
    /\ acceptor # "idle" => created \in Sessions
    /\ acceptor = "created" => id[created] \in Ids
    /\ \A s \in Sessions : s \notin Allocated => notified[s] = 0

\* What a loop of tick() has still to visit is in the table: mutex_ keeps alloc()
\* out, and an entry is erased by its own visit only.
Visits == visit \subseteq Used

\* A session that had its on_closed() from a tick is closed.
NotifiedClosed ==
    main # "released" => \A s \in Sessions : notified[s] > 0 => s \notin open

Ended == main = "released" => ~is_run

IInv ==
    /\ TypeOK /\ Table /\ Accepted /\ Visits /\ NotifiedClosed /\ Ended
    /\ NotifiedOnce /\ NoneForgotten

USE AllocatorAssumption DEF AllocatorAssumption, Sessions, None

LEMMA InitInv == Init => IInv
<1> SUFFICES ASSUME Init PROVE IInv
  OBVIOUS
<1> USE DEF Init
<1>1. TypeOK
  <2>1. session \in [Ids -> Sessions \union {None}] /\ id \in [Sessions -> Ids \union {None}]
    OBVIOUS
  <2>2. created \in 0..MaxSessions /\ notified \in [Sessions -> Nat]
    OBVIOUS
  <2> QED BY <2>1, <2>2, Zenon DEF TypeOK, Unlocked
<1>2. Table /\ Accepted /\ Visits /\ NotifiedClosed /\ Ended
  BY DEF Table, Accepted, Visits, NotifiedClosed, Ended, Used
<1>3. NotifiedOnce /\ NoneForgotten
  BY DEF NotifiedOnce, NoneForgotten, Allocated
<1> QED BY <1>1, <1>2, <1>3 DEF IInv

\* A step that leaves the table, the counts of on_closed() and the acceptor alone,
\* and opens no socket, keeps what the invariant says of them.
LEMMA Frame ==
    ASSUME IInv, UNCHANGED <<life, acceptor>>, open' \subseteq open,
           main' = "released" <=> main = "released"
    PROVE  Table' /\ Accepted' /\ NotifiedClosed' /\ NotifiedOnce' /\ NoneForgotten'
<1> USE DEF life
<1>1. Used' = Used /\ Allocated' = Allocated /\ Entered' = Entered
  BY DEF Used, Allocated, Entered
<1>2. Table' /\ Accepted'
  BY <1>1 DEF IInv, Table, Accepted
<1>3. NotifiedClosed' /\ NotifiedOnce'
  BY DEF IInv, NotifiedClosed, NotifiedOnce
<1>4. NoneForgotten'
  BY <1>1 DEF IInv, NoneForgotten
<1> QED BY <1>2, <1>3, <1>4

LEMMA AcceptorInv == IInv /\ Acceptor => IInv'
<1> SUFFICES ASSUME IInv, Acceptor PROVE IInv'
  OBVIOUS
<1>1. ASSUME NEW i \in Ids, Accept(i) PROVE IInv'
  <2> USE <1>1 DEF Accept
  <2>0. /\ created + 1 \in Sessions /\ created + 1 \notin Allocated
        /\ id' = [id EXCEPT ![created + 1] = i]
    BY DEF IInv, TypeOK, Allocated
  <2>1. Used' = Used /\ Allocated' = Allocated /\ Entered' = Entered
    BY DEF IInv, TypeOK, Used, Allocated, Entered
  <2>2. TypeOK'
    BY <2>0 DEF IInv, TypeOK, Unlocked
  <2>3. Table'
    <3> SUFFICES ASSUME NEW j \in Ids, session[j] # None
                 PROVE  session[j] \in Allocated /\ id'[session[j]] = j /\ notified[session[j]] = 0
      BY <2>1 DEF Table
    <3>1. session[j] \in Allocated /\ id[session[j]] = j /\ notified[session[j]] = 0
      BY DEF IInv, Table
    <3>2. session[j] \in Sessions /\ session[j] # created + 1
      BY <2>0, <3>1 DEF IInv, TypeOK
    <3> QED BY <2>0, <3>1, <3>2 DEF IInv, TypeOK
  <2>4. Accepted'
    BY <2>0, <2>1 DEF IInv, TypeOK, Accepted
  <2>5. Visits' /\ Ended'
    BY <2>1 DEF IInv, Visits, Ended
  <2>6. NotifiedClosed' /\ NotifiedOnce'
    BY <2>0 DEF IInv, Accepted, NotifiedClosed, NotifiedOnce
  <2>7. NoneForgotten'
    BY <2>1 DEF IInv, NoneForgotten
  <2> QED BY <2>2, <2>3, <2>4, <2>5, <2>6, <2>7 DEF IInv
<1>2. CASE Alloc
  <2> USE <1>2 DEF Alloc
  <2>0. /\ created \in Sessions /\ id[created] \in Ids /\ notified[created] = 0
        /\ created \notin Allocated /\ Allocated' = Allocated \union {created}
    <3>1. created \in Sessions /\ id[created] \in Ids
      BY DEF IInv, Accepted
    <3>2. created \notin Allocated /\ Allocated' = Allocated \union {created}
      BY <3>1 DEF Allocated
    <3> QED BY <3>1, <3>2 DEF IInv, Accepted
  <2>1. CASE session[id[created]] # None
    <3>1. session' = session
      BY <2>1, <2>0 DEF Insert, IInv, TypeOK
    <3>2. reused' = TRUE
      BY <2>1, Zenon
    <3>3. TypeOK'
      BY <3>1, <3>2 DEF IInv, TypeOK, Unlocked
    <3>4. Table' /\ Accepted'
      BY <2>0, <3>1 DEF IInv, Table, Accepted
    <3>5. Visits' /\ NotifiedClosed' /\ Ended' /\ NotifiedOnce' /\ NoneForgotten'
      BY <3>1, <3>2 DEF IInv, Visits, NotifiedClosed, Ended, NotifiedOnce, NoneForgotten, Used
    <3> QED BY <3>3, <3>4, <3>5 DEF IInv
  <2>2. CASE session[id[created]] = None
    <3>1. session' = [session EXCEPT ![id[created]] = created]
      BY <2>2, <2>0 DEF Insert, IInv, TypeOK
    <3>2. reused' = reused
      <4>1. reused \in BOOLEAN
        BY DEF IInv, TypeOK
      <4> QED BY <2>2, <4>1, Zenon
    <3>3. TypeOK'
      BY <2>0, <3>1, <3>2 DEF IInv, TypeOK, Unlocked
    <3>4. Table' /\ Accepted'
      BY <2>0, <3>1 DEF IInv, TypeOK, Table, Accepted
    <3>5. Visits' /\ NotifiedClosed' /\ Ended' /\ NotifiedOnce'
      BY <2>0, <3>1 DEF IInv, TypeOK, Visits, NotifiedClosed, Ended, NotifiedOnce, Used
    <3>6. Entered \union {created} \subseteq Entered'
      <4>1. created \in Entered'
        <5>1. id[created] \in Ids /\ session'[id[created]] = created /\ created # None
          BY <2>0, <3>1 DEF IInv, TypeOK
        <5> QED BY <5>1, Zenon DEF Entered, Used
      <4>2. ASSUME NEW j \in Used PROVE session[j] \in Entered'
        <5>1. j \in Ids /\ j # id[created]
          BY <4>2, <2>2 DEF Used
        <5>2. session'[j] = session[j] /\ j \in Used'
          BY <4>2, <3>1, <5>1 DEF IInv, TypeOK, Used
        <5> QED BY <5>2 DEF Entered
      <4> QED BY <4>1, <4>2 DEF Entered
    <3>7. NoneForgotten'
      BY <2>0, <3>2, <3>6 DEF IInv, NoneForgotten
    <3> QED BY <3>3, <3>4, <3>5, <3>7 DEF IInv
  <2> QED BY <2>1, <2>2
<1>3. CASE Start
  <2> USE <1>3 DEF Start, life
  <2>1. Allocated' = Allocated /\ Used' = Used /\ Entered' = Entered
    BY DEF Allocated, Used, Entered
  <2>2. TypeOK'
    BY DEF IInv, TypeOK, Accepted, Unlocked
  <2>3. Table' /\ Accepted'
    BY <2>1 DEF IInv, Table, Accepted
  <2>4. Visits' /\ NotifiedClosed' /\ Ended' /\ NotifiedOnce' /\ NoneForgotten'
    BY <2>1 DEF IInv, Visits, NotifiedClosed, Ended, NotifiedOnce, NoneForgotten
  <2> QED BY <2>2, <2>3, <2>4 DEF IInv
<1> QED BY <1>1, <1>2, <1>3 DEF Acceptor

\* The io threads close sockets; so does a timeout; stopping and the handlers that
\* dispatch() calls only post a do_close.
LEMMA CloseInv ==
    ASSUME IInv, Io \/ Stop \/ StopRun \/ \E i \in Ids : TickOpen(i) \/ Dispatch(i)
    PROVE  IInv'
<1>1. /\ UNCHANGED <<life, acceptor, main>> /\ visit' \subseteq visit
      /\ reading' \subseteq reading /\ is_run' \in {is_run, FALSE}
  BY DEF Io, ReadFails, DoClose, Stop, StopRun, TickOpen, Dispatch, life
<1>2. open' \subseteq open
  BY DEF Io, ReadFails, DoClose, Stop, StopRun, TickOpen, Dispatch
<1>3. closing' \subseteq Sessions
  BY DEF Io, ReadFails, DoClose, Stop, StopRun, TickOpen, Dispatch, CloseAll, Close, IInv, TypeOK
<1>4. closed_all' \in BOOLEAN
  BY DEF Io, ReadFails, DoClose, Stop, StopRun, TickOpen, Dispatch, IInv, TypeOK
<1>5. TypeOK'
  <2>1. (Unlocked => visit = {}) /\ is_run' \in BOOLEAN
    BY <1>1 DEF IInv, TypeOK
  <2> QED BY <1>1, <1>2, <1>3, <1>4, <2>1 DEF IInv, TypeOK, Unlocked, life
<1>6. Table' /\ Accepted' /\ NotifiedClosed' /\ NotifiedOnce' /\ NoneForgotten'
  BY <1>1, <1>2, Frame
<1>7. Visits' /\ Ended'
  <2>1. Used' = Used
    BY <1>1 DEF Used, life
  <2>2. Visits'
    BY <1>1, <2>1, Zenon DEF IInv, Visits
  <2>3. Ended'
    BY <1>1, Zenon DEF IInv, Ended
  <2> QED BY <2>2, <2>3
<1> QED BY <1>5, <1>6, <1>7 DEF IInv
LEMMA TickClosedInv == ASSUME IInv, NEW i \in Ids, TickClosed(i) PROVE IInv'
<1> USE DEF TickClosed, Notify, Erase
<1>0. /\ i \in Used /\ session[i] \in Sessions /\ session[i] \notin open
      /\ session[i] \in Allocated /\ notified[session[i]] = 0
      /\ \A j \in Used : j # i => session[j] # session[i]
  BY DEF IInv, TypeOK, Visits, Used, Table
<1>1. /\ session' = [session EXCEPT ![i] = None]
      /\ notified' = [notified EXCEPT ![session[i]] = 1]
  BY <1>0 DEF IInv, TypeOK
<1>2. Used' = Used \ {i} /\ Allocated' = Allocated
  BY <1>1 DEF IInv, TypeOK, Used, Allocated
<1>3. Entered \ {session[i]} \subseteq Entered'
  <2> SUFFICES ASSUME NEW j \in Used, session[j] # session[i] PROVE session[j] \in Entered'
    BY DEF Entered
  <2>1. j \in Used' /\ session'[j] = session[j]
    BY <1>1, <1>2 DEF IInv, TypeOK, Used
  <2> QED BY <2>1, Zenon DEF Entered
<1>4. TypeOK'
  BY <1>0, <1>1 DEF IInv, TypeOK, Unlocked
<1>5. Table'
  <2> SUFFICES ASSUME NEW j \in Used'
               PROVE  session'[j] \in Allocated' /\ id'[session'[j]] = j /\ notified'[session'[j]] = 0
    BY DEF Table, Used
  <2>1. j \in Used /\ j # i /\ session'[j] = session[j] /\ session[j] # session[i]
    BY <1>0, <1>1, <1>2 DEF IInv, TypeOK, Used
  <2>2. session[j] \in Sessions /\ session[j] \in Allocated /\ id[session[j]] = j /\ notified[session[j]] = 0
    BY <2>1 DEF IInv, TypeOK, Table, Used
  <2> QED BY <1>1, <1>2, <2>1, <2>2 DEF IInv, TypeOK
<1>6. Accepted'
  BY <1>0, <1>1, <1>2 DEF IInv, TypeOK, Accepted
<1>7. Visits' /\ Ended'
  BY <1>2 DEF IInv, Visits, Ended
<1>8. NotifiedClosed' /\ NotifiedOnce'
  BY <1>0, <1>1 DEF IInv, TypeOK, NotifiedClosed, NotifiedOnce
<1>9. NoneForgotten'
  <2> SUFFICES ASSUME ~reused, NEW s \in Allocated, notified'[s] = 0 PROVE s \in Entered'
    BY <1>2 DEF NoneForgotten
  <2>1. s \in Sessions /\ s # session[i] /\ notified[s] = 0
    BY <1>0, <1>1 DEF IInv, TypeOK, Allocated
  <2> QED BY <1>3, <2>1 DEF IInv, NoneForgotten
<1> QED BY <1>4, <1>5, <1>6, <1>7, <1>8, <1>9 DEF IInv

\* The beginning and the end of the loops of tick().
LEMMA LoopInv == IInv /\ (TickBegin \/ DispatchBegin \/ DispatchEnd) => IInv'
<1> SUFFICES ASSUME IInv, TickBegin \/ DispatchBegin \/ DispatchEnd PROVE IInv'
  OBVIOUS
<1> USE DEF TickBegin, DispatchBegin, DispatchEnd
<1>1. /\ UNCHANGED <<life, acceptor, open, reading, closing, is_run, closed_all>>
      /\ visit' \in {Used, {}} /\ main' \in {"idle", "tick", "dispatch"} /\ main # "released"
      /\ main' = "idle" => visit' = {}
  OBVIOUS
<1>2. TypeOK'
  BY <1>1 DEF IInv, TypeOK, Unlocked, Used, life
<1>3. Table' /\ Accepted' /\ NotifiedClosed' /\ NotifiedOnce' /\ NoneForgotten'
  BY <1>1, Frame
<1>4. Visits' /\ Ended'
  BY <1>1 DEF IInv, Visits, Ended, Used, life
<1> QED BY <1>2, <1>3, <1>4 DEF IInv

LEMMA ReleaseInv == IInv /\ ReleaseAll => IInv'
<1> SUFFICES ASSUME IInv, ReleaseAll PROVE IInv'
  OBVIOUS
<1> USE DEF ReleaseAll
<1>1. Used' = {} /\ Allocated' = Allocated /\ Allocated \subseteq Sessions
  BY DEF IInv, TypeOK, Used, Allocated
<1>2. \A s \in Sessions : notified'[s] = IF s \in Entered THEN 1 ELSE notified[s]
  <2>1. \A s \in Entered : notified[s] = 0 /\ s \in Allocated
    BY DEF IInv, Table, Entered, Used
  <2> QED BY <2>1 DEF Entered
<1>3. TypeOK'
  <2>1. notified' \in [Sessions -> Nat]
    BY DEF IInv, TypeOK
  <2>2. session' \in [Ids -> Sessions \union {None}] /\ visit' = {}
    BY DEF IInv, TypeOK, Unlocked
  <2> QED BY <2>1, <2>2 DEF IInv, TypeOK
<1>4. Table' /\ Visits'
  BY DEF IInv, TypeOK, Unlocked, Table, Visits, Used
<1>5. Accepted'
  <2>1. Entered \subseteq Allocated
    BY DEF IInv, Table, Entered, Used
  <2> QED BY <1>1, <1>2, <2>1 DEF IInv, Accepted
<1>6. NotifiedClosed' /\ Ended' /\ NotifiedOnce'
  BY <1>2 DEF IInv, NotifiedClosed, Ended, NotifiedOnce
<1>7. NoneForgotten'
  <2>1. ASSUME ~reused, NEW s \in Allocated PROVE notified'[s] # 0
    <3>1. s \in Sessions
      BY <1>1
    <3>2. notified[s] = 0 => s \in Entered
      BY <2>1 DEF IInv, NoneForgotten
    <3> QED BY <1>2, <3>1, <3>2
  <2> QED BY <1>1, <2>1 DEF NoneForgotten
<1> QED BY <1>3, <1>4, <1>5, <1>6, <1>7 DEF IInv

LEMMA NextInv == IInv /\ [Next]_vars => IInv'
<1> SUFFICES ASSUME IInv, [Next]_vars PROVE IInv'
  OBVIOUS
<1>1. CASE Acceptor
  BY <1>1, AcceptorInv
<1>2. CASE Io \/ Stop \/ StopRun
  BY <1>2, CloseInv
<1>3. CASE Tick
  BY <1>3, CloseInv, TickClosedInv, LoopInv DEF Tick
<1>4. CASE ReleaseAll
  BY <1>4, ReleaseInv
<1>5. CASE UNCHANGED vars
  <2>1. UNCHANGED <<life, acceptor, open, reading, closing, is_run, closed_all, main, visit>>
    BY <1>5 DEF vars, life
  <2>2. Table' /\ Accepted' /\ NotifiedClosed' /\ NotifiedOnce' /\ NoneForgotten'
    BY <2>1, Frame
  <2>3. TypeOK' /\ Visits' /\ Ended'
    BY <2>1 DEF IInv, TypeOK, Unlocked, Visits, Ended, Used, life
  <2> QED BY <2>2, <2>3 DEF IInv
<1> QED BY <1>1, <1>2, <1>3, <1>4, <1>5 DEF Next

LEMMA Invariance == Spec => []IInv
  BY InitInv, NextInv, PTL DEF Spec

-----------------------------------------------------------------------------
(* Theorems about NetworkAllocator. *)

\* Every variable has its type, and whenever the logic thread does not hold mutex_
\* no loop of tick() has an entry left to visit (NetworkAllocator::tick).
THEOREM TypeCorrect == Spec => []TypeOK
<1>1. IInv => TypeOK
  BY DEF IInv
<1> QED BY <1>1, Invariance, PTL

\* However accepts, closes, timeouts, ticks and the end of the server interleave,
\* on_closed() is called at most once for a session.
THEOREM NotifiedOnceSafe == Spec => []NotifiedOnce
<1>1. IInv => NotifiedOnce
  BY DEF IInv
<1> QED BY <1>1, Invariance, PTL

\* Unless alloc() found the number of a socket taken, a session whose alloc() has
\* returned is in the table until its on_closed().
THEOREM NoneForgottenSafe == Spec => []NoneForgotten
<1>1. IInv => NoneForgotten
  BY DEF IInv
<1> QED BY <1>1, Invariance, PTL

\* With the same exception, close_all_session() posts a do_close for every session
\* that is open.
THEOREM StopClosesAllSafe == Spec => StopClosesAll
<1>1. IInv /\ [Next]_vars =>
        (~closed_all /\ closed_all' /\ ~reused => Allocated \intersect open \subseteq closing')
  <2> SUFFICES ASSUME IInv, [Next]_vars, ~closed_all, closed_all', ~reused,
                      NEW s \in Allocated \intersect open
               PROVE  s \in closing'
    OBVIOUS
  <2>1. Stop
    BY DEF Next, vars, Acceptor, Accept, Alloc, Start, Io, ReadFails, DoClose, Tick, TickBegin,
           TickOpen, TickClosed, DispatchBegin, Dispatch, DispatchEnd, StopRun, ReleaseAll
  <2>2. s \in Sessions /\ main # "released"
    BY <2>1 DEF Stop, IInv, TypeOK, Ended
  <2>3. notified[s] = 0
    BY <2>2 DEF IInv, TypeOK, NotifiedClosed
  <2>4. s \in Entered
    BY <2>3 DEF IInv, NoneForgotten
  <2> QED BY <2>1, <2>4 DEF Stop, CloseAll, Close, Entered
<1> QED BY <1>1, Invariance, PTL DEF Spec, StopClosesAll

-----------------------------------------------------------------------------
(* The connecting end: NetworkConnectSession. *)

\* The state in which an attempt, or the handler of one that succeeded, may be
\* outstanding: tick() has not reached the exchange, or has made it.
Underway ==
    \/ /\ logic = "exchange" /\ connect_state = old_state
       /\ connect_state \in {"INVALID", "DISCONNECT"}
    \/ logic = "idle" /\ connect_state = "CONNECTING"

Attempt ==
    /\ attempts > 0 => Underway /\ io # "on_connect"
    /\ io = "on_connect" => Underway /\ socket = "open"
    /\ connect_state = "CONNECTED" => socket # "connecting"
    /\ logic = "exchange" => connect_state # "CONNECTING" /\ old_state # "CONNECTED"

\* What was heard belongs to the connection that is up.
Silence ==
    /\ connect_state # "CONNECTED" => ~heard /\ ~late
    /\ late => ~alive

\* Without fast failures the exchange finds the attempt outstanding, succeeded,
\* or the state already moved on.
Progress ==
    ~FailsFast /\ (logic = "exchange" \/ connect_state = "CONNECTING") =>
        attempts > 0 \/ io = "on_connect" \/ connect_state = "CONNECTED"
          \/ (logic = "exchange" /\ connect_state # old_state)

ConnectInv == ConnectTypeOK /\ Attempt /\ Silence /\ Progress

USE ConnectAssumption DEF ConnectAssumption

LEMMA ConnectInitInv == ConnectInit => ConnectInv
<1> SUFFICES ASSUME ConnectInit PROVE ConnectInv
  OBVIOUS
<1>1. ConnectTypeOK
  <2>1. 0 \in 0..1 /\ 0 \in 0..MaxFaults
    OBVIOUS
  <2> QED BY <2>1, Zenon DEF ConnectInit, ConnectTypeOK, States
<1>2. Attempt /\ Progress
  BY DEF ConnectInit, Attempt, Underway, Progress
<1>3. Silence
  BY Zenon DEF ConnectInit, Silence
<1> QED BY <1>1, <1>2, <1>3 DEF ConnectInv

LEMMA ConnectTickInv == ConnectInv /\ ConnectTick => ConnectInv'
<1> SUFFICES ASSUME ConnectInv, ConnectTick PROVE ConnectInv'
  OBVIOUS
<1> USE DEF clocks, remote
<1>1. CASE TickConnect
  <2>1. ConnectTypeOK'
    <3>1. attempts' \in 0..1
      <4>1. ~Underway
        BY <1>1, Zenon DEF TickConnect, Underway
      <4>2. attempts = 0
        BY <4>1 DEF ConnectInv, ConnectTypeOK, Attempt
      <4> QED BY <1>1, <4>2 DEF TickConnect
    <3> QED BY <1>1, <3>1, Zenon DEF ConnectInv, ConnectTypeOK, States, TickConnect
  <2>2. Attempt'
    BY <1>1 DEF ConnectInv, ConnectTypeOK, Attempt, Underway, TickConnect
  <2>3. Silence'
    BY <1>1 DEF ConnectInv, ConnectTypeOK, Attempt, Underway, Silence, TickConnect
  <2>4. Progress'
    BY <1>1 DEF ConnectInv, ConnectTypeOK, Attempt, Underway, Progress, TickConnect
  <2> QED BY <2>1, <2>2, <2>3, <2>4 DEF ConnectInv
<1>2. CASE TickExchange
  <2>1. ConnectTypeOK'
    BY <1>2 DEF ConnectInv, ConnectTypeOK, States, Attempt, Underway, TickExchange, CompareExchange
  <2>2. Attempt'
    <3>1. attempts' = attempts /\ io' = io /\ socket' = socket /\ logic = "exchange"
          /\ logic' = "idle" /\ old_state \in States /\ connect_state \in States
      BY <1>2, Zenon DEF TickExchange, ConnectInv, ConnectTypeOK
    <3>2. connect_state # "CONNECTING" /\ old_state # "CONNECTED"
      BY <3>1, Zenon DEF ConnectInv, Attempt
    <3>3. connect_state' = IF connect_state = old_state THEN "CONNECTING" ELSE connect_state
      BY <1>2 DEF TickExchange, CompareExchange
    <3>4. Underway => Underway'
      BY <3>1, <3>2, <3>3 DEF Underway, States
    <3>5. connect_state' = "CONNECTED" => connect_state = "CONNECTED"
      BY <3>3
    <3> QED BY <3>1, <3>4, <3>5 DEF ConnectInv, Attempt
  <2>3. Silence'
    BY <1>2 DEF ConnectInv, ConnectTypeOK, Attempt, Underway, Silence, TickExchange, CompareExchange
  <2>4. Progress'
    BY <1>2 DEF ConnectInv, ConnectTypeOK, Attempt, Underway, Progress, TickExchange, CompareExchange
  <2> QED BY <2>1, <2>2, <2>3, <2>4 DEF ConnectInv
<1>3. CASE TickHear
  <2>1. ConnectTypeOK'
    BY <1>3 DEF ConnectInv, ConnectTypeOK, States, Attempt, Underway, TickHear
  <2>2. Attempt'
    BY <1>3 DEF ConnectInv, ConnectTypeOK, Attempt, Underway, TickHear
  <2>3. Silence'
    BY <1>3 DEF ConnectInv, ConnectTypeOK, Attempt, Underway, Silence, TickHear
  <2>4. Progress'
    BY <1>3 DEF ConnectInv, ConnectTypeOK, Attempt, Underway, Progress, TickHear
  <2> QED BY <2>1, <2>2, <2>3, <2>4 DEF ConnectInv
<1>4. CASE TickTimeout
  <2>1. ConnectTypeOK'
    BY <1>4 DEF ConnectInv, ConnectTypeOK, States, Attempt, Underway, TickTimeout
  <2>2. Attempt'
    BY <1>4 DEF ConnectInv, ConnectTypeOK, Attempt, Underway, TickTimeout
  <2>3. Silence'
    BY <1>4 DEF ConnectInv, ConnectTypeOK, Attempt, Underway, Silence, TickTimeout
  <2>4. Progress'
    BY <1>4 DEF ConnectInv, ConnectTypeOK, Attempt, Underway, Progress, TickTimeout
  <2> QED BY <2>1, <2>2, <2>3, <2>4 DEF ConnectInv
<1>5. CASE TickLost
  <2>1. ConnectTypeOK'
    BY <1>5 DEF ConnectInv, ConnectTypeOK, States, Attempt, Underway, TickLost, OnClosed
  <2>2. Attempt'
    BY <1>5 DEF ConnectInv, ConnectTypeOK, Attempt, Underway, TickLost, OnClosed
  <2>3. Silence'
    BY <1>5 DEF ConnectInv, ConnectTypeOK, Attempt, Underway, Silence, TickLost, OnClosed
  <2>4. Progress'
    BY <1>5 DEF ConnectInv, ConnectTypeOK, Attempt, Underway, Progress, TickLost, OnClosed
  <2> QED BY <2>1, <2>2, <2>3, <2>4 DEF ConnectInv
<1> QED BY <1>1, <1>2, <1>3, <1>4, <1>5 DEF ConnectTick

LEMMA ConnectIoInv == ConnectInv /\ ConnectIo => ConnectInv'
<1> SUFFICES ASSUME ConnectInv, ConnectIo PROVE ConnectInv'
  OBVIOUS
<1> USE DEF clocks, remote
<1>1. CASE ConnectOk
  <2>1. ConnectTypeOK'
    BY <1>1 DEF ConnectInv, ConnectTypeOK, States, Attempt, Underway, ConnectOk
  <2>2. Attempt'
    BY <1>1 DEF ConnectInv, ConnectTypeOK, Attempt, Underway, ConnectOk
  <2>3. Silence'
    BY <1>1 DEF ConnectInv, ConnectTypeOK, Attempt, Underway, Silence, ConnectOk
  <2>4. Progress'
    BY <1>1 DEF ConnectInv, ConnectTypeOK, Attempt, Underway, Progress, ConnectOk
  <2> QED BY <2>1, <2>2, <2>3, <2>4 DEF ConnectInv
<1>2. CASE OnConnect
  <2>1. ConnectTypeOK'
    BY <1>2 DEF ConnectInv, ConnectTypeOK, States, Attempt, Underway, OnConnect
  <2>2. Attempt'
    BY <1>2 DEF ConnectInv, ConnectTypeOK, Attempt, Underway, OnConnect
  <2>3. Silence'
    BY <1>2 DEF ConnectInv, ConnectTypeOK, Attempt, Underway, Silence, OnConnect
  <2>4. Progress'
    BY <1>2 DEF ConnectInv, ConnectTypeOK, Attempt, Underway, Progress, OnConnect
  <2> QED BY <2>1, <2>2, <2>3, <2>4 DEF ConnectInv
<1>3. CASE OnConnectFailed
  <2>1. ConnectTypeOK'
    <3>1. attempts' \in 0..1
      BY <1>3 DEF ConnectInv, ConnectTypeOK, OnConnectFailed
    <3> QED BY <1>3, <3>1, Zenon DEF ConnectInv, ConnectTypeOK, States, OnConnectFailed
  <2>2. Attempt'
    BY <1>3 DEF ConnectInv, ConnectTypeOK, Attempt, Underway, OnConnectFailed
  <2>3. Silence'
    BY <1>3 DEF ConnectInv, ConnectTypeOK, Attempt, Underway, Silence, OnConnectFailed
  <2>4. Progress'
    BY <1>3 DEF ConnectInv, ConnectTypeOK, Attempt, Underway, Progress, OnConnectFailed
  <2> QED BY <2>1, <2>2, <2>3, <2>4 DEF ConnectInv
<1>4. CASE FailedClose
  <2>1. ConnectTypeOK'
    BY <1>4 DEF ConnectInv, ConnectTypeOK, States, Attempt, Underway, FailedClose
  <2>2. Attempt'
    BY <1>4 DEF ConnectInv, ConnectTypeOK, Attempt, Underway, FailedClose
  <2>3. Silence'
    BY <1>4 DEF ConnectInv, ConnectTypeOK, Attempt, Underway, Silence, FailedClose
  <2>4. Progress'
    BY <1>4 DEF ConnectInv, ConnectTypeOK, Attempt, Underway, Progress, FailedClose
  <2> QED BY <2>1, <2>2, <2>3, <2>4 DEF ConnectInv
<1>5. CASE SocketError
  <2>1. ConnectTypeOK'
    BY <1>5 DEF ConnectInv, ConnectTypeOK, States, Attempt, Underway, SocketError
  <2>2. Attempt'
    BY <1>5 DEF ConnectInv, ConnectTypeOK, Attempt, Underway, SocketError
  <2>3. Silence'
    BY <1>5 DEF ConnectInv, ConnectTypeOK, Attempt, Underway, Silence, SocketError
  <2>4. Progress'
    BY <1>5 DEF ConnectInv, ConnectTypeOK, Attempt, Underway, Progress, SocketError
  <2> QED BY <2>1, <2>2, <2>3, <2>4 DEF ConnectInv
<1> QED BY <1>1, <1>2, <1>3, <1>4, <1>5 DEF ConnectIo

LEMMA ConnectStepInv == ConnectInv /\ [ConnectNext]_connect_vars => ConnectInv'
<1> SUFFICES ASSUME ConnectInv, [ConnectNext]_connect_vars PROVE ConnectInv'
  OBVIOUS
<1>1. CASE ConnectTick
  BY <1>1, ConnectTickInv
<1>2. CASE ConnectIo
  BY <1>2, ConnectIoInv
<1> USE DEF clocks, remote
<1>3. CASE RetryDue
  <2>1. ConnectTypeOK'
    BY <1>3 DEF ConnectInv, ConnectTypeOK, States, Attempt, Underway, RetryDue
  <2>2. Attempt'
    BY <1>3 DEF ConnectInv, ConnectTypeOK, Attempt, Underway, RetryDue
  <2>3. Silence'
    BY <1>3 DEF ConnectInv, ConnectTypeOK, Attempt, Underway, Silence, RetryDue
  <2>4. Progress'
    BY <1>3 DEF ConnectInv, ConnectTypeOK, Attempt, Underway, Progress, RetryDue
  <2> QED BY <2>1, <2>2, <2>3, <2>4 DEF ConnectInv
<1>4. CASE SilenceDue
  <2>1. ConnectTypeOK'
    BY <1>4 DEF ConnectInv, ConnectTypeOK, States, Attempt, Underway, SilenceDue
  <2>2. Attempt'
    BY <1>4 DEF ConnectInv, ConnectTypeOK, Attempt, Underway, SilenceDue
  <2>3. Silence'
    BY <1>4 DEF ConnectInv, ConnectTypeOK, Attempt, Underway, Silence, SilenceDue
  <2>4. Progress'
    BY <1>4 DEF ConnectInv, ConnectTypeOK, Attempt, Underway, Progress, SilenceDue
  <2> QED BY <2>1, <2>2, <2>3, <2>4 DEF ConnectInv
<1>5. CASE PeerFails
  <2>1. ConnectTypeOK'
    <3>1. faults' \in 0..MaxFaults
      BY <1>5 DEF ConnectInv, ConnectTypeOK, PeerFails
    <3>2. peer' \in {"up", "down", "hung"}
      BY <1>5 DEF PeerFails
    <3> QED BY <1>5, <3>1, <3>2, Zenon DEF ConnectInv, ConnectTypeOK, States, PeerFails
  <2>2. Attempt'
    BY <1>5 DEF ConnectInv, ConnectTypeOK, Attempt, Underway, PeerFails
  <2>3. Silence'
    BY <1>5 DEF ConnectInv, ConnectTypeOK, Attempt, Underway, Silence, PeerFails
  <2>4. Progress'
    BY <1>5 DEF ConnectInv, ConnectTypeOK, Attempt, Underway, Progress, PeerFails
  <2> QED BY <2>1, <2>2, <2>3, <2>4 DEF ConnectInv
<1>6. CASE PeerRestarts
  <2>1. ConnectTypeOK'
    BY <1>6 DEF ConnectInv, ConnectTypeOK, States, Attempt, Underway, PeerRestarts
  <2>2. Attempt'
    BY <1>6 DEF ConnectInv, ConnectTypeOK, Attempt, Underway, PeerRestarts
  <2>3. Silence'
    BY <1>6 DEF ConnectInv, ConnectTypeOK, Attempt, Underway, Silence, PeerRestarts
  <2>4. Progress'
    BY <1>6 DEF ConnectInv, ConnectTypeOK, Attempt, Underway, Progress, PeerRestarts
  <2> QED BY <2>1, <2>2, <2>3, <2>4 DEF ConnectInv
<1>7. CASE UNCHANGED connect_vars
  <2>1. ConnectTypeOK'
    BY <1>7 DEF ConnectInv, ConnectTypeOK, States, Attempt, Underway, connect_vars
  <2>2. Attempt'
    BY <1>7 DEF ConnectInv, ConnectTypeOK, Attempt, Underway, connect_vars
  <2>3. Silence'
    BY <1>7 DEF ConnectInv, ConnectTypeOK, Attempt, Underway, Silence, connect_vars
  <2>4. Progress'
    BY <1>7 DEF ConnectInv, ConnectTypeOK, Attempt, Underway, Progress, connect_vars
  <2> QED BY <2>1, <2>2, <2>3, <2>4 DEF ConnectInv
<1> QED BY <1>1, <1>2, <1>3, <1>4, <1>5, <1>6, <1>7 DEF ConnectNext, Time

\* The inductive invariant holds in every reachable state.
THEOREM ConnectInvariance == ConnectSpec => []ConnectInv
BY ConnectInitInv, ConnectStepInv, PTL DEF ConnectSpec

\* However ticks, completions and failures interleave, tick() never has two
\* async_connect operations outstanding.
THEOREM ConnectTypeCorrect == ConnectSpec => []ConnectTypeOK
BY ConnectInvariance, PTL DEF ConnectInv

\* post() and dispatch(), which tick() calls when CONNECTED, never meet a socket
\* that is being connected.
THEOREM ConnectedSafe == ConnectSpec => []ConnectedHasNoAttempt
<1>1. ConnectInv => ConnectedHasNoAttempt
  BY DEF ConnectInv, ConnectTypeOK, Attempt, Underway, ConnectedHasNoAttempt
<1> QED BY <1>1, ConnectInvariance, PTL

\* If no attempt fails before tick() has reached its exchange, CONNECTING never
\* outlives the attempt.
THEOREM ConnectingSafe == ConnectSpec => []ConnectingHasAttempt
<1>1. ConnectInv => ConnectingHasAttempt
  BY DEF ConnectInv, ConnectTypeOK, Attempt, Progress, ConnectingHasAttempt
<1> QED BY <1>1, ConnectInvariance, PTL

\* The timeout of tick() closes only connections whose peer is gone.
THEOREM TimeoutSafe == ConnectSpec => TimeoutOnlyDead
<1>1. ConnectInv /\ [ConnectNext]_connect_vars => [TickTimeout => ~alive]_connect_vars
  BY DEF ConnectInv, Silence, TickTimeout
<1> QED BY <1>1, ConnectInvariance, PTL DEF ConnectSpec, TimeoutOnlyDead
=============================================================================
