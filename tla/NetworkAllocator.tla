--------------------------- MODULE NetworkAllocator ---------------------------
(***************************************************************************)
(* The table of the accepted sessions of a server                          *)
(* (ServerCommon/NetworkServer.cpp), and what happens to a session from    *)
(* its accept to its on_closed.                                            *)
(*                                                                         *)
(* session_ is keyed by the number of the native socket.  The acceptor's   *)
(* io thread enters sessions, the logic thread ticks, dispatches and       *)
(* erases them, the io threads close their sockets.  mutex_ is held by the *)
(* logic thread for the whole of tick(), by the acceptor for the insert    *)
(* only; closing a socket, which gives its number back to the operating    *)
(* system, takes no lock.                                                  *)
(***************************************************************************)
EXTENDS Naturals, FiniteSets

CONSTANTS
    Ids,         \* numbers of native sockets
    MaxSessions  \* bound on the connections accepted in a behaviour

ASSUME AllocatorAssumption ==
    /\ Ids \subseteq Nat \ {0}
    /\ MaxSessions \in Nat \ {0}

Sessions == 1..MaxSessions
None == 0

VARIABLES
    session,    \* session_: the session entered under an id, or None
    id,         \* id_ of each session, None before it is created
    created,    \* the sessions 1..created exist
    open,       \* sessions whose socket is open
    reading,    \* sessions with an async_read outstanding (start() ran)
    closing,    \* sessions with a posted do_close
    acceptor,   \* "idle", "created" before the insert, "allocated" before start()
    main,       \* the logic thread: "idle", "tick", "dispatch" (both under mutex_), "released"
    visit,      \* ids the current loop of tick() has still to visit
    is_run,     \* is_run_
    closed_all, \* close_all_session() has run
    notified,   \* how often on_closed() was called for each session
    reused      \* history: alloc() found its id taken

vars == <<session, id, created, open, reading, closing, acceptor, main, visit,
          is_run, closed_all, notified, reused>>
life == <<session, id, created, notified, reused>>

Init ==
    /\ session = [i \in Ids |-> None]
    /\ id = [s \in Sessions |-> None]
    /\ created = 0 /\ open = {} /\ reading = {} /\ closing = {}
    /\ acceptor = "idle" /\ main = "idle" /\ visit = {}
    /\ is_run = TRUE /\ closed_all = FALSE
    /\ notified = [s \in Sessions |-> 0] /\ reused = FALSE

Used == {i \in Ids : session[i] # None}
Unlocked == main \notin {"tick", "dispatch"}
IoRuns == main # "released"

-----------------------------------------------------------------------------
(* The acceptor's io thread *)

\* A connection arrives: the operating system gives it the number of no open
\* socket, and create_session makes the session.
Accept(i) ==
    /\ IoRuns /\ acceptor = "idle" /\ created < MaxSessions
    /\ i \notin {id[s] : s \in open}
    /\ created' = created + 1
    /\ id' = [id EXCEPT ![created'] = i]
    /\ open' = open \union {created'}
    /\ acceptor' = "created"
    /\ UNCHANGED <<session, reading, closing, main, visit, is_run, closed_all, notified, reused>>

\* unordered_map::insert: an entry that is there stays.
Insert ==
    session' = [session EXCEPT ![id[created]] = IF @ = None THEN created ELSE @]

\* alloc() under mutex_.
Alloc ==
    /\ IoRuns /\ acceptor = "created" /\ Unlocked
    /\ Insert
    /\ reused' = (reused \/ session[id[created]] # None)
    /\ acceptor' = "allocated"
    /\ UNCHANGED <<id, created, open, reading, closing, main, visit, is_run, closed_all, notified>>

\* start(): the first async_read, on whatever the socket is by now.
Start ==
    /\ IoRuns /\ acceptor = "allocated"
    /\ reading' = reading \union {created}
    /\ acceptor' = "idle"
    /\ UNCHANGED <<life, open, closing, main, visit, is_run, closed_all>>

-----------------------------------------------------------------------------
(* The io threads *)

\* The peer closed or the connection failed: handle_read calls do_close.
ReadFails(s) ==
    /\ IoRuns /\ s \in reading
    /\ reading' = reading \ {s}
    /\ open' = open \ {s}
    /\ UNCHANGED <<life, closing, acceptor, main, visit, is_run, closed_all>>

\* The do_close that close() posted.
DoClose(s) ==
    /\ IoRuns /\ s \in closing
    /\ closing' = closing \ {s}
    /\ open' = open \ {s}
    /\ UNCHANGED <<life, reading, acceptor, main, visit, is_run, closed_all>>

-----------------------------------------------------------------------------
(* The logic thread *)

\* Only the living sessions are visited.
Bug_TickBegin ==
    /\ main = "idle" /\ is_run
    /\ main' = "tick" /\ visit' = {i \in Used : session[i] \in open}
    /\ UNCHANGED <<life, open, reading, closing, acceptor, is_run, closed_all>>

\* tick() takes mutex_ and starts its first loop.
TickBegin ==
    /\ main = "idle" /\ is_run
    /\ main' = "tick" /\ visit' = Used
    /\ UNCHANGED <<life, open, reading, closing, acceptor, is_run, closed_all>>

\* The timeout returns false, and the entry goes at once.
Bug_TickOpen(i) ==
    /\ main = "tick" /\ i \in visit /\ session[i] \in open
    /\ visit' = visit \ {i}
    /\ \/ UNCHANGED <<session, open>>
       \/ session' = [session EXCEPT ![i] = None] /\ open' = open \ {session[i]}
    /\ UNCHANGED <<id, created, reading, closing, acceptor, main, is_run, closed_all, notified, reused>>

\* NetworkSession::tick on an open socket: post(), or after MSG_TIMEOUT_LIMIT
\* seconds without a message the socket is closed.
TickOpen(i) ==
    /\ main = "tick" /\ i \in visit /\ session[i] \in open
    /\ visit' = visit \ {i}
    /\ open' \in {open, open \ {session[i]}}
    /\ UNCHANGED <<life, reading, closing, acceptor, main, is_run, closed_all>>

Bug_Erase(i) == session' = session
Erase(i) == session' = [session EXCEPT ![i] = None]

Notify(s) == notified' = [notified EXCEPT ![s] = @ + 1]

\* NetworkSession::tick on a closed socket: on_closed(), and the entry goes.
TickClosed(i) ==
    /\ main = "tick" /\ i \in visit /\ session[i] \notin open
    /\ visit' = visit \ {i}
    /\ Notify(session[i])
    /\ Erase(i)
    /\ UNCHANGED <<id, created, open, reading, closing, acceptor, main, is_run, closed_all, reused>>

\* The second loop.
DispatchBegin ==
    /\ main = "tick" /\ visit = {}
    /\ main' = "dispatch" /\ visit' = Used
    /\ UNCHANGED <<life, open, reading, closing, acceptor, is_run, closed_all>>

\* close() posts a do_close for those sessions of a set that are open.
Close(ss) == closing' = closing \union (ss \intersect open)

\* dispatch() of one session; its handlers may close sessions they find.
Dispatch(i) ==
    /\ main = "dispatch" /\ i \in visit
    /\ visit' = visit \ {i}
    /\ \/ UNCHANGED closing
       \/ \E j \in Used : Close({session[j]})
    /\ UNCHANGED <<life, open, reading, acceptor, main, is_run, closed_all>>

\* The loop is left after the first session.
Bug_DispatchEnd ==
    /\ main = "dispatch"
    /\ main' = "idle"
    /\ UNCHANGED <<life, open, reading, closing, acceptor, visit, is_run, closed_all>>

DispatchEnd ==
    /\ main = "dispatch" /\ visit = {}
    /\ main' = "idle"
    /\ UNCHANGED <<life, open, reading, closing, acceptor, visit, is_run, closed_all>>

-----------------------------------------------------------------------------
(* Stopping the server *)

\* close_all_session() under mutex_.
CloseAll == Close({session[i] : i \in Used})

\* stop(), called by the console's thread.
Stop ==
    /\ is_run /\ ~closed_all /\ Unlocked
    /\ CloseAll
    /\ closed_all' = TRUE
    /\ UNCHANGED <<life, open, reading, acceptor, main, visit, is_run>>

StopRun ==
    /\ closed_all /\ is_run
    /\ is_run' = FALSE
    /\ UNCHANGED <<life, open, reading, closing, acceptor, main, visit, closed_all>>

\* The main loop ended: the io threads are stopped and joined (a handler that runs
\* is finished, the others are dropped), then release_all_session() calls every
\* on_closed() and empties session_.
ReleaseAll ==
    /\ main = "idle" /\ ~is_run /\ acceptor = "idle"
    /\ main' = "released"
    /\ notified' = [s \in Sessions |->
                      IF s \in {session[i] : i \in Used} THEN notified[s] + 1 ELSE notified[s]]
    /\ session' = [i \in Ids |-> None]
    /\ UNCHANGED <<id, created, open, reading, closing, acceptor, visit, is_run, closed_all, reused>>

-----------------------------------------------------------------------------
Acceptor == (\E i \in Ids : Accept(i)) \/ Alloc \/ Start
Io == \E s \in Sessions : ReadFails(s) \/ DoClose(s)
Tick ==
    \/ TickBegin \/ DispatchBegin \/ DispatchEnd
    \/ \E i \in Ids : TickOpen(i) \/ TickClosed(i) \/ Dispatch(i)
Next == Acceptor \/ Io \/ Tick \/ Stop \/ StopRun \/ ReleaseAll

Spec == Init /\ [][Next]_vars

\* The main loop ticks until it is stopped, and the io threads run the handlers
\* that are ready; nobody has to connect, to close or to stop the server.
FairSpec ==
    /\ Spec /\ WF_vars(Tick) /\ WF_vars(ReleaseAll) /\ WF_vars(StopRun)
    /\ WF_vars(Alloc \/ Start) /\ \A s \in Sessions : WF_vars(DoClose(s))

-----------------------------------------------------------------------------
(* Properties *)

\* Every variable has its type; a loop of tick() leaves no entry unvisited.
TypeOK ==
    /\ session \in [Ids -> Sessions \union {None}]
    /\ id \in [Sessions -> Ids \union {None}]
    /\ created \in 0..MaxSessions
    /\ open \subseteq Sessions /\ reading \subseteq Sessions /\ closing \subseteq Sessions
    /\ acceptor \in {"idle", "created", "allocated"}
    /\ main \in {"idle", "tick", "dispatch", "released"}
    /\ visit \subseteq Ids /\ (Unlocked => visit = {})
    /\ is_run \in BOOLEAN /\ closed_all \in BOOLEAN
    /\ notified \in [Sessions -> Nat] /\ reused \in BOOLEAN

\* The sessions whose alloc() has returned.
Allocated == 1..created \ (IF acceptor = "created" THEN {created} ELSE {})
Entered == {session[i] : i \in Used}

\* on_closed(), which tells the rest of the cluster that a client left, is called
\* at most once for a session, whether a peer, a timeout, a handler or the end of
\* the server closed it.
NotifiedOnce == \A s \in Sessions : notified[s] <= 1

\* Unless a socket number was used again before the logic thread had erased its
\* last owner, no session is forgotten: until its on_closed() it is in the table.
NoneForgotten ==
    ~reused => \A s \in Allocated : notified[s] = 0 => s \in Entered

\* With the same exception, a session whose socket is closed gets its on_closed(),
\* even if the server is stopped meanwhile.
ClosedIsNotified ==
    \A s \in Sessions : (s \in Allocated /\ s \notin open) ~> (notified[s] = 1 \/ reused)

\* With the same exception, close_all_session() closes every session.
StopClosesAll ==
    [][~closed_all /\ closed_all' /\ ~reused => Allocated \intersect open \subseteq closing']_vars
=============================================================================
