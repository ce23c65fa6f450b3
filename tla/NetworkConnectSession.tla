------------------------ MODULE NetworkConnectSession ------------------------
(***************************************************************************)
(* The session a server keeps to another server, and connects again when  *)
(* it is lost (ServerCommon/NetworkConnectSession.cpp).                    *)
(*                                                                         *)
(* The logic thread calls tick(), the io thread completes async_connect    *)
(* and reads errors.  They share connect_state_, an atomic, and the socket.*)
(* tick() starts the connection first and then moves connect_state_ to     *)
(* CONNECTING with a compare-and-exchange, so the attempt may complete in  *)
(* between.  Clocks are flags: waited says that 5000 ms passed since       *)
(* wait_tick_, heard that last_msg_time_ is not 0, late that more than     *)
(* MSG_TIMEOUT_LIMIT seconds passed since last_msg_time_.                  *)
(***************************************************************************)
EXTENDS Naturals

CONSTANTS
    FailsFast,  \* an attempt may fail before tick() has reached the exchange
    MaxFaults   \* bound on the failures of the peer

ASSUME ConnectAssumption == FailsFast \in BOOLEAN /\ MaxFaults \in Nat

VARIABLES
    connect_state, \* connect_state_
    socket,        \* "closed", "connecting" or "open"
    attempts,      \* async_connect operations that have not completed
    logic,         \* the logic thread: "idle", or "exchange" inside tick()
    old_state,     \* tick: the state it read
    io,            \* the io thread: "idle", or in a completion handler
    waited, heard, late,
    peer,          \* the peer's process: "up", "down", or "hung" (no answer, no reset)
    alive,         \* the peer has this connection
    faults         \* failures of the peer so far

connect_vars == <<connect_state, socket, attempts, logic, old_state, io, waited, heard,
                  late, peer, alive, faults>>
clocks == <<waited, heard, late>>
remote == <<peer, alive, faults>>

States == {"INVALID", "DISCONNECT", "CONNECTING", "CONNECTED"}

ConnectInit ==
    /\ connect_state = "INVALID" /\ socket = "closed" /\ attempts = 0
    /\ logic = "idle" /\ old_state = "INVALID" /\ io = "idle"
    /\ waited = TRUE /\ heard = FALSE /\ late = FALSE
    /\ peer \in {"up", "down"} /\ alive = FALSE /\ faults = 0

-----------------------------------------------------------------------------
(* The logic thread: tick() *)

\* Not connected: connect() starts an attempt, at once or 5000 ms after the last
\* failure.  A socket that is still in use is closed and opened anew.
TickConnect ==
    /\ logic = "idle"
    /\ connect_state = "INVALID" \/ (connect_state = "DISCONNECT" /\ waited)
    /\ old_state' = connect_state
    /\ attempts' = attempts + 1
    /\ socket' = "connecting" /\ alive' = FALSE
    /\ logic' = "exchange"
    /\ UNCHANGED <<connect_state, io, clocks, peer, faults>>

Bug_Store == connect_state' = "CONNECTING"
Bug_NoExchange == connect_state' = connect_state
CompareExchange ==
    connect_state' = IF connect_state = old_state THEN "CONNECTING" ELSE connect_state

TickExchange ==
    /\ logic = "exchange"
    /\ CompareExchange
    /\ logic' = "idle"
    /\ UNCHANGED <<socket, attempts, old_state, io, clocks, remote>>

\* The heartbeats this side sends count as well.
Bug_TickHear ==
    /\ logic = "idle" /\ connect_state = "CONNECTED" /\ socket = "open"
    /\ heard' = TRUE /\ late' = FALSE
    /\ UNCHANGED <<connect_state, socket, attempts, logic, old_state, io, waited, remote>>

\* Connected: the heartbeats are answered, and dispatch() notes when.
TickHear ==
    /\ logic = "idle" /\ connect_state = "CONNECTED" /\ socket = "open"
    /\ alive
    /\ heard' = TRUE /\ late' = FALSE
    /\ UNCHANGED <<connect_state, socket, attempts, logic, old_state, io, waited, remote>>

\* Nothing was heard for MSG_TIMEOUT_LIMIT seconds: the socket is closed.  A
\* connection on which nothing was ever heard does not time out.
TickTimeout ==
    /\ logic = "idle" /\ connect_state = "CONNECTED" /\ socket = "open"
    /\ heard /\ late
    /\ socket' = "closed" /\ alive' = FALSE
    /\ UNCHANGED <<connect_state, attempts, logic, old_state, io, clocks, peer, faults>>

Bug_OnClosed == UNCHANGED <<heard, late>>
\* on_closed forgets when a message was last heard.
OnClosed == heard' = FALSE /\ late' = FALSE

\* The socket was closed since the last tick.
TickLost ==
    /\ logic = "idle" /\ connect_state = "CONNECTED" /\ socket # "open"
    /\ OnClosed
    /\ connect_state' = "DISCONNECT"
    /\ UNCHANGED <<socket, attempts, logic, old_state, io, waited, remote>>

-----------------------------------------------------------------------------
(* The io thread *)

\* async_connect succeeded: reset(), before on_connect.
ConnectOk ==
    /\ io = "idle" /\ attempts > 0 /\ socket = "connecting" /\ peer = "up"
    /\ attempts' = attempts - 1
    /\ socket' = "open" /\ alive' = TRUE
    /\ io' = "on_connect"
    /\ UNCHANGED <<connect_state, logic, old_state, clocks, peer, faults>>

\* on_connect: S_Connect is sent, the state is set, and reading starts.
OnConnect ==
    /\ io = "on_connect"
    /\ connect_state' = "CONNECTED"
    /\ io' = "idle"
    /\ UNCHANGED <<socket, attempts, logic, old_state, clocks, remote>>

\* async_connect failed, or the socket was closed under it: on_connect_failed.
OnConnectFailed ==
    /\ io = "idle" /\ attempts > 0
    /\ socket = "closed" \/ peer # "up"
    /\ logic # "exchange" \/ FailsFast
    /\ attempts' = attempts - 1
    /\ connect_state' = "DISCONNECT" /\ waited' = FALSE
    /\ io' = "failed"
    /\ UNCHANGED <<socket, logic, old_state, heard, late, remote>>

\* do_close after on_connect_failed: closes whatever the socket is by then.
FailedClose ==
    /\ io = "failed"
    /\ socket' = "closed" /\ alive' = FALSE
    /\ io' = "idle"
    /\ UNCHANGED <<connect_state, attempts, logic, old_state, clocks, peer, faults>>

\* A read or write fails: do_close.
SocketError ==
    /\ io = "idle" /\ socket = "open" /\ ~alive /\ peer # "hung"
    /\ socket' = "closed"
    /\ UNCHANGED <<connect_state, attempts, logic, old_state, io, clocks, remote>>

-----------------------------------------------------------------------------
(* Time and the peer *)

\* The failure handler takes less than 5000 ms from one statement to the next.
RetryDue ==
    /\ ~waited /\ io # "failed" /\ waited' = TRUE
    /\ UNCHANGED <<connect_state, socket, attempts, logic, old_state, io, heard, late, remote>>

\* Heartbeats every SERVER_HEARTBEAT_TIME seconds keep a living connection from
\* being silent for MSG_TIMEOUT_LIMIT.
SilenceDue ==
    /\ heard /\ ~alive /\ ~late /\ late' = TRUE
    /\ UNCHANGED <<connect_state, socket, attempts, logic, old_state, io, waited, heard, remote>>

PeerFails ==
    /\ peer = "up" /\ faults < MaxFaults
    /\ peer' \in {"down", "hung"}
    /\ alive' = FALSE /\ faults' = faults + 1
    /\ UNCHANGED <<connect_state, socket, attempts, logic, old_state, io, clocks>>

PeerRestarts ==
    /\ peer # "up"
    /\ peer' = "up"
    /\ UNCHANGED <<connect_state, socket, attempts, logic, old_state, io, clocks, alive, faults>>

-----------------------------------------------------------------------------
ConnectTick == TickConnect \/ TickExchange \/ TickHear \/ TickTimeout \/ TickLost
ConnectIo == ConnectOk \/ OnConnect \/ OnConnectFailed \/ FailedClose \/ SocketError
Time == RetryDue \/ SilenceDue
ConnectNext == ConnectTick \/ ConnectIo \/ Time \/ PeerFails \/ PeerRestarts

ConnectSpec == ConnectInit /\ [][ConnectNext]_connect_vars

\* The main loop calls tick() for ever, the io thread runs its handlers, time
\* passes; a peer need not fail, and need not come back.
ConnectFair ==
    /\ ConnectSpec
    /\ WF_connect_vars(TickConnect \/ TickExchange) /\ WF_connect_vars(TickTimeout \/ TickLost)
    /\ WF_connect_vars(ConnectIo) /\ WF_connect_vars(RetryDue) /\ WF_connect_vars(SilenceDue)

-----------------------------------------------------------------------------
(* Properties *)

\* Every variable has its type, and at most one attempt is outstanding.
ConnectTypeOK ==
    /\ connect_state \in States /\ old_state \in States
    /\ socket \in {"closed", "connecting", "open"} /\ attempts \in 0..1
    /\ logic \in {"idle", "exchange"} /\ io \in {"idle", "on_connect", "failed"}
    /\ waited \in BOOLEAN /\ heard \in BOOLEAN /\ late \in BOOLEAN
    /\ peer \in {"up", "down", "hung"} /\ alive \in BOOLEAN /\ faults \in 0..MaxFaults

\* A session that is CONNECTED has no attempt outstanding: post and dispatch
\* never use a socket that is being connected, whenever the attempt completed
\* relative to the exchange in tick().
ConnectedHasNoAttempt ==
    connect_state = "CONNECTED" => attempts = 0 /\ socket # "connecting"

\* A session that is CONNECTING has an attempt whose completion will move it on,
\* unless the attempt failed before tick() reached the exchange.
ConnectingHasAttempt ==
    ~FailsFast /\ connect_state = "CONNECTING" => attempts > 0 \/ io = "on_connect"

\* The timeout never closes a connection whose peer is alive: the silence of an
\* earlier connection does not count against a new one.
TimeoutOnlyDead == [][TickTimeout => ~alive]_connect_vars

\* A connection on which something was heard is given up after its peer died,
\* even if the peer sends no reset.
DeadPeerDropped == (socket = "open" /\ heard /\ ~alive) ~> (socket # "open" \/ alive)

\* If the peer is up for good, the session is connected for good, whatever
\* happened before (with ~FailsFast).
Reconnects == <>[](peer = "up") => <>[](connect_state = "CONNECTED" /\ alive)
=============================================================================
