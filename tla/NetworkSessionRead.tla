-------------------------- MODULE NetworkSessionRead --------------------------
(***************************************************************************)
(* The incoming half of a NetworkSession (ServerCommon/NetworkSession.cpp).*)
(*                                                                         *)
(* The io thread appends what the socket delivers to read_buf_, and to the *)
(* blocks of buf2_read_ when read_buf_ is full.  The logic thread ticks    *)
(* the session and then calls dispatch(), which moves the oldest block into*)
(* read_buf_ and notes read_size under the lock, hands messages to         *)
(* on_dispatch without the lock, and removes them under the lock again.    *)
(* recv_buf_ is emptied by every handle_read and needs no variable.        *)
(*                                                                         *)
(* A byte is <<message, position, length>>: the first HeaderSize bytes of  *)
(* a message are its MsgHeader and tell its length.                        *)
(***************************************************************************)
EXTENDS Naturals, Sequences, SequencesExt

CONSTANTS
    HeaderSize, \* sizeof(MsgHeader)
    MaxLen,     \* MSG_ONE_BUFFER_SIZE, the longest message
    RecvCap,    \* MSG_RECV_BUFFER_SIZE, what one read takes at most
    ReadCap,    \* MSG_READ_BUFFER_SIZE, also the size of an overflow block
    Limit,      \* DO_RECVMSG_PER_TICK_LIMIT
    Lens,       \* lengths of the messages the peer sends
    Refused,    \* numbers of the messages on_dispatch returns false for
    MaxMsgs,    \* bound on the messages sent in a behaviour
    MaxConns    \* bound on the connections of the session

ASSUME ReadAssumption ==
    /\ HeaderSize \in Nat \ {0} /\ MaxLen \in Nat /\ MaxLen <= ReadCap
    /\ RecvCap \in HeaderSize..ReadCap /\ ReadCap \in Nat
    /\ Limit \in Nat \ {0}
    /\ Lens \subseteq HeaderSize..MaxLen
    /\ Refused \subseteq Nat
    /\ MaxMsgs \in Nat /\ MaxConns \in Nat \ {0}

VARIABLES
    link,       \* the socket: "open" or "closed"
    conn,       \* how many times the socket was opened
    started,    \* a read of this connection has completed
    closing,    \* close() has posted a do_close that has not run
    net,        \* bytes the peer sent and no read has taken
    sent,       \* number of messages the peers sent so far
    base,       \* sent when this connection was made
    read_buf,   \* read_buf_
    buf2_read,  \* buf2_read_, a deque of blocks
    main,       \* where the logic thread is in tick and dispatch
    read_size,  \* dispatch: the size of read_buf_ it noted
    cur,        \* dispatch: bytes handed to on_dispatch
    handled,    \* dispatch: messages handed to on_dispatch
    delivered,  \* history: the messages on_dispatch accepted, first time only
    repeated,   \* history: a message was handed to on_dispatch again
    torn,       \* history: dispatch took other bytes for a message
    overflowed  \* history: handle_read has used buf2_read_

vars == <<link, conn, started, closing, net, sent, base, read_buf, buf2_read,
          main, read_size, cur, handled, delivered, repeated, torn, overflowed>>
stream == <<net, sent, base, read_buf, buf2_read, overflowed>>
history == <<delivered, repeated, torn>>
loop == <<read_size, cur, handled>>

Least(a, b) == IF a <= b THEN a ELSE b
Drop(s, n) == SubSeq(s, n + 1, Len(s))
Message(i, len) == [j \in 1..len |-> <<i, j, len>>]

Init ==
    /\ link = "open" /\ conn = 1 /\ started = FALSE /\ closing = FALSE
    /\ net = <<>> /\ sent = 0 /\ base = 0
    /\ read_buf = <<>> /\ buf2_read = <<>> /\ overflowed = FALSE
    /\ main = "idle" /\ read_size = 0 /\ cur = 0 /\ handled = 0
    /\ delivered = <<>> /\ repeated = FALSE /\ torn = FALSE

-----------------------------------------------------------------------------
(* The peer and the io thread *)

PeerSend(len) ==
    /\ link = "open" /\ sent < MaxMsgs
    /\ sent' = sent + 1
    /\ net' = net \o Message(sent', len)
    /\ UNCHANGED <<link, conn, started, closing, base, read_buf, buf2_read,
                   main, loop, history, overflowed>>

Bug_ReadRoom == ReadCap - Len(read_buf) + 1
ReadRoom == ReadCap - Len(read_buf)

\* What does not fit in read_buf_ goes to the last block, then to a new one.
Overflow(blocks, data) ==
    LET room == IF blocks = <<>> THEN 0 ELSE ReadCap - Len(Last(blocks))
        n    == Least(room, Len(data))
        kept == IF blocks = <<>> THEN <<>>
                ELSE Append(Front(blocks), Last(blocks) \o SubSeq(data, 1, n))
    IN  IF n = Len(data) THEN kept ELSE Append(kept, Drop(data, n))

\* handle_read: the first read waits for a header, the next ones for a byte;
\* read_buf_ is tried first, whatever waits in buf2_read_.
HandleRead ==
    \E n \in (IF started THEN 1 ELSE HeaderSize)..Least(RecvCap, Len(net)) :
        LET data == SubSeq(net, 1, n)
            k    == Least(ReadRoom, n)
        IN  /\ link = "open"
            /\ net' = Drop(net, n)
            /\ started' = TRUE
            /\ read_buf' = read_buf \o SubSeq(data, 1, k)
            /\ buf2_read' = IF k = n THEN buf2_read
                            ELSE Overflow(buf2_read, Drop(data, k))
            /\ overflowed' = (overflowed \/ k < n)
            /\ UNCHANGED <<link, conn, closing, sent, base, main, loop, history>>

\* do_close posted by close().
DoClose ==
    /\ closing
    /\ closing' = FALSE /\ link' = "closed"
    /\ UNCHANGED <<conn, started, stream, main, loop, history>>

\* The peer is gone or the session timed out: what was not read is lost.
Close ==
    /\ link = "open"
    /\ link' = "closed"
    /\ UNCHANGED <<conn, started, closing, stream, main, loop, history>>

-----------------------------------------------------------------------------
(* The logic thread *)

\* tick() finds the socket open: dispatch() will be called.
Tick ==
    /\ main = "idle" /\ link = "open"
    /\ main' = "ticked"
    /\ UNCHANGED <<link, conn, started, closing, stream, loop, history>>

\* The first lock of dispatch: the oldest block tops up read_buf_.
DispatchBegin ==
    LET n == IF buf2_read = <<>> THEN 0
             ELSE Least(ReadRoom, Len(Head(buf2_read)))
    IN  /\ main = "ticked"
        /\ main' = "dispatching"
        /\ IF n = 0 THEN UNCHANGED <<read_buf, buf2_read>>
           ELSE /\ read_buf' = read_buf \o SubSeq(Head(buf2_read), 1, n)
                /\ buf2_read' =
                     IF n = Len(Head(buf2_read)) THEN Tail(buf2_read)
                     ELSE <<Drop(Head(buf2_read), n)>> \o Tail(buf2_read)
        /\ read_size' = Len(read_buf') /\ cur' = 0 /\ handled' = 0
        /\ UNCHANGED <<link, conn, started, closing, net, sent, base,
                       overflowed, history>>

MayLoop == main = "dispatching" /\ handled < Limit /\ cur + HeaderSize <= read_size

\* msg->len as dispatch reads it: bytes that are not a header may say anything.
HeaderLen ==
    LET front == SubSeq(read_buf, cur + 1, cur + HeaderSize)
        first == front[1]
    IN  IF \A j \in 1..HeaderSize : front[j] = <<first[1], j, first[3]>>
        THEN {first[3]} ELSE 0..(MaxLen + 1)

Fits(len) == cur + len <= read_size

Bug_PostClose == closing' = closing

\* close(): do_close is posted on a socket that is open.
PostClose == closing' = (closing \/ link = "open")

\* One round of the loop that hands a message over, accepted or not.  The early
\* return after a failure leaves the messages of this call in read_buf_.
DispatchMsg ==
    /\ MayLoop
    /\ \E len \in HeaderLen :
         LET body  == SubSeq(read_buf, cur + 1, cur + len)
             whole == len > 0 /\ body = Message(body[1][1], len)
             id    == body[1][1]
         IN  /\ len <= MaxLen /\ Fits(len)
             /\ IF whole /\ id \in Refused
                THEN /\ PostClose /\ main' = "idle"
                     /\ UNCHANGED <<cur, handled, history>>
                ELSE /\ cur' = cur + len /\ handled' = handled + 1
                     /\ torn' = (torn \/ ~whole)
                     /\ IF ~whole THEN UNCHANGED <<delivered, repeated>>
                        ELSE /\ repeated' = (repeated \/ id \in ToSet(delivered))
                             /\ delivered' = IF id \in ToSet(delivered) THEN delivered
                                             ELSE Append(delivered, id)
                     /\ UNCHANGED <<closing, main>>
    /\ UNCHANGED <<link, conn, started, stream, read_size>>

\* A length no message has: the session is closed.
DispatchTooLong ==
    /\ MayLoop
    /\ \E len \in HeaderLen : len > MaxLen
    /\ torn' = TRUE
    /\ PostClose /\ main' = "idle"
    /\ UNCHANGED <<link, conn, started, stream, loop, delivered, repeated>>

\* The rest of the message has not been read yet.
Incomplete == MayLoop /\ \E len \in HeaderLen : len <= MaxLen /\ ~Fits(len)

Bug_DispatchEnd ==
    /\ main = "dispatching" /\ (~MayLoop \/ Incomplete)
    /\ read_buf' = Drop(read_buf, read_size)
    /\ main' = "idle"
    /\ UNCHANGED <<link, conn, started, closing, net, sent, base, buf2_read,
                   overflowed, loop, history>>

\* The loop ends, and the second lock removes what was handed over.
DispatchEnd ==
    /\ main = "dispatching" /\ (~MayLoop \/ Incomplete)
    /\ read_buf' = Drop(read_buf, cur)
    /\ main' = "idle"
    /\ UNCHANGED <<link, conn, started, closing, net, sent, base, buf2_read,
                   overflowed, loop, history>>

\* NetworkConnectSession: on_closed, a new connection, and its reset(), which
\* empties read_buf_ and forgets buf2_read_.
Reconnect ==
    /\ main = "idle" /\ link = "closed" /\ ~closing /\ conn < MaxConns
    /\ link' = "open" /\ conn' = conn + 1 /\ started' = FALSE
    /\ net' = <<>> /\ base' = sent
    /\ read_buf' = <<>>
    /\ UNCHANGED <<closing, sent, buf2_read, main, overflowed, loop, history>>

-----------------------------------------------------------------------------
Io == HandleRead \/ DoClose
Dispatch == DispatchBegin \/ DispatchMsg \/ DispatchTooLong \/ DispatchEnd
Next == (\E len \in Lens : PeerSend(len)) \/ Io \/ Close \/ Tick \/ Dispatch \/ Reconnect

Spec == Init /\ [][Next]_vars

\* The io thread runs its handlers and the logic thread calls tick for ever;
\* the peer need not send, and no connection need close or be made again.
FairSpec == Spec /\ WF_vars(HandleRead) /\ WF_vars(DoClose) /\ WF_vars(Tick) /\ WF_vars(Dispatch)

-----------------------------------------------------------------------------
(* Properties *)

Byte == (1..MaxMsgs) \X (1..MaxLen) \X (1..MaxLen)
Block == {b \in Seq(Byte) : Len(b) <= ReadCap}

\* Every variable has its type and no buffer holds more than it has room for.
TypeOK ==
    /\ link \in {"open", "closed"} /\ conn \in 1..MaxConns
    /\ started \in BOOLEAN /\ closing \in BOOLEAN
    /\ net \in Seq(Byte) /\ sent \in 0..MaxMsgs /\ base \in 0..sent
    /\ read_buf \in Block /\ buf2_read \in Seq(Block)
    /\ main \in {"idle", "ticked", "dispatching"}
    /\ read_size \in 0..ReadCap /\ cur \in 0..ReadCap /\ handled \in 0..Limit
    /\ delivered \in Seq(1..MaxMsgs)
    /\ repeated \in BOOLEAN /\ torn \in BOOLEAN /\ overflowed \in BOOLEAN

\* The bytes before cur are those of messages handed over by this call.
InDispatch == IF main = "dispatching" THEN cur ELSE 0

\* As long as buf2_read_ was never needed and no message was refused on this
\* connection, the bytes not yet handed over and those still on the network are
\* whole messages, the ones that follow the last message handed over: nothing is
\* lost, repeated or swapped between the threads, across a reconnection too.
StreamIntact ==
    link = "open" /\ ~overflowed /\ ~closing =>
        LET rest  == Drop(read_buf, InDispatch) \o net
            next  == IF delivered = <<>> \/ Last(delivered) < base THEN base + 1
                     ELSE Last(delivered) + 1
        IN  \A i \in DOMAIN rest :
              /\ i = 1 => rest[i][1] = next /\ rest[i][2] = 1
              /\ i > 1 => IF rest[i - 1][2] = rest[i - 1][3]
                          THEN rest[i][1] = rest[i - 1][1] + 1 /\ rest[i][2] = 1
                          ELSE rest[i] = [rest[i - 1] EXCEPT ![2] = @ + 1]

\* A message is handed to on_dispatch again only while the session that refused
\* a message is still waiting for its do_close.
RepeatedOnlyWhileClosing ==
    repeated /\ ~overflowed /\ conn = 1 => closing \/ link = "closed"

\* A session that stays open hands over every message its peer sent, a few per
\* tick, unless it refuses one.
EventuallyDispatched ==
    []<>(link = "closed" \/ overflowed \/ \A i \in (base + 1)..sent : i \in ToSet(delivered))

\* dispatch puts the received bytes together to messages: what it hands over is
\* a message the peer sent.
DispatchedWhole == ~torn
=============================================================================
