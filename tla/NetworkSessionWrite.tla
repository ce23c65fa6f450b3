------------------------- MODULE NetworkSessionWrite -------------------------
(***************************************************************************)
(* The outgoing half of a NetworkSession (ServerCommon/NetworkSession.cpp).*)
(*                                                                         *)
(* Bytes accepted by send() wait in write_buf_, in the overflow blocks of  *)
(* buf2_write_ when write_buf_ is full, then in send_buf_, whose bytes are *)
(* handed to the kernel by async_write.  Two threads work on the buffers:  *)
(* the logic thread (send, and post from tick) and the session's io thread *)
(* (do_write, handle_write).  mutex_ protects the buffers, but handle_write*)
(* compares sizes before it locks, re-arms async_write after it unlocked,  *)
(* and post queues do_write after it unlocked: those are separate steps.   *)
(*                                                                         *)
(* A byte is its number: the k-th byte send() ever accepted is k.  A       *)
(* session made by NetworkConnectSession connects again after it closed;   *)
(* base is the number of the last byte accepted before the last reset().   *)
(***************************************************************************)
EXTENDS Naturals, Sequences, SequencesExt

CONSTANTS
    SendCap,    \* MSG_SEND_BUFFER_SIZE
    WriteCap,   \* MSG_WRITE_BUFFER_SIZE, also the size of an overflow block
    Lens,       \* lengths of the messages the logic thread sends
    MaxBytes,   \* bound on the bytes accepted in a behaviour
    MaxConns    \* bound on the connections of the session (1: accepted socket)

ASSUME WriteAssumption ==
    /\ SendCap \in Nat \ {0}
    /\ WriteCap \in Nat \ {0}
    /\ Lens \subseteq 1..WriteCap
    /\ MaxBytes \in Nat
    /\ MaxConns \in Nat \ {0}

VARIABLES
    link,       \* the socket: "open" (reset() done), "opening", "closed"
    conn,       \* how many times the socket was opened
    write_buf,  \* write_buf_
    buf2_write, \* buf2_write_, a deque of blocks
    send_buf,   \* send_buf_
    sending,    \* sending_
    inflight,   \* bytes of send_buf_ given to the outstanding async_write
    io,         \* where the io thread is in handle_write
    main,       \* where the logic thread is in post
    posted,     \* do_write handlers queued on the io_service
    wire,       \* bytes this connection put on the network
    accepted,   \* number of bytes accepted so far
    base,       \* accepted when reset() last ran
    overflowed  \* history: send() has used buf2_write_

vars == <<link, conn, write_buf, buf2_write, send_buf, sending, inflight, io,
          main, posted, wire, accepted, base, overflowed>>
buffers == <<write_buf, buf2_write, send_buf>>

Least(a, b) == IF a <= b THEN a ELSE b

\* MsgBuffer::move: the first n bytes leave the buffer.
Drop(s, n) == SubSeq(s, n + 1, Len(s))

Bytes(first, last) == [i \in 1..(last - first) |-> first + i]

Init ==
    /\ link = "open" /\ conn = 1
    /\ write_buf = <<>> /\ buf2_write = <<>> /\ send_buf = <<>>
    /\ sending = FALSE /\ inflight = 0
    /\ io = "idle" /\ main = "idle" /\ posted = 0
    /\ wire = <<>> /\ accepted = 0 /\ base = 0 /\ overflowed = FALSE

-----------------------------------------------------------------------------
(* The logic thread *)

\* What write_buf_ and send_buf_ can still take (MsgBuffer::remain).
WriteRoom == WriteCap - Len(write_buf)
Bug_SendRoom == SendCap - (Len(send_buf) - inflight)
SendRoom == SendCap - Len(send_buf)

Bug_Overflow(blocks, data) ==
    IF blocks = <<>> THEN <<data>> ELSE Append(Front(blocks), data)

\* The part of a message that does not fit in write_buf_ goes to the last
\* block, and what does not fit there to a new block.
Overflow(blocks, data) ==
    LET room == IF blocks = <<>> THEN 0 ELSE WriteCap - Len(Last(blocks))
        n    == Least(room, Len(data))
        kept == IF blocks = <<>> THEN <<>>
                ELSE Append(Front(blocks), Last(blocks) \o SubSeq(data, 1, n))
    IN  IF n = Len(data) THEN kept ELSE Append(kept, Drop(data, n))

\* send(data, len): refused on a closed socket; write_buf_ is tried first,
\* whatever waits in buf2_write_.  The header and the payload of a message are
\* two calls under one lock and land where one call of both would.
Send(len) ==
    LET data == Bytes(accepted, accepted + len)
        n    == Least(WriteRoom, len)
    IN  /\ link # "closed"
        /\ accepted + len <= MaxBytes
        /\ write_buf' = write_buf \o SubSeq(data, 1, n)
        /\ buf2_write' = IF n = len THEN buf2_write
                         ELSE Overflow(buf2_write, Drop(data, n))
        /\ overflowed' = (overflowed \/ n < len)
        /\ accepted' = accepted + len
        /\ UNCHANGED <<link, conn, send_buf, sending, inflight, io, main,
                       posted, wire, base>>

\* post() under the lock, called by tick() on an open socket: the oldest block
\* tops up write_buf_, then write_buf_ tops up send_buf_.
PostMove ==
    LET n  == IF buf2_write = <<>> THEN 0
              ELSE Least(WriteRoom, Len(Head(buf2_write)))
        w  == IF n = 0 THEN write_buf
              ELSE write_buf \o SubSeq(Head(buf2_write), 1, n)
        m  == Least(SendRoom, Len(w))
    IN  /\ link = "open" /\ main = "idle"
        /\ buf2_write' =
             IF n = 0 THEN buf2_write
             ELSE IF n = Len(Head(buf2_write)) THEN Tail(buf2_write)
             ELSE <<Drop(Head(buf2_write), n)>> \o Tail(buf2_write)
        /\ write_buf' = Drop(w, m)
        /\ send_buf' = send_buf \o SubSeq(w, 1, m)
        /\ main' = IF m = 0 THEN "idle" ELSE "posting"
        /\ UNCHANGED <<link, conn, sending, inflight, io, posted, wire,
                       accepted, base, overflowed>>

\* post() after the unlock: do_write is queued if the socket is still open.
PostWakeup ==
    /\ main = "posting"
    /\ main' = "idle"
    /\ posted' = IF link = "open" THEN posted + 1 ELSE posted
    /\ UNCHANGED <<buffers, link, conn, sending, inflight, io, wire, accepted,
                   base, overflowed>>

-----------------------------------------------------------------------------
(* The io thread *)

\* do_write: one async_write at a time.  Left over from the previous connection
\* it writes to a socket that is still connecting: the write fails, and
\* handle_write closes the socket.
DoWrite ==
    /\ io = "idle" /\ posted > 0
    /\ posted' = posted - 1
    /\ IF ~sending /\ send_buf # <<>>
       THEN /\ sending' = TRUE
            /\ inflight' = IF link = "open" THEN Len(send_buf) ELSE 0
            /\ link' = IF link = "opening" THEN "closed" ELSE link
       ELSE UNCHANGED <<sending, inflight, link>>
    /\ UNCHANGED <<buffers, conn, io, main, wire, accepted, base, overflowed>>

\* async_write completes with every byte it was given; handle_write compares
\* the count with send_buf_.size() before it takes the lock.
HandleWrite ==
    /\ link = "open" /\ io = "idle" /\ inflight > 0
    /\ wire' = wire \o SubSeq(send_buf, 1, inflight)
    /\ io' = IF inflight < Len(send_buf) THEN "partial" ELSE "full"
    /\ UNCHANGED <<buffers, link, conn, sending, inflight, main, posted,
                   accepted, base, overflowed>>

\* post() added bytes while the write was outstanding: the written ones go.
HandlePartial ==
    /\ io = "partial"
    /\ send_buf' = Drop(send_buf, inflight)
    /\ inflight' = 0
    /\ io' = "rearm"
    /\ UNCHANGED <<link, conn, write_buf, buf2_write, sending, main, posted,
                   wire, accepted, base, overflowed>>

Bug_MoreToSend == Len(send_buf) > inflight
MoreToSend == send_buf' # <<>>

\* Everything was written: refill from write_buf_ (not from the blocks), stop
\* if there is nothing left.
HandleFull ==
    LET rest == Drop(send_buf, inflight)
        m    == Least(SendCap - Len(rest), Len(write_buf))
    IN  /\ io = "full"
        /\ send_buf' = rest \o SubSeq(write_buf, 1, m)
        /\ write_buf' = Drop(write_buf, m)
        /\ inflight' = 0
        /\ IF MoreToSend
           THEN sending' = sending /\ io' = "rearm"
           ELSE sending' = FALSE /\ io' = "idle"
        /\ UNCHANGED <<link, conn, buf2_write, main, posted, wire, accepted,
                       base, overflowed>>

\* handle_write after the unlock: async_write over what send_buf_ holds now.
\* On a socket closed by the logic thread the operation fails, and do_close
\* closes a socket that is already connecting again.
Rearm ==
    /\ io = "rearm"
    /\ io' = "idle"
    /\ inflight' = IF link = "open" THEN Len(send_buf) ELSE 0
    /\ link' = IF link = "opening" THEN "closed" ELSE link
    /\ UNCHANGED <<buffers, conn, sending, main, posted, wire, accepted, base,
                   overflowed>>

-----------------------------------------------------------------------------
(* The socket *)

\* do_close (peer gone, error, close()) on the io thread, or the timeout of
\* tick() on the logic thread, at any point of handle_write: some bytes of an
\* outstanding write may have left; its handler will see an error.
Close ==
    /\ link # "closed"
    /\ link' = "closed"
    /\ IF io = "idle"
       THEN /\ \E n \in 0..inflight : wire' = wire \o SubSeq(send_buf, 1, n)
            /\ inflight' = 0
       ELSE UNCHANGED <<wire, inflight>>
    /\ UNCHANGED <<buffers, conn, sending, io, main, posted, accepted, base,
                   overflowed>>

\* NetworkConnectSession::tick starts a new connection: the socket is open, so
\* send() accepts bytes already.
Connect ==
    /\ link = "closed" /\ main = "idle" /\ conn < MaxConns
    /\ link' = "opening" /\ conn' = conn + 1
    /\ wire' = <<>>
    /\ UNCHANGED <<buffers, sending, inflight, io, main, posted, accepted,
                   base, overflowed>>

Bug_Reset ==
    /\ link = "opening" /\ io = "idle"
    /\ link' = "open"
    /\ sending' = FALSE
    /\ send_buf' = <<>>
    /\ base' = accepted
    /\ UNCHANGED <<conn, write_buf, buf2_write, inflight, io, main, posted,
                   wire, accepted, overflowed>>

\* The connection is up: reset() empties write_buf_ and send_buf_, and forgets
\* buf2_write_.
Reset ==
    /\ link = "opening" /\ io = "idle"
    /\ link' = "open"
    /\ sending' = FALSE
    /\ send_buf' = <<>> /\ write_buf' = <<>>
    /\ base' = accepted
    /\ UNCHANGED <<conn, buf2_write, inflight, io, main, posted, wire,
                   accepted, overflowed>>

-----------------------------------------------------------------------------
Logic == (\E len \in Lens : Send(len)) \/ PostMove \/ PostWakeup
Io == DoWrite \/ HandleWrite \/ HandlePartial \/ HandleFull \/ Rearm
Next == Logic \/ Io \/ Close \/ Connect \/ Reset

Spec == Init /\ [][Next]_vars

\* The logic thread calls tick() in its main loop for ever, and the io thread
\* runs every handler that is ready; nobody has to send, close or connect.
FairSpec == Spec /\ WF_vars(PostMove) /\ WF_vars(PostWakeup) /\ WF_vars(Io)

-----------------------------------------------------------------------------
(* Properties *)

Block == {b \in Seq(Nat) : Len(b) <= WriteCap}

\* Every variable has its type and no buffer holds more than it has room for.
TypeOK ==
    /\ link \in {"open", "opening", "closed"}
    /\ conn \in 1..MaxConns
    /\ write_buf \in Seq(Nat) /\ Len(write_buf) <= WriteCap
    /\ buf2_write \in Seq(Block)
    /\ send_buf \in Seq(Nat) /\ Len(send_buf) <= SendCap
    /\ sending \in BOOLEAN
    /\ inflight \in 0..SendCap
    /\ io \in {"idle", "partial", "full", "rearm"}
    /\ main \in {"idle", "posting"}
    /\ posted \in Nat
    /\ wire \in Seq(Nat)
    /\ accepted \in 0..MaxBytes /\ base \in 0..accepted
    /\ overflowed \in BOOLEAN

\* Bytes that wait in send_buf_ of an open session are either being written or
\* a wake-up for them is on its way: post's do_write can run before, between
\* and after the steps of handle_write and the bytes are not forgotten.
NoLostWakeup ==
    link = "open" /\ send_buf # <<>> /\ ~sending =>
        posted > 0 \/ main = "posting"

\* The memory given to async_write is stable: while the operation is
\* outstanding no step of either thread moves or overwrites those bytes.
InflightStable ==
    [][inflight > 0 /\ inflight' > 0 /\ link' = "open" =>
         SubSeq(send_buf', 1, inflight) = SubSeq(send_buf, 1, inflight)]_vars

\* As long as buf2_write_ was never needed, what this connection sent, what it
\* is sending and what waits are, in this order, exactly the bytes accepted
\* since reset(): none lost, repeated, swapped or left from an old connection.
OrderedUnlessOverflowed ==
    link = "open" /\ ~overflowed /\ io \in {"idle", "rearm"} =>
        wire \o send_buf \o write_buf = Bytes(base, accepted)

\* Where a byte can be: on the wire, in one of the two buffers, or in a block.
Parts == <<wire, send_buf, write_buf>> \o buf2_write

\* Even with overflow blocks, on the first connection every accepted byte is in
\* exactly one place.
NothingLostOrRepeated ==
    conn = 1 /\ link = "open" /\ io \in {"idle", "rearm"} =>
        /\ UNION {ToSet(Parts[p]) : p \in DOMAIN Parts} = 1..accepted
        /\ \A p, q \in DOMAIN Parts : \A i \in DOMAIN Parts[p], j \in DOMAIN Parts[q] :
              Parts[p][i] = Parts[q][j] => p = q /\ i = j

\* A session that stays open does not stop before it has put every byte it
\* accepted on the wire.
EventuallySent ==
    []<>(link # "open" \/ send_buf \o write_buf \o FlattenSeq(buf2_write) = <<>>)

\* What the peer reads is what was sent, in the order it was sent.
SentInOrder == link = "open" => IsPrefix(wire, Bytes(base, accepted))

\* Bytes of an old connection do not reach the peer of a new one.
NoStaleBytes == \A i \in DOMAIN wire : link = "open" => wire[i] > base
=============================================================================
