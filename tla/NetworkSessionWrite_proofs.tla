---------------------- MODULE NetworkSessionWrite_proofs ----------------------
(***************************************************************************)
(* Proofs about the outgoing half of a session, for every buffer size,     *)
(* message length and bound: its types, that no wake-up is lost, that the  *)
(* bytes of an outstanding write do not move, that the bytes stay in order *)
(* as long as no overflow block is used, and that none is ever lost or     *)
(* repeated.                                                               *)
(***************************************************************************)
EXTENDS NetworkSessionWrite, SequenceTheorems, TLAPS

USE WriteAssumption

-----------------------------------------------------------------------------
(* Buffers *)

\* The library's facts about concatenation, for sequences of bytes.
LEMMA ConcatNat ==
    \A s, t, u \in Seq(Nat) :
        /\ s \o t \in Seq(Nat)
        /\ (s \o t) \o u = s \o (t \o u)
BY ConcatProperties, ConcatAssociative

\* MsgBuffer::move and the prefix it removes: the two parts are sequences of the
\* expected lengths, and together the buffer.
LEMMA Split ==
    ASSUME NEW s \in Seq(Nat), NEW n \in 0..Len(s)
    PROVE  /\ SubSeq(s, 1, n) \in Seq(Nat) /\ Len(SubSeq(s, 1, n)) = n
           /\ Drop(s, n) \in Seq(Nat) /\ Len(Drop(s, n)) = Len(s) - n
           /\ SubSeq(s, 1, n) \o Drop(s, n) = s
<1>1. Len(s) \in Nat /\ \A i \in 1..Len(s) : s[i] \in Nat
  BY LenProperties, ElementOfSeq
<1>2. SubSeq(s, 1, n) \in Seq(Nat) /\ Len(SubSeq(s, 1, n)) = n
  BY <1>1, SubSeqProperties, n <= Len(s)
<1>3. Drop(s, n) \in Seq(Nat) /\ Len(Drop(s, n)) = Len(s) - n
  <2>1. \A i \in (n + 1)..Len(s) : s[i] \in Nat
    BY <1>1
  <2>2. /\ SubSeq(s, n + 1, Len(s)) \in Seq(Nat)
        /\ Len(SubSeq(s, n + 1, Len(s))) =
             IF n + 1 <= Len(s) THEN Len(s) - (n + 1) + 1 ELSE 0
    BY <1>1, <2>1, SubSeqProperties
  <2> QED BY <1>1, <2>2 DEF Drop
<1>4. SubSeq(s, 1, n) \o SubSeq(s, n + 1, Len(s)) = SubSeq(s, 1, Len(s))
  <2>1. 1 \in 1..(Len(s) + 1) /\ n \in (1 - 1)..Len(s) /\ Len(s) \in n..Len(s)
    BY <1>1
  <2> QED BY <2>1, ConcatAdjacentSubSeq
<1> QED BY <1>2, <1>3, <1>4, SubSeqFull DEF Drop

\* Moving nothing leaves a buffer as it is.
LEMMA NothingMoved ==
    ASSUME NEW s \in Seq(Nat)
    PROVE  SubSeq(s, 1, 0) = <<>> /\ Drop(s, 0) = s
<1>1. SubSeq(s, 1, 0) = <<>>
  BY SubSeqEmpty
<1>2. Len(s) \in Nat
  BY LenProperties
<1>3. Drop(s, 0) = SubSeq(s, 1, Len(s))
  BY <1>2 DEF Drop
<1> QED BY <1>1, <1>3, SubSeqFull

\* The smaller of two numbers.
LEMMA LeastFact ==
    ASSUME NEW a \in Int, NEW b \in Int
    PROVE  Least(a, b) \in {a, b} /\ Least(a, b) <= a /\ Least(a, b) <= b
BY DEF Least

\* Dropping a prefix that lies inside the first buffer.
LEMMA DropConcat ==
    ASSUME NEW s \in Seq(Nat), NEW t \in Seq(Nat), NEW n \in 0..Len(s)
    PROVE  Drop(s \o t, n) = Drop(s, n) \o t
<1> DEFINE a == SubSeq(s, 1, n)
           d == Drop(s, n)
           u == s \o t
<1>1. /\ a \in Seq(Nat) /\ d \in Seq(Nat) /\ Len(a) = n
      /\ Len(d) = Len(s) - n /\ a \o d = s
  BY Split
<1>2. u \in Seq(Nat) /\ Len(u) = Len(s) + Len(t)
  BY ConcatProperties
<1>3. Len(s) \in Nat /\ Len(t) \in Nat
  BY LenProperties
<1>4. n \in 0..Len(u)
  BY <1>2, <1>3
<1>5. Drop(u, n) \in Seq(Nat) /\ Len(Drop(u, n)) = Len(u) - n
  BY <1>2, <1>4, Split
<1>6. d \o t \in Seq(Nat) /\ Len(d \o t) = Len(d) + Len(t)
  BY <1>1, ConcatProperties
<1>7. ASSUME NEW i \in 1..Len(Drop(u, n)) PROVE Drop(u, n)[i] = (d \o t)[i]
  <2>1. i \in 1..(Len(u) - n) /\ n + i \in 1..(Len(s) + Len(t))
    BY <1>2, <1>3, <1>5
  <2>2. Drop(u, n)[i] = u[n + i]
    BY <2>1, <1>2, <1>3 DEF Drop
  <2>3. u[n + i] = IF n + i <= Len(s) THEN s[n + i] ELSE t[n + i - Len(s)]
    BY <2>1, ConcatProperties
  <2>4. (d \o t)[i] = IF i <= Len(d) THEN d[i] ELSE t[i - Len(d)]
    <3>1. i \in 1..(Len(d) + Len(t))
      BY <2>1, <1>1, <1>2, <1>3
    <3> QED BY <3>1, <1>1, ConcatProperties
  <2>5. i <= Len(d) => d[i] = s[n + i]
    <3>1. \A j \in 1..(Len(s) - (n + 1) + 1) : Drop(s, n)[j] = s[(n + 1) + j - 1]
      BY <1>3 DEF Drop
    <3>2. i <= Len(d) => i \in 1..(Len(s) - (n + 1) + 1)
      BY <2>1, <1>1, <1>3
    <3>3. (n + 1) + i - 1 = n + i
      BY <2>1
    <3> QED BY <3>1, <3>2, <3>3
  <2>6. i <= Len(d) <=> n + i <= Len(s)
    BY <2>1, <1>1, <1>3
  <2>7. i - Len(d) = n + i - Len(s)
    BY <2>1, <1>1, <1>3
  <2>8. CASE i <= Len(d)
    BY <2>2, <2>3, <2>4, <2>5, <2>6, <2>8
  <2>9. CASE ~(i <= Len(d))
    <3>1. Drop(u, n)[i] = t[n + i - Len(s)]
      BY <2>2, <2>3, <2>6, <2>9
    <3>2. (d \o t)[i] = t[i - Len(d)]
      BY <2>4, <2>9
    <3> QED BY <3>1, <3>2, <2>7
  <2> QED BY <2>8, <2>9
<1>8. Len(Drop(u, n)) = Len(d \o t)
  BY <1>1, <1>2, <1>3, <1>5, <1>6
<1>9. Drop(u, n) = d \o t
  <2> HIDE DEF d, u
  <2> QED BY <1>5, <1>6, <1>7, <1>8, SeqEqual
<1> QED BY <1>9

\* A prefix of a buffer is not changed by what is added behind it.
LEMMA PrefixKept ==
    ASSUME NEW s \in Seq(Nat), NEW t \in Seq(Nat), NEW n \in 1..Len(s)
    PROVE  SubSeq(s \o t, 1, n) = SubSeq(s, 1, n)
<1> DEFINE u == s \o t
<1>1. Len(s) \in Nat /\ Len(t) \in Nat /\ u \in Seq(Nat) /\ Len(u) = Len(s) + Len(t)
  BY LenProperties, ConcatProperties
<1>2. ASSUME NEW i \in 1..n PROVE u[i] = s[i]
  <2>1. i \in 1..(Len(s) + Len(t)) /\ i <= Len(s)
    BY <1>1
  <2> QED BY <2>1, ConcatProperties
<1> HIDE DEF u
<1>3. /\ SubSeq(u, 1, n) \in Seq(Nat) /\ Len(SubSeq(u, 1, n)) = n
      /\ SubSeq(s, 1, n) \in Seq(Nat) /\ Len(SubSeq(s, 1, n)) = n
  <2>1. n \in 0..Len(u) /\ n \in 0..Len(s)
    BY <1>1
  <2> QED BY <1>1, <2>1, Split
<1>4. ASSUME NEW i \in 1..Len(SubSeq(u, 1, n))
      PROVE  SubSeq(u, 1, n)[i] = SubSeq(s, 1, n)[i]
  <2>1. i \in 1..n /\ 1 + i - 1 = i /\ i \in 1..(n - 1 + 1)
    BY <1>1, <1>3
  <2>2. SubSeq(u, 1, n)[i] = u[i] /\ SubSeq(s, 1, n)[i] = s[i]
    BY <1>1, <2>1
  <2> QED BY <1>2, <2>1, <2>2
<1>5. SubSeq(u, 1, n) = SubSeq(s, 1, n)
  BY <1>3, <1>4, SeqEqual
<1> QED BY <1>5 DEF u

\* A run of bytes is a sequence as long as the difference of its ends.
LEMMA BytesType ==
    ASSUME NEW a \in Nat, NEW b \in Nat, a <= b
    PROVE  Bytes(a, b) \in Seq(Nat) /\ Len(Bytes(a, b)) = b - a
<1> DEFINE n == b - a
<1>1. n \in Nat
  OBVIOUS
<1>2. Bytes(a, b) \in [1..n -> Nat]
  BY <1>1 DEF Bytes
<1> HIDE DEF n
<1>3. Bytes(a, b) \in Seq(Nat) /\ Len(Bytes(a, b)) = n
  BY <1>1, <1>2
<1> QED BY <1>3 DEF n

LEMMA BytesEmpty ==
    ASSUME NEW a \in Nat
    PROVE  Bytes(a, a) = <<>>
<1>1. Bytes(a, a) \in Seq(Nat) /\ Len(Bytes(a, a)) = a - a
  BY BytesType
<1>2. Len(Bytes(a, a)) = 0
  BY <1>1
<1> QED BY <1>1, <1>2, EmptySeq

\* Two consecutive runs of bytes make one.
LEMMA BytesConcat ==
    ASSUME NEW a \in Nat, NEW b \in Nat, NEW c \in Nat, a <= b, b <= c
    PROVE  Bytes(a, b) \o Bytes(b, c) = Bytes(a, c)
<1>1. a <= c
  OBVIOUS
<1>2. /\ Bytes(a, b) \in Seq(Nat) /\ Len(Bytes(a, b)) = b - a
      /\ Bytes(b, c) \in Seq(Nat) /\ Len(Bytes(b, c)) = c - b
      /\ Bytes(a, c) \in Seq(Nat) /\ Len(Bytes(a, c)) = c - a
  BY <1>1, BytesType
<1> DEFINE u == Bytes(a, b) \o Bytes(b, c)
<1>3. u \in Seq(Nat) /\ Len(u) = c - a
  BY <1>2, ConcatProperties
<1>4. ASSUME NEW i \in 1..Len(u) PROVE u[i] = Bytes(a, c)[i]
  <2>1. u[i] = IF i <= b - a THEN Bytes(a, b)[i] ELSE Bytes(b, c)[i - (b - a)]
    <3>1. i \in 1..(Len(Bytes(a, b)) + Len(Bytes(b, c)))
      BY <1>2, <1>3
    <3>2. \A j \in 1..(Len(Bytes(a, b)) + Len(Bytes(b, c))) :
            u[j] = IF j <= Len(Bytes(a, b)) THEN Bytes(a, b)[j]
                   ELSE Bytes(b, c)[j - Len(Bytes(a, b))]
      BY <1>2, ConcatProperties
    <3> HIDE DEF u
    <3>3. u[i] = IF i <= Len(Bytes(a, b)) THEN Bytes(a, b)[i]
                 ELSE Bytes(b, c)[i - Len(Bytes(a, b))]
      BY <3>1, <3>2
    <3> QED BY <3>3, <1>2
  <2> QED BY <2>1, <1>3 DEF Bytes
<1>5. u = Bytes(a, c)
  BY <1>2, <1>3, <1>4, SeqEqual
<1> QED BY <1>5

-----------------------------------------------------------------------------
(* Types *)

\* The inductive invariant, in parts.  Control relates the io thread's place in
\* handle_write, the flag sending_ and the outstanding write.
Control ==
    /\ io # "idle" \/ inflight > 0 => sending
    /\ io = "rearm" => inflight = 0
    /\ inflight <= Len(send_buf)
    /\ link # "open" /\ io = "idle" => inflight = 0

\* What send_buf_ holds and the network does not have yet.
Pending == IF io \in {"partial", "full"} THEN Drop(send_buf, inflight) ELSE send_buf

Fifo ==
    ~overflowed =>
        /\ buf2_write = <<>>
        /\ link = "opening" => wire = <<>>
        /\ link = "open" => (wire \o Pending) \o write_buf = Bytes(base, accepted)

\* The blocks stay blocks: what is added fits.
LEMMA OverflowType ==
    ASSUME NEW blocks \in Seq(Block), NEW data \in Block
    PROVE  Overflow(blocks, data) \in Seq(Block)
<1> DEFINE room == IF blocks = <<>> THEN 0 ELSE WriteCap - Len(Last(blocks))
           n    == Least(room, Len(data))
           kept == IF blocks = <<>> THEN <<>>
                   ELSE Append(Front(blocks), Last(blocks) \o SubSeq(data, 1, n))
<1>1. data \in Seq(Nat) /\ Len(data) \in Nat /\ Len(data) <= WriteCap
  BY LenProperties DEF Block
<1>2. ASSUME blocks # <<>>
      PROVE  /\ Last(blocks) \in Seq(Nat) /\ Len(Last(blocks)) \in Nat
             /\ Len(Last(blocks)) <= WriteCap
  <2>1. Len(blocks) \in 1..Len(blocks)
    BY <1>2, EmptySeq, LenProperties
  <2>2. Last(blocks) \in Block
    BY <2>1, ElementOfSeq DEF Last
  <2> QED BY <2>2, LenProperties DEF Block
<1>3. room \in Nat /\ (blocks # <<>> => room = WriteCap - Len(Last(blocks)))
  BY <1>2 DEF WriteAssumption
<1>4. n \in 0..Len(data) /\ n <= room
  BY <1>1, <1>3, LeastFact
<1> HIDE DEF n, room
<1>5. /\ SubSeq(data, 1, n) \in Seq(Nat) /\ Len(SubSeq(data, 1, n)) = n
      /\ Drop(data, n) \in Seq(Nat) /\ Len(Drop(data, n)) = Len(data) - n
  BY <1>1, <1>4, Split
<1>6. Drop(data, n) \in Block
  BY <1>1, <1>4, <1>5 DEF Block
<1>7. kept \in Seq(Block)
  <2>1. CASE blocks = <<>>
    BY <2>1, EmptySeq
  <2>2. CASE blocks # <<>>
    <3>1. /\ Last(blocks) \o SubSeq(data, 1, n) \in Seq(Nat)
          /\ Len(Last(blocks) \o SubSeq(data, 1, n)) = Len(Last(blocks)) + n
      BY <2>2, <1>2, <1>5, ConcatProperties
    <3>2. Len(Last(blocks)) + n <= WriteCap
      BY <2>2, <1>2, <1>3, <1>4 DEF WriteAssumption
    <3>3. Last(blocks) \o SubSeq(data, 1, n) \in Block
      BY <3>1, <3>2 DEF Block
    <3>4. Front(blocks) \in Seq(Block)
      <4>1. /\ Len(blocks) \in Nat
            /\ \A i \in 1..(Len(blocks) - 1) : blocks[i] \in Block
        BY LenProperties, ElementOfSeq
      <4> QED BY <4>1, SubSeqProperties DEF Front
    <3> QED BY <2>2, <3>3, <3>4, AppendProperties
  <2> QED BY <2>1, <2>2
<1> HIDE DEF kept
<1>8. Append(kept, Drop(data, n)) \in Seq(Block)
  BY <1>6, <1>7, AppendProperties
<1> QED BY <1>7, <1>8 DEF Overflow, kept, n, room

IInv == TypeOK /\ Control /\ NoLostWakeup /\ Fifo

LEMMA InitInv == Init => IInv
<1> SUFFICES ASSUME Init PROVE IInv
  OBVIOUS
<1> USE DEF Init
<1>1. TypeOK
  <2>1. <<>> \in Seq(Nat) /\ Len(<<>>) = 0
    BY EmptySeq
  <2>2. <<>> \in Seq(Block)
    BY EmptySeq
  <2>3. 1 \in 1..MaxConns /\ 0 \in 0..SendCap /\ 0 \in 0..MaxBytes /\ 0 \in 0..0
    BY DEF WriteAssumption
  <2>4. 0 <= WriteCap /\ 0 <= SendCap /\ 0 \in Nat
    BY DEF WriteAssumption
  <2>5. /\ write_buf \in Seq(Nat) /\ Len(write_buf) <= WriteCap
        /\ send_buf \in Seq(Nat) /\ Len(send_buf) <= SendCap /\ wire \in Seq(Nat)
    BY <2>1, <2>4
  <2>6. link \in {"open", "opening", "closed"} /\ sending \in BOOLEAN
        /\ overflowed \in BOOLEAN /\ main \in {"idle", "posting"}
        /\ io \in {"idle", "partial", "full", "rearm"}
    OBVIOUS
  <2> QED BY <2>2, <2>3, <2>4, <2>5, <2>6 DEF TypeOK
<1>2. Control /\ NoLostWakeup
  BY EmptySeq DEF Control, NoLostWakeup
<1>3. Fifo
  <2>1. Bytes(0, 0) = <<>>
    BY BytesEmpty
  <2>2. (<<>> \o <<>>) \o <<>> = <<>>
    BY EmptySeq, ConcatEmptySeq
  <2> QED BY <2>1, <2>2 DEF Fifo, Pending
<1> QED BY <1>1, <1>2, <1>3 DEF IInv

\* Moving the first bytes of one buffer to the end of another that has room.
LEMMA Refill ==
    ASSUME NEW s \in Seq(Nat), NEW w \in Seq(Nat), NEW room \in Nat
    PROVE  /\ Least(room, Len(w)) \in 0..Len(w) /\ Least(room, Len(w)) <= room
           /\ SubSeq(w, 1, Least(room, Len(w))) \in Seq(Nat)
           /\ s \o SubSeq(w, 1, Least(room, Len(w))) \in Seq(Nat)
           /\ Len(s \o SubSeq(w, 1, Least(room, Len(w))))
                = Len(s) + Least(room, Len(w))
           /\ Drop(w, Least(room, Len(w))) \in Seq(Nat)
           /\ Len(Drop(w, Least(room, Len(w)))) = Len(w) - Least(room, Len(w))
           /\ SubSeq(w, 1, Least(room, Len(w))) \o Drop(w, Least(room, Len(w))) = w
<1> DEFINE m == Least(room, Len(w))
<1>1. Len(w) \in Nat
  BY LenProperties
<1>2. m \in 0..Len(w) /\ m <= room
  BY <1>1, LeastFact
<1> HIDE DEF m
<1>3. /\ SubSeq(w, 1, m) \in Seq(Nat) /\ Len(SubSeq(w, 1, m)) = m
      /\ Drop(w, m) \in Seq(Nat) /\ Len(Drop(w, m)) = Len(w) - m
      /\ SubSeq(w, 1, m) \o Drop(w, m) = w
  BY <1>2, Split
<1>4. /\ s \o SubSeq(w, 1, m) \in Seq(Nat)
      /\ Len(s \o SubSeq(w, 1, m)) = Len(s) + Len(SubSeq(w, 1, m))
  BY <1>3, ConcatProperties
<1>5. /\ m \in 0..Len(w) /\ m <= room
      /\ SubSeq(w, 1, m) \in Seq(Nat)
      /\ s \o SubSeq(w, 1, m) \in Seq(Nat)
      /\ Len(s \o SubSeq(w, 1, m)) = Len(s) + m
      /\ Drop(w, m) \in Seq(Nat)
      /\ Len(Drop(w, m)) = Len(w) - m
      /\ SubSeq(w, 1, m) \o Drop(w, m) = w
  BY <1>2, <1>3, <1>4
<1> QED BY <1>5 DEF m

\* What is pending is a sequence of bytes.
LEMMA PendingType == IInv => Pending \in Seq(Nat)
<1> SUFFICES ASSUME IInv PROVE Pending \in Seq(Nat)
  OBVIOUS
<1>1. send_buf \in Seq(Nat) /\ inflight \in 0..Len(send_buf)
  BY LenProperties DEF IInv, TypeOK, Control
<1>2. Drop(send_buf, inflight) \in Seq(Nat)
  BY <1>1, Split
<1> QED BY <1>1, <1>2 DEF Pending

\* Bytes that go from one buffer to the next stay where they are in the stream.
LEMMA FifoMove ==
    ASSUME IInv, NEW a \in Seq(Nat), NEW d \in Seq(Nat)
    PROVE  (wire \o (Pending \o a)) \o d = (wire \o Pending) \o (a \o d)
<1>1. wire \in Seq(Nat) /\ Pending \in Seq(Nat)
  BY PendingType DEF IInv, TypeOK
<1>2. wire \o (Pending \o a) = (wire \o Pending) \o a
  <2>1. \A x \in Seq(Nat) : \A p \in Seq(Nat) : (x \o p) \o a = x \o (p \o a)
    <3> TAKE x \in Seq(Nat)
    <3> TAKE p \in Seq(Nat)
    <3> QED BY ConcatNat
  <2> QED BY <1>1, <2>1, Zenon
<1>3. wire \o Pending \in Seq(Nat)
  BY <1>1, ConcatProperties
<1>4. \A z \in Seq(Nat) : (z \o a) \o d = z \o (a \o d)
  <2> TAKE z \in Seq(Nat)
  <2> QED BY ConcatNat
<1>5. ((wire \o Pending) \o a) \o d = (wire \o Pending) \o (a \o d)
  BY <1>3, <1>4, Zenon
<1> QED BY <1>2, <1>5, Zenon

LEMMA SendStep ==
    ASSUME IInv, NEW len \in Lens, Send(len)
    PROVE  IInv'
<1> DEFINE data == Bytes(accepted, accepted + len)
           n    == Least(WriteRoom, len)
<1>1. /\ write_buf \in Seq(Nat) /\ Len(write_buf) \in Nat
      /\ Len(write_buf) <= WriteCap /\ accepted \in Nat /\ base \in 0..accepted
      /\ len \in Nat /\ len <= WriteCap /\ WriteCap \in Nat
  BY LenProperties DEF IInv, TypeOK, WriteAssumption
<1>2. /\ data \in Seq(Nat) /\ Len(data) = len
      /\ Bytes(base, accepted) \o data = Bytes(base, accepted + len)
  <2>1. /\ accepted + len \in Nat /\ accepted <= accepted + len
        /\ base \in Nat /\ base <= accepted /\ (accepted + len) - accepted = len
    BY <1>1
  <2> QED BY <1>1, <2>1, BytesType, BytesConcat
<1>3. WriteRoom \in Nat /\ n = Least(WriteRoom, Len(data))
  BY <1>1, <1>2 DEF WriteRoom
<1> HIDE DEF n, data
<1>4. /\ n \in 0..len
      /\ write_buf \o SubSeq(data, 1, n) \in Seq(Nat)
      /\ Len(write_buf \o SubSeq(data, 1, n)) <= WriteCap
      /\ Drop(data, n) \in Seq(Nat) /\ Len(Drop(data, n)) = len - n
  <2>1. data \in Seq(Nat) /\ write_buf \in Seq(Nat)
    BY <1>1, <1>2
  <2>2. /\ n \in 0..Len(data) /\ n <= WriteRoom
        /\ write_buf \o SubSeq(data, 1, n) \in Seq(Nat)
        /\ Len(write_buf \o SubSeq(data, 1, n)) = Len(write_buf) + n
        /\ Drop(data, n) \in Seq(Nat) /\ Len(Drop(data, n)) = Len(data) - n
    BY <2>1, <1>3, Refill
  <2>3. Len(write_buf) + n <= WriteCap
    BY <1>1, <2>2 DEF WriteRoom
  <2> QED BY <2>2, <2>3, <1>2
<1>5. /\ link # "closed" /\ accepted + len <= MaxBytes
      /\ write_buf' = write_buf \o SubSeq(data, 1, n)
      /\ buf2_write' = IF n = len THEN buf2_write
                       ELSE Overflow(buf2_write, Drop(data, n))
      /\ overflowed' = (overflowed \/ n < len)
      /\ accepted' = accepted + len
      /\ UNCHANGED <<link, conn, send_buf, sending, inflight, io, main,
                     posted, wire, base>>
  BY DEF Send, data, n
<1>6. TypeOK'
  <2>1. buf2_write' \in Seq(Block)
    <3>1. Drop(data, n) \in Block
      BY <1>1, <1>4 DEF Block
    <3> QED BY <1>5, <3>1, OverflowType DEF IInv, TypeOK
  <2>2. write_buf' \in Seq(Nat) /\ Len(write_buf') <= WriteCap
    BY <1>4, <1>5
  <2>3. accepted' \in 0..MaxBytes /\ base' \in 0..accepted'
    BY <1>1, <1>5 DEF WriteAssumption
  <2>4. overflowed' \in BOOLEAN
    BY <1>5 DEF IInv, TypeOK
  <2> QED BY <1>5, <2>1, <2>2, <2>3, <2>4 DEF IInv, TypeOK
<1>7. Control' /\ NoLostWakeup'
  BY <1>5 DEF IInv, Control, NoLostWakeup
<1>8. Fifo'
  <2> SUFFICES ASSUME ~overflowed' PROVE Fifo'
    BY DEF Fifo
  <2>0. ~overflowed /\ ~(n < len)
    BY <1>5
  <2>1. ~overflowed /\ n = len
    BY <1>1, <1>4, <2>0
  <2>2. write_buf' = write_buf \o data
    BY <1>2, <1>5, <2>1, SubSeqFull
  <2>3. Pending' = Pending
    BY <1>5 DEF Pending, Drop
  <2>4. ASSUME link' = "open"
        PROVE  (wire \o Pending) \o write_buf' = Bytes(base, accepted')
    <3>1. (wire \o Pending) \o write_buf = Bytes(base, accepted)
      BY <1>5, <2>1, <2>4 DEF IInv, Fifo
    <3>2. wire \in Seq(Nat) /\ Pending \in Seq(Nat)
      BY PendingType DEF IInv, TypeOK
    <3>3. wire \o Pending \in Seq(Nat)
      BY <3>2, ConcatProperties
    <3>4. ((wire \o Pending) \o write_buf) \o data
            = (wire \o Pending) \o (write_buf \o data)
      <4> DEFINE x == wire \o Pending
      <4> HIDE DEF x
      <4>1. x \in Seq(Nat)
        BY <3>3 DEF x
      <4>2. write_buf \in Seq(Nat) /\ data \in Seq(Nat)
        BY <1>1, <1>2
      <4>3. (x \o write_buf) \o data = x \o (write_buf \o data)
        BY <4>1, <4>2, ConcatNat
      <4> QED BY <4>3 DEF x
    <3> QED BY <1>2, <1>5, <2>2, <3>1, <3>4
  <2>5. buf2_write' = <<>> /\ (link' = "opening" => wire' = <<>>)
    BY <1>5, <2>1 DEF IInv, Fifo
  <2>6. wire' = wire /\ base' = base
    BY <1>5
  <2> QED BY <2>3, <2>4, <2>5, <2>6 DEF Fifo
<1> QED BY <1>6, <1>7, <1>8 DEF IInv

\* The oldest block tops up write_buf_: everything stays within its bounds, and
\* without blocks nothing changes.
LEMMA TopUp ==
    ASSUME TypeOK, NEW n, NEW w, NEW blocks,
           n = IF buf2_write = <<>> THEN 0
               ELSE Least(WriteRoom, Len(Head(buf2_write))),
           w = IF n = 0 THEN write_buf
               ELSE write_buf \o SubSeq(Head(buf2_write), 1, n),
           blocks = IF n = 0 THEN buf2_write
                    ELSE IF n = Len(Head(buf2_write)) THEN Tail(buf2_write)
                    ELSE <<Drop(Head(buf2_write), n)>> \o Tail(buf2_write)
    PROVE  /\ w \in Seq(Nat) /\ Len(w) <= WriteCap
           /\ blocks \in Seq(Block)
           /\ buf2_write = <<>> => w = write_buf /\ blocks = <<>>
<1>1. /\ write_buf \in Seq(Nat) /\ Len(write_buf) \in Nat /\ WriteRoom \in Nat
      /\ WriteRoom = WriteCap - Len(write_buf) /\ Len(write_buf) <= WriteCap
      /\ WriteCap \in Nat
  BY LenProperties DEF TypeOK, WriteAssumption, WriteRoom
<1>2. CASE buf2_write = <<>>
  BY <1>1, <1>2 DEF TypeOK
<1>3. CASE buf2_write # <<>>
  <2> DEFINE h == Head(buf2_write)
  <2>1. h \in Block /\ Tail(buf2_write) \in Seq(Block)
    BY <1>3, HeadTailProperties DEF TypeOK
  <2>2. h \in Seq(Nat) /\ Len(h) \in Nat /\ Len(h) <= WriteCap
    BY <2>1, LenProperties DEF Block
  <2> HIDE DEF h
  <2>3. n = Least(WriteRoom, Len(h))
    BY <1>3 DEF h
  <2>4. /\ n \in 0..Len(h) /\ n <= WriteRoom
        /\ write_buf \o SubSeq(h, 1, n) \in Seq(Nat)
        /\ Len(write_buf \o SubSeq(h, 1, n)) = Len(write_buf) + n
        /\ Drop(h, n) \in Seq(Nat) /\ Len(Drop(h, n)) = Len(h) - n
    <3>1. n \in 0..Len(h) /\ n <= WriteRoom
      BY <1>1, <2>2, <2>3, LeastFact
    <3>2. /\ SubSeq(h, 1, n) \in Seq(Nat) /\ Len(SubSeq(h, 1, n)) = n
          /\ Drop(h, n) \in Seq(Nat) /\ Len(Drop(h, n)) = Len(h) - n
      BY <2>2, <3>1, Split
    <3>3. write_buf \in Seq(Nat)
      BY <1>1
    <3>4. /\ write_buf \o SubSeq(h, 1, n) \in Seq(Nat)
          /\ Len(write_buf \o SubSeq(h, 1, n)) = Len(write_buf) + Len(SubSeq(h, 1, n))
      BY <3>2, <3>3, ConcatProperties
    <3> QED BY <3>1, <3>2, <3>4
  <2>5. w \in Seq(Nat) /\ Len(w) <= WriteCap
    <3>1. Len(write_buf) + n <= WriteCap
      BY <1>1, <2>4
    <3> QED BY <1>1, <2>4, <3>1 DEF h
  <2>6. Drop(h, n) \in Block
    <3>1. Len(Drop(h, n)) <= WriteCap
      BY <1>1, <2>2, <2>4
    <3> QED BY <2>4, <3>1 DEF Block
  <2>7. <<Drop(h, n)>> \o Tail(buf2_write) \in Seq(Block)
    <3>1. <<Drop(h, n)>> \in Seq(Block)
      BY <2>6
    <3> QED BY <2>1, <3>1, ConcatProperties
  <2>8. blocks \in Seq(Block)
    BY <2>1, <2>7 DEF h, TypeOK
  <2> QED BY <1>3, <2>5, <2>8
<1> QED BY <1>2, <1>3

\* Bytes moved behind what is pending stay behind it.
LEMMA PendingGrows ==
    ASSUME IInv, NEW t \in Seq(Nat), send_buf' = send_buf \o t,
           UNCHANGED <<io, inflight>>
    PROVE  Pending' = Pending \o t
<1>1. send_buf \in Seq(Nat) /\ inflight \in 0..Len(send_buf)
  BY LenProperties DEF IInv, TypeOK, Control
<1>2. Drop(send_buf \o t, inflight) = Drop(send_buf, inflight) \o t
  BY <1>1, DropConcat
<1>3. CASE io \in {"partial", "full"}
  <2>1. Pending' = Drop(send_buf \o t, inflight)
    BY <1>3 DEF Pending, Drop
  <2> QED BY <1>2, <1>3, <2>1 DEF Pending
<1>4. CASE ~(io \in {"partial", "full"})
  BY <1>4 DEF Pending
<1> QED BY <1>3, <1>4

LEMMA PostMoveStep ==
    ASSUME IInv, PostMove
    PROVE  IInv'
<1> DEFINE n == IF buf2_write = <<>> THEN 0
                ELSE Least(WriteRoom, Len(Head(buf2_write)))
           w == IF n = 0 THEN write_buf
                ELSE write_buf \o SubSeq(Head(buf2_write), 1, n)
           blocks == IF n = 0 THEN buf2_write
                     ELSE IF n = Len(Head(buf2_write)) THEN Tail(buf2_write)
                     ELSE <<Drop(Head(buf2_write), n)>> \o Tail(buf2_write)
           m == Least(SendRoom, Len(w))
<1>1. /\ w \in Seq(Nat) /\ Len(w) <= WriteCap /\ blocks \in Seq(Block)
      /\ buf2_write = <<>> => w = write_buf /\ blocks = <<>>
  BY TopUp DEF IInv
<1>2. /\ link = "open" /\ main = "idle"
      /\ buf2_write' = blocks
      /\ write_buf' = Drop(w, m)
      /\ send_buf' = send_buf \o SubSeq(w, 1, m)
      /\ main' = IF m = 0 THEN "idle" ELSE "posting"
      /\ UNCHANGED <<link, conn, sending, inflight, io, posted, wire,
                     accepted, base, overflowed>>
  BY DEF PostMove
<1> HIDE DEF n, w, blocks
<1>3. /\ send_buf \in Seq(Nat) /\ SendRoom \in Nat /\ Len(send_buf) \in Nat
      /\ SendRoom = SendCap - Len(send_buf) /\ inflight \in Nat
      /\ Len(w) \in Nat /\ SendCap \in Nat /\ WriteCap \in Nat
  BY <1>1, LenProperties DEF IInv, TypeOK, WriteAssumption, SendRoom
<1>4. /\ m \in 0..Len(w) /\ m <= SendRoom
      /\ SubSeq(w, 1, m) \in Seq(Nat)
      /\ send_buf \o SubSeq(w, 1, m) \in Seq(Nat)
      /\ Len(send_buf \o SubSeq(w, 1, m)) = Len(send_buf) + m
      /\ Drop(w, m) \in Seq(Nat) /\ Len(Drop(w, m)) = Len(w) - m
      /\ SubSeq(w, 1, m) \o Drop(w, m) = w
  <2>1. m \in 0..Len(w) /\ m <= SendRoom
    BY <1>3, LeastFact
  <2> HIDE DEF m
  <2>2. /\ SubSeq(w, 1, m) \in Seq(Nat) /\ Len(SubSeq(w, 1, m)) = m
        /\ Drop(w, m) \in Seq(Nat) /\ Len(Drop(w, m)) = Len(w) - m
        /\ SubSeq(w, 1, m) \o Drop(w, m) = w
    BY <1>1, <2>1, Split
  <2>3. send_buf \in Seq(Nat)
    BY <1>3
  <2>4. /\ send_buf \o SubSeq(w, 1, m) \in Seq(Nat)
        /\ Len(send_buf \o SubSeq(w, 1, m)) = Len(send_buf) + Len(SubSeq(w, 1, m))
    BY <2>2, <2>3, ConcatProperties
  <2> QED BY <2>1, <2>2, <2>4
<1> HIDE DEF m
<1>5. /\ Len(send_buf') = Len(send_buf) + m /\ Len(send_buf') <= SendCap
      /\ Len(write_buf') <= WriteCap
  <2>1. Len(send_buf) + m <= SendCap /\ Len(w) - m <= WriteCap
    BY <1>1, <1>3, <1>4
  <2> QED BY <1>2, <1>4, <2>1
<1>6. TypeOK'
  BY <1>1, <1>2, <1>4, <1>5 DEF IInv, TypeOK
<1>7. Control'
  <2>1. inflight' <= Len(send_buf')
    BY <1>2, <1>3, <1>4, <1>5 DEF IInv, Control
  <2> QED BY <1>2, <2>1 DEF IInv, Control
<1>8. NoLostWakeup'
  <2>1. CASE m = 0
    <3>1. send_buf' = send_buf
      BY <1>2, <1>3, <2>1, NothingMoved, SubSeqEmpty, ConcatEmptySeq
    <3> QED BY <1>2, <2>1, <3>1 DEF IInv, NoLostWakeup
  <2>2. CASE m # 0
    BY <1>2, <2>2 DEF NoLostWakeup
  <2> QED BY <2>1, <2>2
<1>9. Fifo'
  <2> SUFFICES ASSUME ~overflowed' PROVE Fifo'
    BY DEF Fifo
  <2>1. ~overflowed /\ buf2_write = <<>>
    BY <1>2 DEF IInv, Fifo
  <2>2. w = write_buf /\ buf2_write' = <<>>
    BY <1>1, <1>2, <2>1
  <2>3. Pending' = Pending \o SubSeq(w, 1, m)
    BY <1>2, <1>4, PendingGrows
  <2>4. (wire \o Pending) \o write_buf = Bytes(base, accepted)
    BY <1>2, <2>1 DEF IInv, Fifo
  <2>5. wire \in Seq(Nat) /\ Pending \in Seq(Nat)
    BY PendingType DEF IInv, TypeOK
  <2> DEFINE a == SubSeq(w, 1, m)
             d == Drop(w, m)
  <2>6. a \in Seq(Nat) /\ d \in Seq(Nat) /\ a \o d = write_buf
    BY <1>4, <2>2
  <2> HIDE DEF a, d
  <2>7. (wire \o (Pending \o a)) \o d = (wire \o Pending) \o (a \o d)
    BY <2>6, FifoMove
  <2>8. (wire' \o Pending') \o write_buf' = Bytes(base', accepted')
    <3>1. /\ wire' = wire /\ Pending' = Pending \o a /\ write_buf' = d
          /\ Bytes(base', accepted') = Bytes(base, accepted)
      BY <1>2, <2>3 DEF a, d, Bytes
    <3> QED BY <2>4, <2>6, <2>7, <3>1
  <2> QED BY <1>2, <2>2, <2>8 DEF Fifo
<1> QED BY <1>6, <1>7, <1>8, <1>9 DEF IInv

\* Steps that leave the buffers, the wire and the outstanding write alone keep
\* the order of the bytes.
LEMMA FifoKept ==
    ASSUME IInv, UNCHANGED <<write_buf, buf2_write, send_buf, wire, accepted,
                             base, overflowed, inflight, link>>,
           io = io' \/ (inflight = 0 /\ ~(io \in {"partial", "full"})
                          /\ ~(io' \in {"partial", "full"}))
    PROVE  Fifo'
<1>1. Pending' = Pending
  BY DEF Pending, Drop
<1>2. Bytes(base', accepted') = Bytes(base, accepted)
  BY DEF Bytes
<1> QED BY <1>1, <1>2 DEF IInv, Fifo

LEMMA PostWakeupStep ==
    ASSUME IInv, PostWakeup
    PROVE  IInv'
<1>1. /\ main = "posting" /\ main' = "idle"
      /\ posted' = IF link = "open" THEN posted + 1 ELSE posted
      /\ UNCHANGED <<write_buf, buf2_write, send_buf, link, conn, sending,
                     inflight, io, wire, accepted, base, overflowed>>
  BY DEF PostWakeup, buffers
<1>2. posted' \in Nat /\ (link = "open" => posted' > 0)
  BY <1>1 DEF IInv, TypeOK
<1>3. TypeOK'
  BY <1>1, <1>2 DEF IInv, TypeOK
<1>4. Control' /\ NoLostWakeup'
  BY <1>1, <1>2 DEF IInv, Control, NoLostWakeup
<1>5. Fifo'
  BY <1>1, FifoKept
<1> QED BY <1>3, <1>4, <1>5 DEF IInv

\* A step that closes or opens the socket owes nothing about the bytes.
LEMMA FifoClosed ==
    ASSUME IInv, link' # "open", UNCHANGED <<buf2_write, overflowed>>,
           link' = "opening" => wire' = <<>>
    PROVE  Fifo'
BY DEF IInv, Fifo

LEMMA DoWriteStep ==
    ASSUME IInv, DoWrite
    PROVE  IInv'
<1>1. /\ io = "idle" /\ posted > 0 /\ posted' = posted - 1
      /\ UNCHANGED <<write_buf, buf2_write, send_buf, conn, io, main, wire,
                     accepted, base, overflowed>>
  BY DEF DoWrite, buffers
<1>2. posted' \in Nat
  BY <1>1 DEF IInv, TypeOK
<1>3. CASE ~sending /\ send_buf # <<>>
  <2>1. /\ sending' = TRUE
        /\ inflight' = IF link = "open" THEN Len(send_buf) ELSE 0
        /\ link' = IF link = "opening" THEN "closed" ELSE link
    BY <1>3 DEF DoWrite
  <2>2. Len(send_buf) \in 0..SendCap /\ SendCap \in Nat
    BY LenProperties DEF IInv, TypeOK, WriteAssumption
  <2>3. TypeOK'
    <3>1. /\ inflight' \in 0..SendCap /\ link' \in {"open", "opening", "closed"}
          /\ sending' \in BOOLEAN
      BY <2>1, <2>2 DEF IInv, TypeOK
    <3> QED BY <1>1, <1>2, <3>1 DEF IInv, TypeOK
  <2>4. Control' /\ NoLostWakeup'
    BY <1>1, <2>1, <2>2 DEF Control, NoLostWakeup
  <2>5. Fifo'
    <3>1. CASE link = "open"
      <4>1. link' = link /\ Pending' = Pending /\ Bytes(base', accepted') = Bytes(base, accepted)
        BY <1>1, <2>1, <3>1 DEF Pending, Bytes
      <4> QED BY <1>1, <3>1, <4>1 DEF IInv, Fifo
    <3>2. CASE link # "open"
      <4>1. link' = "closed"
        BY <2>1, <3>2 DEF IInv, TypeOK
      <4> QED BY <1>1, <4>1, FifoClosed
    <3> QED BY <3>1, <3>2
  <2> QED BY <2>3, <2>4, <2>5 DEF IInv
<1>4. CASE ~(~sending /\ send_buf # <<>>)
  <2>1. UNCHANGED <<sending, inflight, link>>
    BY <1>4 DEF DoWrite
  <2>2. TypeOK'
    BY <1>1, <1>2, <2>1 DEF IInv, TypeOK
  <2>3. Control' /\ NoLostWakeup'
    BY <1>1, <1>4, <2>1 DEF IInv, Control, NoLostWakeup
  <2>4. Fifo'
    BY <1>1, <2>1, FifoKept
  <2> QED BY <2>2, <2>3, <2>4 DEF IInv
<1> QED BY <1>3, <1>4

LEMMA HandleWriteStep ==
    ASSUME IInv, HandleWrite
    PROVE  IInv'
<1>1. /\ link = "open" /\ io = "idle" /\ inflight > 0
      /\ wire' = wire \o SubSeq(send_buf, 1, inflight)
      /\ io' = IF inflight < Len(send_buf) THEN "partial" ELSE "full"
      /\ UNCHANGED <<write_buf, buf2_write, send_buf, link, conn, sending,
                     inflight, main, posted, accepted, base, overflowed>>
  BY DEF HandleWrite, buffers
<1>2. /\ send_buf \in Seq(Nat) /\ inflight \in 0..Len(send_buf)
      /\ wire \in Seq(Nat) /\ sending
  BY <1>1, LenProperties DEF IInv, TypeOK, Control
<1> DEFINE a == SubSeq(send_buf, 1, inflight)
           d == Drop(send_buf, inflight)
<1>3. a \in Seq(Nat) /\ d \in Seq(Nat) /\ a \o d = send_buf
  BY <1>2, Split
<1>4. wire' \in Seq(Nat)
  BY <1>1, <1>2, <1>3, ConcatProperties
<1>5. TypeOK'
  BY <1>1, <1>4 DEF IInv, TypeOK
<1>6. Control' /\ NoLostWakeup'
  BY <1>1, <1>2 DEF IInv, Control, NoLostWakeup
<1>7. wire' \o Pending' = wire \o Pending
  <2>1. Pending' = d /\ Pending = send_buf /\ wire' = wire \o a
    BY <1>1 DEF Pending, Drop
  <2> HIDE DEF a, d
  <2>2. (wire \o a) \o d = wire \o (a \o d)
    <3>1. a \in Seq(Nat) /\ d \in Seq(Nat)
      BY <1>3
    <3>2. \A x \in Seq(Nat) : (x \o a) \o d = x \o (a \o d)
      <4> TAKE x \in Seq(Nat)
      <4> QED BY <3>1, ConcatNat
    <3> QED BY <1>2, <3>2, Zenon
  <2> QED BY <1>3, <2>1, <2>2
<1>8. Fifo'
  <2>1. Bytes(base', accepted') = Bytes(base, accepted)
    BY <1>1 DEF Bytes
  <2> QED BY <1>1, <1>7, <2>1 DEF IInv, Fifo
<1> QED BY <1>5, <1>6, <1>8 DEF IInv

LEMMA HandlePartialStep ==
    ASSUME IInv, HandlePartial
    PROVE  IInv'
<1>1. /\ io = "partial" /\ send_buf' = Drop(send_buf, inflight)
      /\ inflight' = 0 /\ io' = "rearm"
      /\ UNCHANGED <<link, conn, write_buf, buf2_write, sending, main, posted,
                     wire, accepted, base, overflowed>>
  BY DEF HandlePartial
<1>2. /\ send_buf \in Seq(Nat) /\ inflight \in 0..Len(send_buf)
      /\ Len(send_buf) \in Nat /\ Len(send_buf) <= SendCap /\ sending
      /\ SendCap \in Nat
  BY <1>1, LenProperties DEF IInv, TypeOK, Control, WriteAssumption
<1>3. send_buf' \in Seq(Nat) /\ Len(send_buf') = Len(send_buf) - inflight
  BY <1>1, <1>2, Split
<1>4. Len(send_buf') \in Nat /\ Len(send_buf') <= SendCap
  BY <1>2, <1>3
<1>5. TypeOK'
  <2>1. inflight' \in 0..SendCap
    BY <1>1, <1>2
  <2> QED BY <1>1, <1>3, <1>4, <2>1 DEF IInv, TypeOK
<1>6. Control' /\ NoLostWakeup'
  BY <1>1, <1>2, <1>4 DEF IInv, Control, NoLostWakeup
<1>7. Fifo'
  <2>1. Pending' = Pending /\ Bytes(base', accepted') = Bytes(base, accepted)
    BY <1>1 DEF Pending, Bytes
  <2> QED BY <1>1, <2>1 DEF IInv, Fifo
<1> QED BY <1>5, <1>6, <1>7 DEF IInv

LEMMA HandleFullStep ==
    ASSUME IInv, HandleFull
    PROVE  IInv'
<1> DEFINE rest == Drop(send_buf, inflight)
           m == Least(SendCap - Len(rest), Len(write_buf))
           a == SubSeq(write_buf, 1, m)
           d == Drop(write_buf, m)
<1>1. /\ io = "full" /\ send_buf' = rest \o a /\ write_buf' = d
      /\ inflight' = 0
      /\ send_buf' # <<>> => sending' = sending /\ io' = "rearm"
      /\ send_buf' = <<>> => sending' = FALSE /\ io' = "idle"
      /\ UNCHANGED <<link, conn, buf2_write, main, posted, wire, accepted,
                     base, overflowed>>
  BY DEF HandleFull, MoreToSend
<1>2. /\ send_buf \in Seq(Nat) /\ inflight \in 0..Len(send_buf)
      /\ Len(send_buf) \in Nat /\ Len(send_buf) <= SendCap /\ sending
      /\ write_buf \in Seq(Nat) /\ Len(write_buf) \in Nat
      /\ Len(write_buf) <= WriteCap /\ SendCap \in Nat /\ WriteCap \in Nat
  BY <1>1, LenProperties DEF IInv, TypeOK, Control, WriteAssumption
<1>3. rest \in Seq(Nat) /\ Len(rest) = Len(send_buf) - inflight
  BY <1>2, Split
<1> HIDE DEF rest
<1>4. m \in 0..Len(write_buf) /\ m <= SendCap - Len(rest)
  <2> DEFINE room == SendCap - Len(rest)
  <2>1. room \in Nat
    BY <1>2, <1>3
  <2> HIDE DEF room
  <2>2. Least(room, Len(write_buf)) \in 0..Len(write_buf)
        /\ Least(room, Len(write_buf)) <= room
    BY <1>2, <2>1, LeastFact
  <2> QED BY <2>2 DEF room
<1> HIDE DEF m
<1>5. /\ a \in Seq(Nat) /\ Len(a) = m
      /\ d \in Seq(Nat) /\ Len(d) = Len(write_buf) - m /\ a \o d = write_buf
  BY <1>2, <1>4, Split
<1> HIDE DEF a, d
<1>6. rest \o a \in Seq(Nat) /\ Len(rest \o a) = Len(rest) + Len(a)
  BY <1>3, <1>5, ConcatProperties
<1>7. Len(rest \o a) <= SendCap /\ Len(d) <= WriteCap
  BY <1>2, <1>3, <1>4, <1>5, <1>6
<1>8. TypeOK'
  <2>1. /\ io' \in {"idle", "partial", "full", "rearm"}
        /\ inflight' \in 0..SendCap
    <3>1. io' = "rearm" \/ io' = "idle"
      BY <1>1
    <3>2. inflight' = 0 /\ 0 \in 0..SendCap
      BY <1>1, <1>2
    <3> QED BY <3>1, <3>2
  <2>3. sending' \in BOOLEAN
    <3>1. sending' = sending \/ sending' = FALSE
      BY <1>1, Zenon
    <3> QED BY <3>1, Zenon DEF IInv, TypeOK
  <2>2. /\ write_buf' \in Seq(Nat) /\ Len(write_buf') <= WriteCap
        /\ send_buf' \in Seq(Nat) /\ Len(send_buf') <= SendCap
    BY <1>1, <1>5, <1>6, <1>7
  <2> QED BY <1>1, <2>1, <2>2, <2>3 DEF IInv, TypeOK
<1>9. Control' /\ NoLostWakeup'
  <2>1. Len(send_buf') \in Nat
    BY <1>1, <1>6, LenProperties
  <2>2. Control'
    <3>1. io' # "idle" \/ inflight' > 0 => sending'
      <4>1. CASE send_buf' = <<>>
        BY <1>1, <4>1
      <4>2. CASE send_buf' # <<>>
        <5>1. sending' = sending /\ sending
          BY <1>1, <1>2, <4>2, Zenon
        <5> QED BY <5>1, Zenon
      <4> QED BY <4>1, <4>2
    <3>2. /\ io' = "rearm" => inflight' = 0
          /\ inflight' <= Len(send_buf')
          /\ link' # "open" /\ io' = "idle" => inflight' = 0
      BY <1>1, <2>1
    <3> QED BY <3>1, <3>2 DEF Control
  <2>3. NoLostWakeup'
    BY <1>1, <1>2 DEF NoLostWakeup
  <2> QED BY <2>2, <2>3
<1>10. Fifo'
  <2> SUFFICES ASSUME ~overflowed' PROVE Fifo'
    BY DEF Fifo
  <2>1. ~overflowed /\ Bytes(base', accepted') = Bytes(base, accepted)
    BY <1>1 DEF Bytes
  <2>2. Pending = rest /\ Pending' = Pending \o a
    BY <1>1 DEF Pending, rest
  <2>3. ASSUME link' = "open"
        PROVE  (wire' \o Pending') \o write_buf' = Bytes(base', accepted')
    <3>1. (wire \o Pending) \o write_buf = Bytes(base, accepted)
      BY <1>1, <2>1, <2>3 DEF IInv, Fifo
    <3>2. (wire \o (Pending \o a)) \o d = (wire \o Pending) \o (a \o d)
      BY <1>5, FifoMove
    <3> QED BY <1>1, <1>5, <2>1, <2>2, <3>1, <3>2
  <2>4. buf2_write' = <<>> /\ (link' = "opening" => wire' = <<>>)
    BY <1>1, <2>1 DEF IInv, Fifo
  <2> QED BY <2>3, <2>4 DEF Fifo
<1> QED BY <1>8, <1>9, <1>10 DEF IInv

LEMMA RearmStep ==
    ASSUME IInv, Rearm
    PROVE  IInv'
<1>1. /\ io = "rearm" /\ io' = "idle"
      /\ inflight' = IF link = "open" THEN Len(send_buf) ELSE 0
      /\ link' = IF link = "opening" THEN "closed" ELSE link
      /\ UNCHANGED <<write_buf, buf2_write, send_buf, conn, sending, main,
                     posted, wire, accepted, base, overflowed>>
  BY DEF Rearm, buffers
<1>2. /\ Len(send_buf) \in 0..SendCap /\ SendCap \in Nat /\ sending
      /\ inflight = 0
  BY <1>1, LenProperties DEF IInv, TypeOK, Control, WriteAssumption
<1>3. TypeOK'
  <2>1. /\ inflight' \in 0..SendCap /\ link' \in {"open", "opening", "closed"}
        /\ io' \in {"idle", "partial", "full", "rearm"}
    BY <1>1, <1>2 DEF IInv, TypeOK
  <2> QED BY <1>1, <2>1 DEF IInv, TypeOK
<1>4. Control' /\ NoLostWakeup'
  BY <1>1, <1>2 DEF IInv, Control, NoLostWakeup
<1>5. Fifo'
  <2>1. CASE link = "open"
    <3>1. /\ link' = link /\ Pending' = Pending
          /\ Bytes(base', accepted') = Bytes(base, accepted)
      BY <1>1, <2>1 DEF Pending, Bytes
    <3> QED BY <1>1, <2>1, <3>1 DEF IInv, Fifo
  <2>2. CASE link # "open"
    <3>1. link' = "closed"
      BY <1>1, <2>2 DEF IInv, TypeOK
    <3> QED BY <1>1, <3>1, FifoClosed
  <2> QED BY <2>1, <2>2
<1> QED BY <1>3, <1>4, <1>5 DEF IInv

LEMMA CloseStep ==
    ASSUME IInv, Close
    PROVE  IInv'
<1>1. /\ link # "closed" /\ link' = "closed"
      /\ UNCHANGED <<write_buf, buf2_write, send_buf, conn, sending, io, main,
                     posted, accepted, base, overflowed>>
  BY DEF Close, buffers
<1>2. /\ send_buf \in Seq(Nat) /\ inflight \in 0..Len(send_buf)
      /\ inflight \in 0..SendCap /\ Len(send_buf) \in Nat /\ SendCap \in Nat
      /\ wire \in Seq(Nat)
  BY LenProperties DEF IInv, TypeOK, Control, WriteAssumption
<1>3. /\ wire' \in Seq(Nat)
      /\ inflight' = IF io = "idle" THEN 0 ELSE inflight
  <2>1. CASE io = "idle"
    <3>1. PICK n \in 0..inflight : wire' = wire \o SubSeq(send_buf, 1, n)
      BY <2>1 DEF Close
    <3>2. n \in 0..Len(send_buf)
      BY <1>2
    <3>3. SubSeq(send_buf, 1, n) \in Seq(Nat)
      BY <1>2, <3>2, Split
    <3>4. wire \o SubSeq(send_buf, 1, n) \in Seq(Nat)
      BY <1>2, <3>3, ConcatProperties
    <3> QED BY <2>1, <3>1, <3>4 DEF Close
  <2>2. CASE io # "idle"
    BY <2>2, <1>2 DEF Close
  <2> QED BY <2>1, <2>2
<1>4. TypeOK'
  <2>1. inflight' \in 0..SendCap
    BY <1>2, <1>3
  <2> QED BY <1>1, <1>3, <2>1 DEF IInv, TypeOK
<1>5. Control' /\ NoLostWakeup'
  BY <1>1, <1>2, <1>3 DEF IInv, Control, NoLostWakeup
<1>6. Fifo'
  BY <1>1, FifoClosed
<1> QED BY <1>4, <1>5, <1>6 DEF IInv

LEMMA ConnectStep ==
    ASSUME IInv, Connect
    PROVE  IInv'
<1>1. /\ link = "closed" /\ conn < MaxConns
      /\ link' = "opening" /\ conn' = conn + 1 /\ wire' = <<>>
      /\ UNCHANGED <<write_buf, buf2_write, send_buf, sending, inflight, io,
                     main, posted, accepted, base, overflowed>>
  BY DEF Connect, buffers
<1>2. conn' \in 1..MaxConns /\ wire' \in Seq(Nat)
  BY <1>1, EmptySeq DEF IInv, TypeOK, WriteAssumption
<1>3. TypeOK'
  BY <1>1, <1>2 DEF IInv, TypeOK
<1>4. Control' /\ NoLostWakeup'
  BY <1>1 DEF IInv, Control, NoLostWakeup
<1>5. Fifo'
  BY <1>1, FifoClosed
<1> QED BY <1>3, <1>4, <1>5 DEF IInv

LEMMA ResetStep ==
    ASSUME IInv, Reset
    PROVE  IInv'
<1>1. /\ link = "opening" /\ io = "idle" /\ link' = "open"
      /\ sending' = FALSE /\ send_buf' = <<>> /\ write_buf' = <<>>
      /\ base' = accepted
      /\ UNCHANGED <<conn, buf2_write, inflight, io, main, posted, wire,
                     accepted, overflowed>>
  BY DEF Reset
<1>2. /\ accepted \in Nat /\ inflight = 0 /\ WriteCap \in Nat /\ SendCap \in Nat
      /\ <<>> \in Seq(Nat) /\ Len(<<>>) = 0
  BY <1>1, EmptySeq DEF IInv, TypeOK, Control, WriteAssumption
<1>3. TypeOK'
  <2>1. base' \in 0..accepted'
    BY <1>1, <1>2
  <2>3. link' \in {"open", "opening", "closed"} /\ sending' \in BOOLEAN
    BY <1>1
  <2>2. /\ write_buf' \in Seq(Nat) /\ Len(write_buf') <= WriteCap
        /\ send_buf' \in Seq(Nat) /\ Len(send_buf') <= SendCap
    BY <1>1, <1>2
  <2> QED BY <1>1, <2>1, <2>2, <2>3 DEF IInv, TypeOK
<1>4. Control' /\ NoLostWakeup'
  BY <1>1, <1>2 DEF IInv, Control, NoLostWakeup
<1>5. Fifo'
  <2>1. Bytes(base', accepted') = <<>>
    <3>1. Bytes(accepted, accepted) = <<>>
      BY <1>2, BytesEmpty
    <3> QED BY <1>1, <3>1 DEF Bytes
  <2>2. Pending' = <<>>
    BY <1>1 DEF Pending
  <2>3. ASSUME ~overflowed' PROVE buf2_write' = <<>> /\ wire' = <<>>
    BY <1>1, <2>3 DEF IInv, Fifo
  <2>4. (<<>> \o <<>>) \o <<>> = <<>>
    BY EmptySeq, ConcatEmptySeq
  <2> QED BY <1>1, <2>1, <2>2, <2>3, <2>4 DEF Fifo
<1> QED BY <1>3, <1>4, <1>5 DEF IInv

-----------------------------------------------------------------------------
(* Every byte in one place *)

Distinct(s) == \A i, j \in 1..Len(s) : s[i] = s[j] => i = j
Held(s) == {s[i] : i \in 1..Len(s)}
BlocksHeld(b) == UNION {Held(b[j]) : j \in 1..Len(b)}
BlocksDistinct(b) ==
    /\ \A j \in 1..Len(b) : Distinct(b[j])
    /\ \A j, k \in 1..Len(b) : j # k => Held(b[j]) \cap Held(b[k]) = {}

\* What two buffers hold, they hold one behind the other.
LEMMA HeldConcat ==
    ASSUME NEW s \in Seq(Nat), NEW t \in Seq(Nat)
    PROVE  /\ Held(s \o t) = Held(s) \union Held(t)
           /\ Distinct(s \o t) <=>
                Distinct(s) /\ Distinct(t) /\ Held(s) \cap Held(t) = {}
<1> DEFINE u == s \o t
           m == Len(s)
           n == Len(t)
<1>1. /\ m \in Nat /\ n \in Nat /\ Len(u) = m + n
      /\ \A i \in 1..(m + n) : u[i] = IF i <= m THEN s[i] ELSE t[i - m]
  BY ConcatProperties, LenProperties
<1> HIDE DEF u, m, n
<1>2. \A i \in 1..m : i \in 1..(m + n) /\ u[i] = s[i]
  BY <1>1
<1>3. \A i \in 1..n : m + i \in 1..(m + n) /\ u[m + i] = t[i]
  <2> TAKE i \in 1..n
  <2>1. m + i \in 1..(m + n) /\ ~(m + i <= m) /\ (m + i) - m = i
    BY <1>1
  <2> QED BY <1>1, <2>1
<1>4. \A i \in 1..(m + n) : \/ i \in 1..m /\ u[i] = s[i]
                            \/ i - m \in 1..n /\ u[i] = t[i - m]
  <2> TAKE i \in 1..(m + n)
  <2>1. CASE i <= m
    BY <1>1, <2>1
  <2>2. CASE ~(i <= m)
    <3>1. i - m \in 1..n
      BY <1>1, <2>2
    <3> QED BY <1>1, <2>2, <3>1
  <2> QED BY <2>1, <2>2
<1>5. Held(u) = Held(s) \union Held(t)
  <2>1. Held(u) = {u[i] : i \in 1..(m + n)} /\ Held(s) = {s[i] : i \in 1..m}
        /\ Held(t) = {t[i] : i \in 1..n}
    BY <1>1 DEF Held, m, n
  <2>2. ASSUME NEW x \in Held(u) PROVE x \in Held(s) \union Held(t)
    <3>1. PICK i \in 1..(m + n) : x = u[i]
      BY <2>1, <2>2
    <3> QED BY <1>4, <2>1, <3>1
  <2>3. ASSUME NEW x \in Held(s) PROVE x \in Held(u)
    <3>1. PICK i \in 1..m : x = s[i]
      BY <2>1, <2>3
    <3> QED BY <1>2, <2>1, <3>1
  <2>4. ASSUME NEW x \in Held(t) PROVE x \in Held(u)
    <3>1. PICK i \in 1..n : x = t[i]
      BY <2>1, <2>4
    <3> QED BY <1>3, <2>1, <3>1
  <2> QED BY <2>2, <2>3, <2>4
<1>6. ASSUME Distinct(u)
      PROVE  Distinct(s) /\ Distinct(t) /\ Held(s) \cap Held(t) = {}
  <2>1. \A i, j \in 1..(m + n) : u[i] = u[j] => i = j
    BY <1>1, <1>6 DEF Distinct
  <2>2. Distinct(s)
    BY <1>2, <2>1 DEF Distinct, m
  <2>3. Distinct(t)
    <3>1. \A i, j \in 1..n : t[i] = t[j] => i = j
      <4> TAKE i, j \in 1..n
      <4> HAVE t[i] = t[j]
      <4>1. m + i = m + j
        BY <1>3, <2>1
      <4> QED BY <1>1, <4>1
    <3> QED BY <3>1 DEF Distinct, n
  <2>4. \A i \in 1..m : \A j \in 1..n : s[i] # t[j]
    <3> SUFFICES ASSUME NEW i \in 1..m, NEW j \in 1..n, s[i] = t[j] PROVE FALSE
      OBVIOUS
    <3>1. i = m + j
      BY <1>2, <1>3, <2>1
    <3> QED BY <1>1, <3>1
  <2> QED BY <2>2, <2>3, <2>4 DEF Held, m, n
<1>7. ASSUME Distinct(s), Distinct(t), Held(s) \cap Held(t) = {}
      PROVE  Distinct(u)
  <2>1. /\ \A i, j \in 1..m : s[i] = s[j] => i = j
        /\ \A i, j \in 1..n : t[i] = t[j] => i = j
    BY <1>7 DEF Distinct, m, n
  <2>2. \A i \in 1..m : \A j \in 1..n : s[i] # t[j]
    BY <1>7 DEF Held, m, n
  <2>3. \A i, j \in 1..(m + n) : u[i] = u[j] => i = j
    <3> TAKE i, j \in 1..(m + n)
    <3> HAVE u[i] = u[j]
    <3>1. CASE i \in 1..m /\ u[i] = s[i]
      BY <1>4, <2>1, <2>2, <3>1
    <3>2. CASE i - m \in 1..n /\ u[i] = t[i - m]
      <4>1. j - m \in 1..n /\ u[j] = t[j - m]
        BY <1>4, <2>2, <3>2
      <4>2. i - m = j - m
        BY <2>1, <3>2, <4>1
      <4> QED BY <1>1, <4>2
    <3> QED BY <1>4, <3>1, <3>2
  <2> QED BY <1>1, <2>3 DEF Distinct
<1> QED BY <1>5, <1>6, <1>7 DEF u

\* A block at the end of the deque.
LEMMA HeldAppend ==
    ASSUME NEW b \in Seq(Block), NEW x \in Block
    PROVE  /\ BlocksHeld(Append(b, x)) = BlocksHeld(b) \union Held(x)
           /\ BlocksDistinct(Append(b, x)) <=>
                BlocksDistinct(b) /\ Distinct(x) /\ BlocksHeld(b) \cap Held(x) = {}
<1> DEFINE c == Append(b, x)
           n == Len(b)
<1>1. /\ n \in Nat /\ Len(c) = n + 1 /\ c[n + 1] = x
      /\ \A j \in 1..n : c[j] = b[j]
  BY AppendProperties, LenProperties
<1> HIDE DEF c, n
<1>2. 1..(n + 1) = (1..n) \union {n + 1} /\ n + 1 \notin 1..n
  BY <1>1
<1>3. BlocksHeld(b) = UNION {Held(b[j]) : j \in 1..n}
  BY DEF BlocksHeld, n
<1>4. BlocksHeld(c) = UNION {Held(c[j]) : j \in 1..(n + 1)}
  BY <1>1 DEF BlocksHeld
<1>5. \A j \in 1..n : Held(c[j]) = Held(b[j]) /\ (Distinct(c[j]) <=> Distinct(b[j]))
  BY <1>1
<1>6. Held(c[n + 1]) = Held(x) /\ (Distinct(c[n + 1]) <=> Distinct(x))
  BY <1>1
<1>7. BlocksHeld(c) = BlocksHeld(b) \union Held(x)
  BY <1>2, <1>3, <1>4, <1>5, <1>6
<1>8. BlocksDistinct(b) <=>
        /\ \A j \in 1..n : Distinct(b[j])
        /\ \A j, k \in 1..n : j # k => Held(b[j]) \cap Held(b[k]) = {}
  BY DEF BlocksDistinct, n
<1>9. BlocksDistinct(c) <=>
        /\ \A j \in 1..(n + 1) : Distinct(c[j])
        /\ \A j, k \in 1..(n + 1) : j # k => Held(c[j]) \cap Held(c[k]) = {}
  BY <1>1 DEF BlocksDistinct
<1>10. BlocksHeld(b) \cap Held(x) = {} <=> \A j \in 1..n : Held(b[j]) \cap Held(x) = {}
  BY <1>3
<1>11. (\A j \in 1..(n + 1) : Distinct(c[j])) <=> (\A j \in 1..n : Distinct(b[j])) /\ Distinct(x)
  BY <1>2, <1>5, <1>6
<1>12. (\A j, k \in 1..(n + 1) : j # k => Held(c[j]) \cap Held(c[k]) = {}) <=>
         /\ \A j, k \in 1..n : j # k => Held(b[j]) \cap Held(b[k]) = {}
         /\ \A j \in 1..n : Held(b[j]) \cap Held(x) = {}
  BY <1>2, <1>5, <1>6
<1> QED BY <1>7, <1>8, <1>9, <1>10, <1>11, <1>12 DEF c

\* A block at the front of the deque.
LEMMA HeldCons ==
    ASSUME NEW b \in Seq(Block), NEW x \in Block
    PROVE  /\ BlocksHeld(<<x>> \o b) = BlocksHeld(b) \union Held(x)
           /\ BlocksDistinct(<<x>> \o b) <=>
                BlocksDistinct(b) /\ Distinct(x) /\ BlocksHeld(b) \cap Held(x) = {}
<1> DEFINE c == <<x>> \o b
           n == Len(b)
<1>1. /\ n \in Nat /\ Len(c) = n + 1 /\ c[1] = x
      /\ \A j \in 1..n : c[j + 1] = b[j]
  <2>1. <<x>> \in Seq(Block) /\ Len(<<x>>) = 1 /\ <<x>>[1] = x
    OBVIOUS
  <2>2. n \in Nat
    BY LenProperties
  <2>3. Len(c) = 1 + n /\ \A i \in 1..(1 + n) : c[i] = IF i <= 1 THEN <<x>>[i] ELSE b[i - 1]
    BY <2>1, ConcatProperties
  <2>4. 1 \in 1..(1 + n) /\ \A j \in 1..n : j + 1 \in 1..(1 + n) /\ ~(j + 1 <= 1) /\ (j + 1) - 1 = j
    BY <2>2
  <2> QED BY <2>1, <2>2, <2>3, <2>4
<1> HIDE DEF c, n
<1>2. \A i \in 1..(n + 1) : i = 1 \/ \E j \in 1..n : i = j + 1
  <2> TAKE i \in 1..(n + 1)
  <2>1. i = 1 \/ (i - 1 \in 1..n /\ i = (i - 1) + 1)
    BY <1>1
  <2> QED BY <2>1
<1>3. BlocksHeld(b) = UNION {Held(b[j]) : j \in 1..n}
  BY DEF BlocksHeld, n
<1>4. BlocksHeld(c) = UNION {Held(c[j]) : j \in 1..(n + 1)}
  BY <1>1 DEF BlocksHeld
<1>5. \A j \in 1..n : /\ Held(c[j + 1]) = Held(b[j]) /\ (Distinct(c[j + 1]) <=> Distinct(b[j]))
                      /\ j + 1 \in 1..(n + 1) /\ j + 1 # 1
  BY <1>1
<1>6. Held(c[1]) = Held(x) /\ (Distinct(c[1]) <=> Distinct(x)) /\ 1 \in 1..(n + 1)
  BY <1>1
<1>7. BlocksHeld(c) = BlocksHeld(b) \union Held(x)
  <2>1. BlocksHeld(c) \subseteq BlocksHeld(b) \union Held(x)
    <3> SUFFICES ASSUME NEW i \in 1..(n + 1) PROVE Held(c[i]) \subseteq BlocksHeld(b) \union Held(x)
      BY <1>4
    <3> QED BY <1>2, <1>3, <1>5, <1>6
  <2>2. Held(x) \subseteq BlocksHeld(c)
    BY <1>4, <1>6
  <2>3. BlocksHeld(b) \subseteq BlocksHeld(c)
    BY <1>3, <1>4, <1>5
  <2> QED BY <2>1, <2>2, <2>3
<1>8. BlocksDistinct(b) <=>
        /\ \A j \in 1..n : Distinct(b[j])
        /\ \A j, k \in 1..n : j # k => Held(b[j]) \cap Held(b[k]) = {}
  BY DEF BlocksDistinct, n
<1>9. BlocksDistinct(c) <=>
        /\ \A j \in 1..(n + 1) : Distinct(c[j])
        /\ \A j, k \in 1..(n + 1) : j # k => Held(c[j]) \cap Held(c[k]) = {}
  BY <1>1 DEF BlocksDistinct
<1>10. BlocksHeld(b) \cap Held(x) = {} <=> \A j \in 1..n : Held(b[j]) \cap Held(x) = {}
  BY <1>3
<1>11. (\A j \in 1..(n + 1) : Distinct(c[j])) <=> (\A j \in 1..n : Distinct(b[j])) /\ Distinct(x)
  BY <1>2, <1>5, <1>6
<1>12. (\A j, k \in 1..(n + 1) : j # k => Held(c[j]) \cap Held(c[k]) = {}) <=>
         /\ \A j, k \in 1..n : j # k => Held(b[j]) \cap Held(b[k]) = {}
         /\ \A j \in 1..n : Held(b[j]) \cap Held(x) = {}
  <2>1. \A j, k \in 1..n : j + 1 = k + 1 <=> j = k
    OBVIOUS
  <2>2. ASSUME \A j, k \in 1..(n + 1) : j # k => Held(c[j]) \cap Held(c[k]) = {}
        PROVE  /\ \A j, k \in 1..n : j # k => Held(b[j]) \cap Held(b[k]) = {}
               /\ \A j \in 1..n : Held(b[j]) \cap Held(x) = {}
    <3>1. \A j, k \in 1..n : j # k => Held(c[j + 1]) \cap Held(c[k + 1]) = {}
      <4> TAKE j, k \in 1..n
      <4> HAVE j # k
      <4>1. j + 1 \in 1..(n + 1) /\ k + 1 \in 1..(n + 1) /\ j + 1 # k + 1
        BY <1>5, <2>1
      <4> QED BY <2>2, <4>1
    <3>2. \A j \in 1..n : Held(c[j + 1]) \cap Held(c[1]) = {}
      BY <1>5, <1>6, <2>2
    <3> QED BY <1>5, <1>6, <3>1, <3>2
  <2>3. ASSUME /\ \A j, k \in 1..n : j # k => Held(b[j]) \cap Held(b[k]) = {}
               /\ \A j \in 1..n : Held(b[j]) \cap Held(x) = {},
               NEW i \in 1..(n + 1), NEW l \in 1..(n + 1), i # l
        PROVE  Held(c[i]) \cap Held(c[l]) = {}
    <3>1. CASE i = 1
      <4>1. PICK k \in 1..n : l = k + 1
        BY <1>2, <2>3, <3>1
      <4> QED BY <1>5, <1>6, <2>3, <3>1, <4>1
    <3>2. CASE i # 1
      <4>1. PICK j \in 1..n : i = j + 1
        BY <1>2, <3>2
      <4>2. CASE l = 1
        BY <1>5, <1>6, <2>3, <4>1, <4>2
      <4>3. CASE l # 1
        <5>1. PICK k \in 1..n : l = k + 1
          BY <1>2, <4>3
        <5>2. j # k
          BY <2>3, <4>1, <5>1
        <5> QED BY <1>5, <2>3, <4>1, <5>1, <5>2
      <4> QED BY <4>2, <4>3
    <3> QED BY <3>1, <3>2
  <2> QED BY <2>2, <2>3
<1> QED BY <1>7, <1>8, <1>9, <1>10, <1>11, <1>12 DEF c

\* The numbers 1..n, each once: in the stream z or in the blocks b.
Whole(z, b, n) ==
    /\ Distinct(z) /\ BlocksDistinct(b)
    /\ Held(z) \cap BlocksHeld(b) = {} /\ Held(z) \union BlocksHeld(b) = 1..n

\* Nothing is held by an empty buffer or an empty deque.
LEMMA HeldEmpty ==
    /\ Held(<<>>) = {} /\ Distinct(<<>>)
    /\ BlocksHeld(<<>>) = {} /\ BlocksDistinct(<<>>)
<1>1. Len(<<>>) = 0 /\ 1..0 = {}
  BY EmptySeq
<1> QED BY <1>1 DEF Held, Distinct, BlocksHeld, BlocksDistinct

\* A run of bytes holds the numbers between its ends.
LEMMA HeldBytes ==
    ASSUME NEW a \in Nat, NEW b \in Nat, a <= b
    PROVE  Distinct(Bytes(a, b)) /\ Held(Bytes(a, b)) = (a + 1)..b
<1> DEFINE n == b - a
<1>1. n \in Nat /\ Len(Bytes(a, b)) = n
  BY BytesType
<1>2. \A i \in 1..n : Bytes(a, b)[i] = a + i
  BY DEF Bytes
<1> HIDE DEF n
<1>3. Distinct(Bytes(a, b))
  BY <1>1, <1>2 DEF Distinct
<1>4. Held(Bytes(a, b)) = {a + i : i \in 1..n}
  BY <1>1, <1>2 DEF Held
<1>5. {a + i : i \in 1..n} = (a + 1)..b
  <2>1. ASSUME NEW x \in (a + 1)..b PROVE x \in {a + i : i \in 1..n}
    <3>1. x - a \in 1..n /\ x = a + (x - a)
      BY DEF n
    <3> QED BY <3>1
  <2>2. \A i \in 1..n : a + i \in (a + 1)..b
    BY DEF n
  <2> QED BY <2>1, <2>2
<1> QED BY <1>3, <1>4, <1>5

\* What does not fit goes to the blocks: nothing of it is lost, nothing of the
\* blocks is overwritten.
LEMMA OverflowHeld ==
    ASSUME NEW b \in Seq(Block), NEW data \in Block, BlocksDistinct(b), Distinct(data),
           Held(data) \cap BlocksHeld(b) = {}
    PROVE  /\ BlocksHeld(Overflow(b, data)) = BlocksHeld(b) \union Held(data)
           /\ BlocksDistinct(Overflow(b, data))
<1> DEFINE room == IF b = <<>> THEN 0 ELSE WriteCap - Len(Last(b))
           n    == Least(room, Len(data))
           kept == IF b = <<>> THEN <<>> ELSE Append(Front(b), Last(b) \o SubSeq(data, 1, n))
           p == SubSeq(data, 1, n)
           r == Drop(data, n)
<1>1. data \in Seq(Nat) /\ Len(data) \in Nat /\ Len(data) <= WriteCap /\ WriteCap \in Nat
  BY LenProperties DEF Block, WriteAssumption
<1>2. ASSUME b # <<>>
      PROVE  /\ Last(b) \in Block /\ Last(b) \in Seq(Nat) /\ Len(Last(b)) \in Nat
             /\ Len(Last(b)) <= WriteCap
             /\ Front(b) \in Seq(Block) /\ b = Append(Front(b), Last(b))
  <2>1. Len(b) \in Nat /\ Len(b) \in 1..Len(b) /\ \A i \in 1..Len(b) : b[i] \in Block
    BY <1>2, EmptySeq, LenProperties, ElementOfSeq
  <2>2. Last(b) \in Block
    BY <2>1 DEF Last
  <2>3. /\ Front(b) \in Seq(Block) /\ Len(Front(b)) = Len(b) - 1
        /\ \A i \in 1..(Len(b) - 1) : Front(b)[i] = b[i]
    <3>1. \A i \in 1..(Len(b) - 1) : b[i] \in Block
      BY <2>1
    <3> DEFINE f == SubSeq(b, 1, Len(b) - 1)
    <3>2. f \in Seq(Block)
      BY <2>1, <3>1, SubSeqProperties
    <3>3. Len(f) = Len(b) - 1 /\ \A i \in 1..(Len(b) - 1) : f[i] = b[i]
      <4> DEFINE m == Len(b) - 1
      <4>1. m \in Nat
        BY <2>1
      <4> HIDE DEF m
      <4>2. \A i \in 1..m : SubSeq(b, 1, m)[i] = b[i]
        <5> TAKE i \in 1..m
        <5>1. i \in 1..(m - 1 + 1) /\ 1 + i - 1 = i
          BY <4>1
        <5> QED BY <2>1, <4>1, <5>1
      <4>3. Len(SubSeq(b, 1, m)) = m
        BY <4>1
      <4> QED BY <4>2, <4>3 DEF m
    <3> QED BY <3>2, <3>3 DEF Front
  <2>4. b = Append(Front(b), Last(b))
    <3> DEFINE c == Append(Front(b), Last(b))
    <3>1. c \in Seq(Block) /\ Len(c) = Len(b) /\ c[Len(b)] = Last(b)
          /\ \A i \in 1..(Len(b) - 1) : c[i] = b[i]
      BY <2>1, <2>2, <2>3, AppendProperties
    <3>2. \A i \in 1..Len(b) : c[i] = b[i]
      <4>1. \A i \in 1..Len(b) : i = Len(b) \/ i \in 1..(Len(b) - 1)
        BY <2>1
      <4>2. c[Len(b)] = b[Len(b)]
        BY <3>1 DEF Last
      <4> QED BY <3>1, <4>1, <4>2
    <3> HIDE DEF c
    <3>3. b = c
      BY <3>1, <3>2, SeqEqual
    <3> QED BY <3>3 DEF c
  <2> QED BY <2>2, <2>3, <2>4, LenProperties DEF Block
<1>3. room \in Nat /\ (b # <<>> => room = WriteCap - Len(Last(b)))
  BY <1>1, <1>2
<1>4. n \in 0..Len(data) /\ n <= room
  BY <1>1, <1>3, LeastFact
<1> HIDE DEF n, room
<1>5. /\ p \in Seq(Nat) /\ r \in Seq(Nat) /\ Len(p) = n /\ Len(r) = Len(data) - n /\ p \o r = data
  BY <1>1, <1>4, Split
<1> HIDE DEF p, r
<1>6. /\ Held(data) = Held(p) \union Held(r)
      /\ Distinct(p) /\ Distinct(r) /\ Held(p) \cap Held(r) = {}
  <2>1. Held(p \o r) = Held(p) \union Held(r)
        /\ (Distinct(p \o r) => Distinct(p) /\ Distinct(r) /\ Held(p) \cap Held(r) = {})
    BY <1>5, HeldConcat
  <2> QED BY <1>5, <2>1
<1>7. /\ kept \in Seq(Block) /\ BlocksHeld(kept) = BlocksHeld(b) \union Held(p)
      /\ BlocksDistinct(kept)
  <2>1. CASE b = <<>>
    <3>1. n = 0 /\ Len(p) = 0
      BY <1>4, <1>5, <2>1 DEF room
    <3>2. p = <<>> /\ Held(p) = {}
      BY <1>5, <3>1, EmptySeq, HeldEmpty
    <3>3. kept = <<>> /\ <<>> \in Seq(Block)
      BY <2>1, EmptySeq
    <3> QED BY <2>1, <3>2, <3>3, HeldEmpty
  <2>2. CASE b # <<>>
    <3> DEFINE f == Front(b)
               x == Last(b)
               y == x \o p
    <3>1. f \in Seq(Block) /\ x \in Block /\ x \in Seq(Nat) /\ b = Append(f, x)
          /\ Len(x) \in Nat
      BY <1>2, <2>2
    <3>2. y \in Seq(Nat) /\ Len(y) = Len(x) + n
      BY <1>5, <3>1, ConcatProperties
    <3>3. y \in Block
      <4>1. Len(y) <= WriteCap
        BY <1>2, <1>3, <1>4, <2>2, <3>1, <3>2, <1>1
      <4> QED BY <3>2, <4>1 DEF Block
    <3>4. kept = Append(f, y)
      BY <2>2 DEF p
    <3> HIDE DEF f, x
    <3>5. /\ BlocksHeld(b) = BlocksHeld(f) \union Held(x)
          /\ BlocksDistinct(f) /\ Distinct(x) /\ BlocksHeld(f) \cap Held(x) = {}
      <4>1. /\ BlocksHeld(Append(f, x)) = BlocksHeld(f) \union Held(x)
            /\ BlocksDistinct(Append(f, x)) =>
                 BlocksDistinct(f) /\ Distinct(x) /\ BlocksHeld(f) \cap Held(x) = {}
        BY <3>1, HeldAppend
      <4> QED BY <3>1, <4>1
    <3>6. Held(y) = Held(x) \union Held(p) /\ Distinct(y)
      <4>1. Held(x) \cap Held(p) = {}
        BY <1>6, <3>5
      <4> QED BY <1>5, <1>6, <3>1, <3>5, <4>1, HeldConcat
    <3> HIDE DEF y
    <3>7. /\ BlocksHeld(Append(f, y)) = BlocksHeld(f) \union Held(y)
          /\ BlocksDistinct(Append(f, y))
      <4>1. BlocksHeld(f) \cap Held(y) = {}
        BY <1>6, <3>5, <3>6
      <4> QED BY <3>1, <3>3, <3>5, <3>6, <4>1, HeldAppend
    <3>8. Append(f, y) \in Seq(Block)
      BY <3>1, <3>3, AppendProperties
    <3> QED BY <3>4, <3>5, <3>6, <3>7, <3>8
  <2> QED BY <2>1, <2>2
<1> HIDE DEF kept
<1>8. Overflow(b, data) = IF n = Len(data) THEN kept ELSE Append(kept, r)
  BY DEF Overflow, kept, n, room, r
<1>9. CASE n = Len(data)
  <2>1. r = <<>>
    <3>1. Len(r) = 0
      BY <1>1, <1>5, <1>9
    <3> QED BY <1>5, <3>1, EmptySeq
  <2>2. Held(data) = Held(p)
    BY <1>6, <2>1, HeldEmpty
  <2> QED BY <1>7, <1>8, <1>9, <2>2
<1>10. CASE n # Len(data)
  <2>1. r \in Block
    <3>1. Len(r) <= WriteCap
      BY <1>1, <1>4, <1>5
    <3> QED BY <1>5, <3>1 DEF Block
  <2>2. BlocksHeld(kept) \cap Held(r) = {}
    BY <1>6, <1>7
  <2>3. /\ BlocksHeld(Append(kept, r)) = BlocksHeld(kept) \union Held(r)
        /\ BlocksDistinct(Append(kept, r))
    BY <1>6, <1>7, <2>1, <2>2, HeldAppend
  <2> QED BY <1>6, <1>7, <1>8, <1>10, <2>3
<1> QED BY <1>9, <1>10

\* A message that is split between the stream and the blocks is all there.
LEMMA WholeSend ==
    ASSUME NEW z \in Seq(Nat), NEW b \in Seq(Block), NEW data \in Block, NEW k \in Nat, NEW l \in Nat,
           k <= l, NEW n \in 0..Len(data), Whole(z, b, k),
           Distinct(data), Held(data) = (k + 1)..l
    PROVE  Whole(z \o SubSeq(data, 1, n),
                 IF n = Len(data) THEN b ELSE Overflow(b, Drop(data, n)), l)
<1> DEFINE p == SubSeq(data, 1, n)
           r == Drop(data, n)
<1>1. /\ p \in Seq(Nat) /\ r \in Seq(Nat) /\ Len(p) = n /\ Len(r) = Len(data) - n /\ p \o r = data
      /\ data \in Seq(Nat) /\ Len(data) \in Nat /\ Len(data) <= WriteCap
  <2>1. data \in Seq(Nat) /\ Len(data) \in Nat /\ Len(data) <= WriteCap
    BY LenProperties DEF Block
  <2> QED BY <2>1, Split
<1>2. /\ Held(data) = Held(p) \union Held(r)
      /\ Distinct(p) /\ Distinct(r) /\ Held(p) \cap Held(r) = {}
  <2> HIDE DEF p, r
  <2>1. Held(p \o r) = Held(p) \union Held(r)
        /\ (Distinct(p \o r) => Distinct(p) /\ Distinct(r) /\ Held(p) \cap Held(r) = {})
    BY <1>1, HeldConcat
  <2> QED BY <1>1, <2>1
<1> HIDE DEF p
<1>3. (1..k) \cap Held(data) = {} /\ (1..k) \union Held(data) = 1..l
  <2>1. (1..k) \cap ((k + 1)..l) = {} /\ (1..k) \union ((k + 1)..l) = 1..l
    OBVIOUS
  <2> QED BY <2>1
<1>4. /\ Held(z \o p) = Held(z) \union Held(p)
      /\ Distinct(z \o p)
  <2>1. Held(z) \cap Held(p) = {}
    BY <1>2, <1>3 DEF Whole
  <2> QED BY <1>1, <1>2, <2>1, HeldConcat DEF Whole
<1>5. CASE n = Len(data)
  <2>1. r = <<>>
    <3>1. Len(r) = 0
      BY <1>1, <1>5
    <3> QED BY <1>1, <3>1, EmptySeq
  <2>2. Held(data) = Held(p)
    BY <1>2, <2>1, HeldEmpty
  <2>3. Whole(z \o p, b, l)
    BY <1>2, <1>3, <1>4, <2>2 DEF Whole
  <2> QED BY <1>5, <2>3 DEF p
<1>6. CASE n # Len(data)
  <2>1. r \in Block
    <3>1. Len(r) <= WriteCap
      BY <1>1
    <3> QED BY <1>1, <3>1 DEF Block
  <2> HIDE DEF r
  <2>2. Held(r) \cap BlocksHeld(b) = {}
    BY <1>2, <1>3 DEF Whole
  <2>3. /\ BlocksHeld(Overflow(b, r)) = BlocksHeld(b) \union Held(r)
        /\ BlocksDistinct(Overflow(b, r))
    BY <1>2, <2>1, <2>2, OverflowHeld DEF Whole
  <2>4. Whole(z \o p, Overflow(b, r), l)
    <3>1. Held(z \o p) \cap BlocksHeld(Overflow(b, r)) = {}
      BY <1>2, <1>3, <1>4, <2>3 DEF Whole
    <3>2. Held(z \o p) \union BlocksHeld(Overflow(b, r)) = 1..l
      BY <1>2, <1>3, <1>4, <2>3 DEF Whole
    <3> QED BY <1>4, <2>3, <3>1, <3>2 DEF Whole
  <2> QED BY <1>6, <2>4 DEF p, r
<1> QED BY <1>5, <1>6

\* The oldest block moves to the stream, whole or in part.
LEMMA WholeTake ==
    ASSUME NEW z \in Seq(Nat), NEW b \in Seq(Block), NEW k \in Nat, b # <<>>,
           NEW n \in 0..Len(Head(b)), Whole(z, b, k)
    PROVE  Whole(z \o SubSeq(Head(b), 1, n),
                 IF n = Len(Head(b)) THEN Tail(b) ELSE <<Drop(Head(b), n)>> \o Tail(b), k)
<1> DEFINE h == Head(b)
           t == Tail(b)
           p == SubSeq(h, 1, n)
           r == Drop(h, n)
<1>1. h \in Block /\ t \in Seq(Block) /\ b = <<h>> \o t
  <2>1. h \in Block /\ t \in Seq(Block) /\ Len(t) = Len(b) - 1
        /\ \A i \in 1..Len(t) : t[i] = b[i + 1]
    BY HeadTailProperties
  <2>2. b = <<h>> \o t
    <3>1. <<h>> \in Seq(Block) /\ Len(<<h>>) = 1 /\ <<h>>[1] = h /\ Len(b) \in Nat /\ Len(b) # 0
      BY <2>1, LenProperties, EmptySeq
    <3>2. <<h>> \o t \in Seq(Block) /\ Len(<<h>> \o t) = Len(b)
          /\ \A i \in 1..Len(b) : (<<h>> \o t)[i] = IF i <= 1 THEN <<h>>[i] ELSE t[i - 1]
      BY <2>1, <3>1, ConcatProperties
    <3>3. \A i \in 1..Len(b) : (<<h>> \o t)[i] = b[i]
      <4> TAKE i \in 1..Len(b)
      <4>1. CASE i = 1
        BY <3>1, <3>2, <4>1
      <4>2. CASE i # 1
        <5>1. i - 1 \in 1..Len(t) /\ (i - 1) + 1 = i /\ ~(i <= 1)
          BY <2>1, <3>1, <4>2
        <5> QED BY <2>1, <3>2, <5>1
      <4> QED BY <4>1, <4>2
    <3> QED BY <3>2, <3>3, SeqEqual
  <2> QED BY <2>1, <2>2
<1> HIDE DEF t
<1>2. /\ p \in Seq(Nat) /\ r \in Seq(Nat) /\ Len(p) = n /\ Len(r) = Len(h) - n /\ p \o r = h
      /\ Len(h) \in Nat /\ Len(h) <= WriteCap
  <2>1. h \in Seq(Nat) /\ Len(h) \in Nat /\ Len(h) <= WriteCap
    BY <1>1, LenProperties DEF Block
  <2> QED BY <2>1, Split
<1> HIDE DEF h
<1>3. /\ BlocksHeld(b) = BlocksHeld(t) \union Held(h)
      /\ BlocksDistinct(t) /\ Distinct(h) /\ BlocksHeld(t) \cap Held(h) = {}
  BY <1>1, HeldCons DEF Whole
<1> HIDE DEF p, r
<1>4. /\ Held(h) = Held(p) \union Held(r)
      /\ Distinct(p) /\ Distinct(r) /\ Held(p) \cap Held(r) = {}
  <2>1. Held(p \o r) = Held(p) \union Held(r)
        /\ (Distinct(p \o r) => Distinct(p) /\ Distinct(r) /\ Held(p) \cap Held(r) = {})
    BY <1>2, HeldConcat
  <2> QED BY <1>2, <1>3, <2>1
<1>5. Held(z \o p) = Held(z) \union Held(p) /\ Distinct(z \o p)
  <2>1. Held(z) \cap Held(p) = {}
    BY <1>3, <1>4 DEF Whole
  <2> QED BY <1>2, <1>4, <2>1, HeldConcat DEF Whole
<1>6. CASE n = Len(h)
  <2>1. r = <<>>
    <3>1. Len(r) = 0
      BY <1>2, <1>6
    <3> QED BY <1>2, <3>1, EmptySeq
  <2>2. Held(h) = Held(p)
    BY <1>4, <2>1, HeldEmpty
  <2>3. Whole(z \o p, t, k)
    BY <1>3, <1>5, <2>2 DEF Whole
  <2> QED BY <1>6, <2>3 DEF p, t, h
<1>7. CASE n # Len(h)
  <2>1. r \in Block
    <3>1. Len(r) <= WriteCap
      BY <1>2
    <3> QED BY <1>2, <3>1 DEF Block
  <2>2. /\ BlocksHeld(<<r>> \o t) = BlocksHeld(t) \union Held(r)
        /\ BlocksDistinct(<<r>> \o t)
    <3>1. BlocksHeld(t) \cap Held(r) = {}
      BY <1>3, <1>4
    <3> QED BY <1>1, <1>3, <1>4, <2>1, <3>1, HeldCons
  <2>3. Whole(z \o p, <<r>> \o t, k)
    BY <1>3, <1>4, <1>5, <2>2 DEF Whole
  <2> QED BY <1>7, <2>3 DEF p, t, h, r
<1> QED BY <1>6, <1>7 DEF h

\* The bytes in front of the blocks, from the wire back to write_buf_.
Stream == (wire \o Pending) \o write_buf

Layout == conn = 1 => link # "opening" /\ (link = "open" => Whole(Stream, buf2_write, accepted))

LEMMA StreamType == IInv => Stream \in Seq(Nat)
<1> SUFFICES ASSUME IInv PROVE Stream \in Seq(Nat)
  OBVIOUS
<1>1. wire \in Seq(Nat) /\ Pending \in Seq(Nat) /\ write_buf \in Seq(Nat)
  BY PendingType DEF IInv, TypeOK
<1>2. wire \o Pending \in Seq(Nat)
  BY <1>1, ConcatProperties
<1> QED BY <1>1, <1>2, ConcatProperties DEF Stream

LEMMA LayoutInit == Init => Layout
<1> SUFFICES ASSUME Init PROVE Layout
  OBVIOUS
<1>1. wire = <<>> /\ Pending = <<>> /\ write_buf = <<>> /\ buf2_write = <<>> /\ accepted = 0
      /\ link = "open"
  BY DEF Init, Pending
<1>2. (<<>> \o <<>>) \o <<>> = <<>>
  BY EmptySeq, ConcatEmptySeq
<1>3. Whole(<<>>, <<>>, 0)
  <2>1. 1..0 = {}
    OBVIOUS
  <2> QED BY <2>1, HeldEmpty DEF Whole
<1> QED BY <1>1, <1>2, <1>3 DEF Layout, Stream

\* send() puts a new message behind the stream, or partly into the blocks.
LEMMA LayoutSend ==
    ASSUME IInv, NEW len \in Lens, Send(len), Whole(Stream, buf2_write, accepted)
    PROVE  Whole(Stream', buf2_write', accepted')
<1> DEFINE data == Bytes(accepted, accepted + len)
           n    == Least(WriteRoom, len)
           p    == SubSeq(data, 1, n)
<1>1. /\ write_buf \in Seq(Nat) /\ Len(write_buf) \in Nat
      /\ Len(write_buf) <= WriteCap /\ accepted \in Nat
      /\ len \in Nat /\ len <= WriteCap /\ WriteCap \in Nat
      /\ accepted + len \in Nat /\ accepted <= accepted + len
  BY LenProperties DEF IInv, TypeOK, WriteAssumption
<1>2. /\ data \in Seq(Nat) /\ Len(data) = len
      /\ Distinct(data) /\ Held(data) = (accepted + 1)..(accepted + len)
  <2>1. (accepted + len) - accepted = len
    BY <1>1
  <2> QED BY <1>1, <2>1, BytesType, HeldBytes
<1>3. data \in Block
  BY <1>1, <1>2 DEF Block
<1>4. n \in 0..Len(data)
  <2>1. WriteRoom \in Nat
    BY <1>1 DEF WriteRoom
  <2> QED BY <1>1, <1>2, <2>1, LeastFact
<1>5. /\ write_buf' = write_buf \o p
      /\ buf2_write' = IF n = Len(data) THEN buf2_write ELSE Overflow(buf2_write, Drop(data, n))
      /\ accepted' = accepted + len /\ wire' = wire /\ Pending' = Pending
  BY <1>2 DEF Send, Pending, Drop
<1> HIDE DEF data, n
<1>6. Stream \in Seq(Nat) /\ buf2_write \in Seq(Block)
  BY StreamType DEF IInv, TypeOK
<1>7. p \in Seq(Nat)
  BY <1>2, <1>4, Split
<1>8. Whole(Stream \o p,
            IF n = Len(data) THEN buf2_write ELSE Overflow(buf2_write, Drop(data, n)),
            accepted + len)
  <2> DEFINE l == accepted + len
  <2>1. l \in Nat /\ accepted <= l /\ Held(data) = (accepted + 1)..l
    BY <1>1, <1>2
  <2> HIDE DEF l
  <2>2. Whole(Stream \o SubSeq(data, 1, n),
              IF n = Len(data) THEN buf2_write ELSE Overflow(buf2_write, Drop(data, n)), l)
    BY <1>1, <1>2, <1>3, <1>4, <1>6, <2>1, WholeSend
  <2> QED BY <2>2 DEF l
<1> HIDE DEF p
<1>9. Stream' = Stream \o p
  <2>1. wire \in Seq(Nat) /\ Pending \in Seq(Nat)
    BY PendingType DEF IInv, TypeOK
  <2>2. wire \o Pending \in Seq(Nat)
    BY <2>1, ConcatProperties
  <2>3. \A z \in Seq(Nat) : (z \o write_buf) \o p = z \o (write_buf \o p)
    <3> TAKE z \in Seq(Nat)
    <3> QED BY <1>1, <1>7, ConcatNat
  <2>4. ((wire \o Pending) \o write_buf) \o p = (wire \o Pending) \o (write_buf \o p)
    BY <2>2, <2>3, Zenon
  <2> QED BY <1>5, <2>4 DEF Stream
<1> QED BY <1>5, <1>8, <1>9

\* post() moves the oldest block into write_buf_ and write_buf_ into send_buf_.
LEMMA LayoutPostMove ==
    ASSUME IInv, PostMove, Whole(Stream, buf2_write, accepted)
    PROVE  Whole(Stream', buf2_write', accepted')
<1> DEFINE n == IF buf2_write = <<>> THEN 0
                ELSE Least(WriteRoom, Len(Head(buf2_write)))
           w == IF n = 0 THEN write_buf
                ELSE write_buf \o SubSeq(Head(buf2_write), 1, n)
           blocks == IF n = 0 THEN buf2_write
                     ELSE IF n = Len(Head(buf2_write)) THEN Tail(buf2_write)
                     ELSE <<Drop(Head(buf2_write), n)>> \o Tail(buf2_write)
           m == Least(SendRoom, Len(w))
           a == SubSeq(w, 1, m)
           d == Drop(w, m)
<1>1. w \in Seq(Nat) /\ blocks \in Seq(Block)
  BY TopUp DEF IInv
<1>2. /\ buf2_write' = blocks /\ write_buf' = d /\ send_buf' = send_buf \o a
      /\ UNCHANGED <<inflight, io, wire, accepted>>
  BY DEF PostMove
<1>3. /\ write_buf \in Seq(Nat) /\ buf2_write \in Seq(Block) /\ Stream \in Seq(Nat)
      /\ wire \in Seq(Nat) /\ Pending \in Seq(Nat) /\ accepted \in Nat
      /\ Len(write_buf) \in Nat /\ Len(write_buf) <= WriteCap /\ WriteCap \in Nat
      /\ WriteRoom = WriteCap - Len(write_buf)
  BY StreamType, PendingType, LenProperties DEF IInv, TypeOK, WriteAssumption, WriteRoom
<1>4. Whole((wire \o Pending) \o w, blocks, accepted)
  <2>1. CASE n = 0
    BY <2>1 DEF Stream
  <2>2. CASE n # 0
    <3> DEFINE h == Head(buf2_write)
               p == SubSeq(h, 1, n)
    <3>1. buf2_write # <<>> /\ n = Least(WriteRoom, Len(h))
      BY <2>2
    <3>2. h \in Seq(Nat) /\ Len(h) \in Nat
      <4>1. h \in Block
        BY <1>3, <3>1, HeadTailProperties
      <4> QED BY <4>1, LenProperties DEF Block
    <3>3. n \in 0..Len(h)
      <4>1. WriteRoom \in Nat
        BY <1>3
      <4> QED BY <3>1, <3>2, <4>1, LeastFact
    <3>4. w = write_buf \o p
          /\ blocks = IF n = Len(h) THEN Tail(buf2_write) ELSE <<Drop(h, n)>> \o Tail(buf2_write)
      BY <2>2
    <3> HIDE DEF n, w, blocks
    <3>5. p \in Seq(Nat)
      BY <3>2, <3>3, Split
    <3>6. Whole(Stream \o p, blocks, accepted)
      BY <1>3, <3>1, <3>3, <3>4, WholeTake
    <3> HIDE DEF h, p
    <3>7. Stream \o p = (wire \o Pending) \o w
      <4>1. wire \o Pending \in Seq(Nat)
        BY <1>3, ConcatProperties
      <4>2. \A z \in Seq(Nat) : (z \o write_buf) \o p = z \o (write_buf \o p)
        <5> TAKE z \in Seq(Nat)
        <5>1. write_buf \in Seq(Nat) /\ p \in Seq(Nat)
          BY <1>3, <3>5
        <5> QED BY <5>1, ConcatNat
      <4>3. ((wire \o Pending) \o write_buf) \o p = (wire \o Pending) \o (write_buf \o p)
        BY <4>1, <4>2, Zenon
      <4> QED BY <3>4, <4>3 DEF Stream
    <3> QED BY <3>6, <3>7
  <2> QED BY <2>1, <2>2
<1> HIDE DEF w, blocks, n
<1>5. m \in 0..Len(w)
  <2>1. SendRoom \in Nat /\ Len(w) \in Nat
    BY <1>1, LenProperties DEF IInv, TypeOK, WriteAssumption, SendRoom
  <2> QED BY <2>1, LeastFact
<1> HIDE DEF m
<1>6. a \in Seq(Nat) /\ d \in Seq(Nat) /\ a \o d = w
  BY <1>1, <1>5, Split
<1> HIDE DEF a, d
<1>7. Pending' = Pending \o a
  BY <1>2, <1>6, PendingGrows
<1>8. (wire \o (Pending \o a)) \o d = (wire \o Pending) \o (a \o d)
  BY <1>6, FifoMove
<1>9. Stream' = (wire \o Pending) \o w
  BY <1>2, <1>6, <1>7, <1>8 DEF Stream
<1> QED BY <1>2, <1>4, <1>9

\* handle_write takes bytes from one end of the stream's buffers to the other.
LEMMA StreamKept ==
    ASSUME IInv, HandleWrite \/ HandlePartial \/ HandleFull
    PROVE  Stream' = Stream
<1>1. /\ send_buf \in Seq(Nat) /\ inflight \in 0..Len(send_buf) /\ wire \in Seq(Nat)
      /\ write_buf \in Seq(Nat) /\ Len(send_buf) \in Nat /\ Len(send_buf) <= SendCap
      /\ Len(write_buf) \in Nat /\ SendCap \in Nat
  BY LenProperties DEF IInv, TypeOK, Control, WriteAssumption
<1> DEFINE a == SubSeq(send_buf, 1, inflight)
           d == Drop(send_buf, inflight)
<1>2. a \in Seq(Nat) /\ d \in Seq(Nat) /\ a \o d = send_buf /\ Len(d) = Len(send_buf) - inflight
  BY <1>1, Split
<1>3. CASE HandleWrite
  <2>1. Pending' = d /\ Pending = send_buf /\ wire' = wire \o a /\ write_buf' = write_buf
    BY <1>3 DEF HandleWrite, buffers, Pending, Drop
  <2> HIDE DEF a, d
  <2>2. \A x \in Seq(Nat) : (x \o a) \o d = x \o (a \o d)
    <3> TAKE x \in Seq(Nat)
    <3> QED BY <1>2, ConcatNat
  <2>3. (wire \o a) \o d = wire \o (a \o d)
    BY <1>1, <2>2, Zenon
  <2> QED BY <1>2, <2>1, <2>3 DEF Stream
<1>4. CASE HandlePartial
  BY <1>4 DEF HandlePartial, Stream, Pending
<1>5. CASE HandleFull
  <2> DEFINE m == Least(SendCap - Len(d), Len(write_buf))
             e == SubSeq(write_buf, 1, m)
             f == Drop(write_buf, m)
  <2>1. Pending' = d \o e /\ Pending = d /\ wire' = wire /\ write_buf' = f
    <3>1. io' \in {"rearm", "idle"}
      BY <1>5 DEF HandleFull
    <3>2. Pending' = send_buf'
      BY <3>1 DEF Pending
    <3> QED BY <1>5, <3>2 DEF HandleFull, Pending
  <2>2. m \in 0..Len(write_buf)
    <3> DEFINE room == SendCap - Len(d)
    <3>1. room \in Nat
      BY <1>1, <1>2
    <3> HIDE DEF room
    <3>2. Least(room, Len(write_buf)) \in 0..Len(write_buf)
      <4>1. Len(write_buf) \in Nat
        BY <1>1
      <4>2. Least(room, Len(write_buf)) \in {room, Len(write_buf)}
            /\ Least(room, Len(write_buf)) <= Len(write_buf)
        BY <3>1, <4>1 DEF Least
      <4> QED BY <3>1, <4>1, <4>2
    <3> QED BY <3>2 DEF room
  <2> HIDE DEF m
  <2>3. e \in Seq(Nat) /\ f \in Seq(Nat) /\ e \o f = write_buf
    BY <1>1, <2>2, Split
  <2> HIDE DEF e, f, d
  <2>4. (wire \o (Pending \o e)) \o f = (wire \o Pending) \o (e \o f)
    BY <2>3, FifoMove
  <2> QED BY <2>1, <2>3, <2>4 DEF Stream
<1> QED BY <1>3, <1>4, <1>5

LEMMA LayoutStep == IInv /\ Layout /\ [Next]_vars => Layout'
<1> SUFFICES ASSUME IInv, Layout, [Next]_vars, conn' = 1 PROVE Layout'
  BY DEF Layout
<1>1. conn = 1 /\ ~Connect /\ link # "opening"
  <2>1. ~Connect
    BY DEF Connect, IInv, TypeOK
  <2>2. conn' = conn
    BY <2>1 DEF Next, Logic, Io, vars, Send, PostMove, PostWakeup, DoWrite, HandleWrite,
                HandlePartial, HandleFull, Rearm, Close, Reset
  <2> QED BY <2>1, <2>2 DEF Layout
<1>2. ~Reset /\ link' # "opening"
  BY <1>1 DEF Next, Logic, Io, vars, Send, PostMove, PostWakeup, DoWrite, HandleWrite,
              HandlePartial, HandleFull, Rearm, Close, Reset
<1> SUFFICES ASSUME link' = "open" PROVE Whole(Stream', buf2_write', accepted')
  BY <1>2 DEF Layout
<1>3. link = "open" /\ ~Close
  BY <1>1, <1>2 DEF Next, Logic, Io, vars, Send, PostMove, PostWakeup, DoWrite, HandleWrite,
                    HandlePartial, HandleFull, Rearm, Close
<1>4. Whole(Stream, buf2_write, accepted)
  BY <1>1, <1>3 DEF Layout
<1>5. CASE \E len \in Lens : Send(len)
  BY <1>4, <1>5, LayoutSend
<1>6. CASE PostMove
  BY <1>4, <1>6, LayoutPostMove
<1>7. CASE HandleWrite \/ HandlePartial \/ HandleFull
  <2>1. buf2_write' = buf2_write /\ accepted' = accepted
    BY <1>7 DEF HandleWrite, HandlePartial, HandleFull, buffers
  <2> QED BY <1>4, <1>7, <2>1, StreamKept
<1>8. CASE PostWakeup \/ DoWrite \/ Rearm \/ UNCHANGED vars
  <2>1. UNCHANGED <<write_buf, buf2_write, send_buf, wire, accepted>>
    BY <1>8 DEF PostWakeup, DoWrite, Rearm, vars, buffers
  <2>2. Pending' = Pending
    <3>1. CASE PostWakeup \/ UNCHANGED vars
      BY <3>1, <2>1 DEF PostWakeup, vars, Pending, Drop
    <3>2. CASE DoWrite \/ Rearm
      BY <3>2, <2>1 DEF DoWrite, Rearm, Pending
    <3> QED BY <1>8, <3>1, <3>2
  <2>3. Stream' = Stream
    BY <2>1, <2>2 DEF Stream
  <2> QED BY <1>4, <2>1, <2>3
<1> QED BY <1>1, <1>2, <1>3, <1>5, <1>6, <1>7, <1>8 DEF Next, Logic, Io

-----------------------------------------------------------------------------
(* The theorems *)

\* Every step of the specification, and every stuttering step, preserves the
\* invariant.
LEMMA StepInv == IInv /\ [Next]_vars => IInv'
<1> SUFFICES ASSUME IInv, [Next]_vars PROVE IInv'
  OBVIOUS
<1>1. CASE \E len \in Lens : Send(len)
  BY <1>1, SendStep
<1>2. CASE PostMove
  BY <1>2, PostMoveStep
<1>3. CASE PostWakeup
  BY <1>3, PostWakeupStep
<1>4. CASE DoWrite
  BY <1>4, DoWriteStep
<1>5. CASE HandleWrite
  BY <1>5, HandleWriteStep
<1>6. CASE HandlePartial
  BY <1>6, HandlePartialStep
<1>7. CASE HandleFull
  BY <1>7, HandleFullStep
<1>8. CASE Rearm
  BY <1>8, RearmStep
<1>9. CASE Close
  BY <1>9, CloseStep
<1>10. CASE Connect
  BY <1>10, ConnectStep
<1>11. CASE Reset
  BY <1>11, ResetStep
<1>12. CASE UNCHANGED vars
  <2>1. TypeOK'
    BY <1>12 DEF IInv, TypeOK, vars
  <2>2. Control' /\ NoLostWakeup'
    BY <1>12 DEF IInv, Control, NoLostWakeup, vars
  <2>3. Fifo'
    BY <1>12, FifoKept DEF vars
  <2> QED BY <2>1, <2>2, <2>3 DEF IInv
<1> QED BY <1>1, <1>2, <1>3, <1>4, <1>5, <1>6, <1>7, <1>8, <1>9, <1>10, <1>11,
           <1>12 DEF Next, Logic, Io

\* The inductive invariant holds in every reachable state.
THEOREM Invariance == Spec => []IInv
BY InitInv, StepInv, PTL DEF Spec

\* send(), post, do_write and handle_write keep every variable in its type, and
\* no buffer ever holds more than it has room for, whatever the sizes.
THEOREM TypeCorrect == Spec => []TypeOK
BY Invariance, PTL DEF IInv

\* Bytes waiting in send_buf_ of an open session are being written or a do_write
\* is on its way, for every interleaving of post and handle_write.
THEOREM WakeupSafe == Spec => []NoLostWakeup
BY Invariance, PTL DEF IInv

\* As long as no message needed an overflow block, the connection carries the
\* bytes accepted since reset(), each once and in the order of send().
THEOREM OrderSafe == Spec => []OrderedUnlessOverflowed
<1>1. IInv => OrderedUnlessOverflowed
  <2> SUFFICES ASSUME IInv, link = "open", ~overflowed, io \in {"idle", "rearm"}
               PROVE  wire \o send_buf \o write_buf = Bytes(base, accepted)
    BY DEF OrderedUnlessOverflowed
  <2>1. Pending = send_buf
    BY DEF Pending
  <2> QED BY <2>1 DEF IInv, Fifo
<1> QED BY <1>1, Invariance, PTL

\* The bytes of send_buf_ an outstanding async_write reads are not moved or
\* overwritten by any step of either thread.
THEOREM Stable == Spec => InflightStable
<1> DEFINE Step == inflight > 0 /\ inflight' > 0 /\ link' = "open" =>
                     SubSeq(send_buf', 1, inflight) = SubSeq(send_buf, 1, inflight)
<1>1. IInv /\ [Next]_vars => [Step]_vars
  <2> SUFFICES ASSUME IInv, Next, inflight > 0, inflight' > 0, link' = "open"
               PROVE  SubSeq(send_buf', 1, inflight) = SubSeq(send_buf, 1, inflight)
    OBVIOUS
  <2>1. CASE send_buf' = send_buf
    BY <2>1
  <2>2. CASE PostMove
    <3> DEFINE n == IF buf2_write = <<>> THEN 0
                    ELSE Least(WriteRoom, Len(Head(buf2_write)))
               w == IF n = 0 THEN write_buf
                    ELSE write_buf \o SubSeq(Head(buf2_write), 1, n)
               blocks == IF n = 0 THEN buf2_write
                         ELSE IF n = Len(Head(buf2_write)) THEN Tail(buf2_write)
                         ELSE <<Drop(Head(buf2_write), n)>> \o Tail(buf2_write)
               m == Least(SendRoom, Len(w))
               t == SubSeq(w, 1, m)
    <3>1. w \in Seq(Nat)
      BY TopUp DEF IInv
    <3>2. send_buf' = send_buf \o t
      BY <2>2 DEF PostMove
    <3> HIDE DEF w, blocks, n
    <3>3. /\ send_buf \in Seq(Nat) /\ SendRoom \in Nat /\ Len(send_buf) \in Nat
          /\ Len(w) \in Nat /\ inflight \in 1..Len(send_buf)
      BY <3>1, LenProperties DEF IInv, TypeOK, Control, WriteAssumption, SendRoom
    <3>4. m \in 0..Len(w)
      BY <3>3, LeastFact
    <3> HIDE DEF m
    <3>5. t \in Seq(Nat)
      BY <3>1, <3>4, Split
    <3> HIDE DEF t
    <3>6. SubSeq(send_buf \o t, 1, inflight) = SubSeq(send_buf, 1, inflight)
      BY <3>3, <3>5, PrefixKept
    <3> QED BY <3>2, <3>6
  <2>3. CASE HandlePartial \/ HandleFull \/ Reset
    <3>1. inflight' = 0 \/ inflight = 0
      BY <2>3 DEF HandlePartial, HandleFull, Reset, IInv, Control
    <3> QED BY <3>1
  <2> QED BY <2>1, <2>2, <2>3 DEF Next, Logic, Io, Send, PostWakeup, DoWrite,
             HandleWrite, Rearm, Close, Connect, buffers
<1> QED BY <1>1, Invariance, PTL DEF Spec, InflightStable

\* On the first connection every accepted byte is on the wire, in send_buf_, in
\* write_buf_ or in an overflow block, in one place only: no message is lost or
\* repeated between the two threads, whatever the sizes.
THEOREM NothingLost == Spec => []NothingLostOrRepeated
<1>1. IInv /\ Layout => NothingLostOrRepeated
  <2> SUFFICES ASSUME IInv, Layout, conn = 1, link = "open", io \in {"idle", "rearm"}
               PROVE  /\ UNION {ToSet(Parts[p]) : p \in DOMAIN Parts} = 1..accepted
                      /\ \A p, q \in DOMAIN Parts :
                           \A i \in DOMAIN Parts[p], j \in DOMAIN Parts[q] :
                             Parts[p][i] = Parts[q][j] => p = q /\ i = j
    BY DEF NothingLostOrRepeated
  <2> DEFINE b == buf2_write
             n == Len(b)
             front == <<wire, send_buf, write_buf>>
  <2>1. /\ wire \in Seq(Nat) /\ send_buf \in Seq(Nat) /\ write_buf \in Seq(Nat)
        /\ b \in Seq(Block) /\ n \in Nat
    BY LenProperties DEF IInv, TypeOK
  <2>2. Stream = (wire \o send_buf) \o write_buf /\ Whole(Stream, b, accepted)
    BY DEF Layout, Stream, Pending
  <2>3. /\ DOMAIN Parts = 1..(n + 3)
        /\ Parts[1] = wire /\ Parts[2] = send_buf /\ Parts[3] = write_buf
        /\ \A j \in 1..n : Parts[j + 3] = b[j]
        /\ \A p \in 1..(n + 3) : Parts[p] \in Seq(Nat)
    <3>1. front \in Seq(Seq(Nat)) /\ Len(front) = 3
          /\ front[1] = wire /\ front[2] = send_buf /\ front[3] = write_buf
      BY <2>1
    <3>2. b \in Seq(Seq(Nat)) /\ n \in Nat
      <4>1. Block \subseteq Seq(Nat)
        BY DEF Block
      <4> QED BY <2>1, <4>1
    <3> HIDE DEF front, b, n
    <3>3. /\ front \o b \in Seq(Seq(Nat)) /\ Len(front \o b) = 3 + Len(b)
          /\ \A p \in 1..(3 + Len(b)) : (front \o b)[p] = IF p <= 3 THEN front[p] ELSE b[p - 3]
      <4>1. /\ front \o b \in Seq(Seq(Nat)) /\ Len(front \o b) = Len(front) + Len(b)
            /\ \A p \in 1..(Len(front) + Len(b)) :
                 (front \o b)[p] = IF p <= Len(front) THEN front[p] ELSE b[p - Len(front)]
        BY <3>1, <3>2, ConcatProperties
      <4> QED BY <3>1, <4>1
    <3>4. Parts = front \o b
      BY DEF Parts, front, b
    <3>5. Len(b) = n
      BY DEF n
    <3>6. /\ DOMAIN Parts = 1..(n + 3)
          /\ \A p \in 1..(n + 3) : Parts[p] = IF p <= 3 THEN front[p] ELSE b[p - 3]
      <4>1. 3 + Len(b) = n + 3
        BY <3>2, <3>5
      <4> QED BY <3>3, <3>4, <4>1
    <3>7. \A p \in 1..(n + 3) : Parts[p] \in Seq(Nat)
      <4> TAKE p \in 1..(n + 3)
      <4>1. p \in 1..Len(front \o b)
        BY <3>2, <3>3, <3>5
      <4> QED BY <3>3, <3>4, <4>1, ElementOfSeq
    <3>8. 1 \in 1..(n + 3) /\ 2 \in 1..(n + 3) /\ 3 \in 1..(n + 3)
      BY <3>2
    <3>9. \A j \in 1..n : Parts[j + 3] = b[j]
      <4> TAKE j \in 1..n
      <4>1. j + 3 \in 1..(n + 3) /\ ~(j + 3 <= 3) /\ (j + 3) - 3 = j
        BY <3>2
      <4> QED BY <3>6, <4>1
    <3> QED BY <3>1, <3>6, <3>7, <3>8, <3>9
  <2>4. \A p \in 1..(n + 3) : p \in {1, 2, 3} \/ \E j \in 1..n : p = j + 3
    <3> TAKE p \in 1..(n + 3)
    <3>1. p \in {1, 2, 3} \/ (p - 3 \in 1..n /\ p = (p - 3) + 3)
      BY <2>1
    <3> QED BY <3>1
  <2>5. /\ Held(Stream) = (Held(wire) \union Held(send_buf)) \union Held(write_buf)
        /\ Distinct(wire) /\ Distinct(send_buf) /\ Distinct(write_buf)
        /\ Held(wire) \cap Held(send_buf) = {} /\ Held(wire) \cap Held(write_buf) = {}
        /\ Held(send_buf) \cap Held(write_buf) = {}
    <3> DEFINE x == wire \o send_buf
    <3>1. x \in Seq(Nat)
      BY <2>1, ConcatProperties
    <3>2. Held(x) = Held(wire) \union Held(send_buf)
          /\ (Distinct(x) => Distinct(wire) /\ Distinct(send_buf) /\ Held(wire) \cap Held(send_buf) = {})
      BY <2>1, HeldConcat
    <3> HIDE DEF x
    <3>3. Held(x \o write_buf) = Held(x) \union Held(write_buf)
          /\ (Distinct(x \o write_buf) =>
                Distinct(x) /\ Distinct(write_buf) /\ Held(x) \cap Held(write_buf) = {})
      BY <2>1, <3>1, HeldConcat
    <3>4. Stream = x \o write_buf /\ Distinct(x \o write_buf)
      BY <2>2 DEF Whole, x
    <3> QED BY <3>2, <3>3, <3>4
  <2> HIDE DEF b, n
  <2>6. /\ BlocksHeld(b) = UNION {Held(b[j]) : j \in 1..n}
        /\ \A j \in 1..n : Distinct(b[j])
        /\ \A j, k \in 1..n : j # k => Held(b[j]) \cap Held(b[k]) = {}
    BY <2>2 DEF Whole, BlocksHeld, BlocksDistinct, n
  <2>7. \A p \in 1..(n + 3) : ToSet(Parts[p]) = Held(Parts[p])
    BY <2>3, LenProperties DEF ToSet, Held
  <2>8. \A p \in 1..(n + 3) : Distinct(Parts[p])
    BY <2>3, <2>4, <2>5, <2>6
  <2>9. ASSUME NEW p \in 1..(n + 3), NEW q \in 1..(n + 3), p < q
        PROVE  Held(Parts[p]) \cap Held(Parts[q]) = {}
    <3>1. Held(Stream) \cap BlocksHeld(b) = {}
      BY <2>2 DEF Whole
    <3>2. \A j \in 1..n : /\ Held(wire) \cap Held(b[j]) = {} /\ Held(send_buf) \cap Held(b[j]) = {}
                          /\ Held(write_buf) \cap Held(b[j]) = {}
      BY <2>5, <2>6, <3>1
    <3>3. CASE p \in {1, 2, 3} /\ q \in {1, 2, 3}
      <4>1. (p = 1 /\ q = 2) \/ (p = 1 /\ q = 3) \/ (p = 2 /\ q = 3)
        BY <2>9, <3>3
      <4> QED BY <2>3, <2>5, <4>1
    <3>4. CASE \E j \in 1..n : q = j + 3
      <4>1. PICK j \in 1..n : q = j + 3
        BY <3>4
      <4>2. Parts[q] = b[j]
        BY <2>3, <4>1
      <4>3. CASE p \in {1, 2, 3}
        BY <2>3, <3>2, <4>2, <4>3
      <4>4. CASE \E k \in 1..n : p = k + 3
        <5>1. PICK k \in 1..n : p = k + 3
          BY <4>4
        <5>2. Parts[p] = b[k] /\ k # j
          BY <2>3, <2>9, <4>1, <5>1
        <5> QED BY <2>6, <4>2, <5>2
      <4> QED BY <2>4, <4>3, <4>4
    <3>5. CASE q \in {1, 2, 3} /\ \E k \in 1..n : p = k + 3
      <4>1. PICK k \in 1..n : p = k + 3
        BY <3>5
      <4>2. p > 3 /\ q <= 3
        BY <2>1, <3>5, <4>1
      <4> QED BY <2>9, <4>2
    <3> QED BY <2>4, <3>3, <3>4, <3>5
  <2>10. \A p, q \in 1..(n + 3) : p # q => Held(Parts[p]) \cap Held(Parts[q]) = {}
    <3> TAKE p, q \in 1..(n + 3)
    <3> HAVE p # q
    <3>1. p < q \/ q < p
      BY <2>1
    <3> QED BY <2>9, <3>1
  <2>11. UNION {ToSet(Parts[p]) : p \in DOMAIN Parts} = 1..accepted
    <3>1. UNION {Held(Parts[p]) : p \in 1..(n + 3)} = Held(Stream) \union BlocksHeld(b)
      <4>1. UNION {Held(Parts[p]) : p \in 1..(n + 3)} \subseteq Held(Stream) \union BlocksHeld(b)
        <5> SUFFICES ASSUME NEW p \in 1..(n + 3)
                     PROVE  Held(Parts[p]) \subseteq Held(Stream) \union BlocksHeld(b)
          OBVIOUS
        <5>1. CASE p \in {1, 2, 3}
          BY <2>3, <2>5, <5>1
        <5>2. CASE \E j \in 1..n : p = j + 3
          <6>1. PICK j \in 1..n : p = j + 3
            BY <5>2
          <6>2. Parts[p] = b[j] /\ Held(b[j]) \subseteq BlocksHeld(b)
            BY <2>3, <2>6, <6>1
          <6> QED BY <6>2
        <5> QED BY <2>4, <5>1, <5>2
      <4>2. \A j \in 1..n : j + 3 \in 1..(n + 3)
        BY <2>1 DEF n
      <4>3. 1 \in 1..(n + 3) /\ 2 \in 1..(n + 3) /\ 3 \in 1..(n + 3)
        BY <2>1 DEF n
      <4>4. Held(Stream) \subseteq UNION {Held(Parts[p]) : p \in 1..(n + 3)}
        BY <2>3, <2>5, <4>3
      <4>5. BlocksHeld(b) \subseteq UNION {Held(Parts[p]) : p \in 1..(n + 3)}
        BY <2>3, <2>6, <4>2
      <4> QED BY <4>1, <4>4, <4>5
    <3>2. {ToSet(Parts[p]) : p \in DOMAIN Parts} = {Held(Parts[p]) : p \in 1..(n + 3)}
      BY <2>3, <2>7
    <3> QED BY <2>2, <3>1, <3>2 DEF Whole
  <2>12. ASSUME NEW p \in DOMAIN Parts, NEW q \in DOMAIN Parts,
                NEW i \in DOMAIN Parts[p], NEW j \in DOMAIN Parts[q],
                Parts[p][i] = Parts[q][j]
         PROVE  p = q /\ i = j
    <3>1. p \in 1..(n + 3) /\ q \in 1..(n + 3)
      BY <2>3
    <3>2. i \in 1..Len(Parts[p]) /\ j \in 1..Len(Parts[q])
      BY <2>3, <3>1, LenProperties
    <3>3. p = q
      <4>1. Parts[p][i] \in Held(Parts[p]) /\ Parts[q][j] \in Held(Parts[q])
        BY <3>2 DEF Held
      <4> QED BY <2>10, <2>12, <3>1, <4>1
    <3> QED BY <2>8, <2>12, <3>1, <3>2, <3>3 DEF Distinct
  <2> QED BY <2>11, <2>12
<1>2. Layout /\ IInv /\ [Next]_vars => Layout'
  BY LayoutStep
<1> QED BY <1>1, <1>2, LayoutInit, Invariance, PTL DEF Spec
=============================================================================
