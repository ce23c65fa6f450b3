----------------------- MODULE NetworkSessionRead_proofs ----------------------
(***************************************************************************)
(* Proofs about the incoming half of a session, for every buffer size,     *)
(* message length and bound: its types, that the bytes still to be handed  *)
(* over are the whole messages that follow the last one, and that a        *)
(* message is handed over again only while the session is being closed.    *)
(***************************************************************************)
EXTENDS NetworkSessionRead, SequenceTheorems, TLAPS

-----------------------------------------------------------------------------
(* Buffers *)

\* Concatenation, for sequences over any set.
LEMMA ConcatFacts ==
    ASSUME NEW S, NEW s \in Seq(S), NEW t \in Seq(S)
    PROVE  /\ s \o t \in Seq(S) /\ Len(s \o t) = Len(s) + Len(t)
           /\ \A i \in 1..Len(s) : (s \o t)[i] = s[i]
           /\ \A i \in 1..Len(t) : (s \o t)[Len(s) + i] = t[i]
<1>1. /\ s \o t \in Seq(S) /\ Len(s \o t) = Len(s) + Len(t)
      /\ \A i \in 1..(Len(s) + Len(t)) :
           (s \o t)[i] = IF i <= Len(s) THEN s[i] ELSE t[i - Len(s)]
  BY ConcatProperties
<1>2. Len(s) \in Nat /\ Len(t) \in Nat
  BY LenProperties
<1>3. ASSUME NEW i \in 1..Len(s) PROVE (s \o t)[i] = s[i]
  BY <1>1, <1>2
<1>4. ASSUME NEW i \in 1..Len(t) PROVE (s \o t)[Len(s) + i] = t[i]
  <2>1. Len(s) + i \in 1..(Len(s) + Len(t)) /\ ~(Len(s) + i <= Len(s)) /\ Len(s) + i - Len(s) = i
    BY <1>2
  <2> QED BY <1>1, <2>1
<1> QED BY <1>1, <1>3, <1>4

\* The first n elements, and what MsgBuffer::move leaves of a buffer.
LEMMA Parts ==
    ASSUME NEW S, NEW s \in Seq(S), NEW n \in 0..Len(s)
    PROVE  /\ SubSeq(s, 1, n) \in Seq(S) /\ Len(SubSeq(s, 1, n)) = n
           /\ \A i \in 1..n : SubSeq(s, 1, n)[i] = s[i]
           /\ Drop(s, n) \in Seq(S) /\ Len(Drop(s, n)) = Len(s) - n
           /\ \A i \in 1..(Len(s) - n) : Drop(s, n)[i] = s[n + i]
<1>1. Len(s) \in Nat /\ \A i \in 1..Len(s) : s[i] \in S
  BY LenProperties, ElementOfSeq
<1>2. SubSeq(s, 1, n) \in Seq(S) /\ Len(SubSeq(s, 1, n)) = n
  BY <1>1, SubSeqProperties, n <= Len(s)
<1>3. Drop(s, n) \in Seq(S) /\ Len(Drop(s, n)) = Len(s) - n
  <2>1. \A i \in (n + 1)..Len(s) : s[i] \in S
    BY <1>1
  <2>2. /\ SubSeq(s, n + 1, Len(s)) \in Seq(S)
        /\ Len(SubSeq(s, n + 1, Len(s))) =
             IF n + 1 <= Len(s) THEN Len(s) - (n + 1) + 1 ELSE 0
    BY <1>1, <2>1, SubSeqProperties
  <2> QED BY <1>1, <2>2 DEF Drop
<1>4. ASSUME NEW i \in 1..n PROVE SubSeq(s, 1, n)[i] = s[i]
  <2>1. i \in 1..(n - 1 + 1) /\ 1 + i - 1 = i
    BY <1>1
  <2> QED BY <1>1, <2>1
<1>5. ASSUME NEW i \in 1..(Len(s) - n) PROVE Drop(s, n)[i] = s[n + i]
  BY <1>1 DEF Drop
<1> QED BY <1>2, <1>3, <1>4, <1>5

\* Two sequences with the same length and elements are equal.
LEMMA SameElements ==
    ASSUME NEW S, NEW s \in Seq(S), NEW t \in Seq(S), Len(s) = Len(t),
           \A i \in 1..Len(s) : s[i] = t[i]
    PROVE  s = t
BY SeqEqual

\* The parts make the whole.
LEMMA PartsConcat ==
    ASSUME NEW S, NEW s \in Seq(S), NEW n \in 0..Len(s)
    PROVE  SubSeq(s, 1, n) \o Drop(s, n) = s
<1>1. Len(s) \in Nat
  BY LenProperties
<1>2. SubSeq(s, 1, n) \o SubSeq(s, n + 1, Len(s)) = SubSeq(s, 1, Len(s))
  <2>1. 1 \in 1..(Len(s) + 1) /\ n \in (1 - 1)..Len(s) /\ Len(s) \in n..Len(s)
    BY <1>1
  <2> QED BY <2>1, ConcatAdjacentSubSeq
<1> QED BY <1>2, SubSeqFull DEF Drop

\* Dropping nothing.
LEMMA DropNothing ==
    ASSUME NEW S, NEW s \in Seq(S)
    PROVE  Drop(s, 0) = s
<1>1. Len(s) \in Nat
  BY LenProperties
<1>2. Drop(s, 0) = SubSeq(s, 1, Len(s))
  BY <1>1 DEF Drop
<1> QED BY <1>2, SubSeqFull

\* Dropping a prefix that lies inside the first of two buffers.
LEMMA DropConcat ==
    ASSUME NEW S, NEW s \in Seq(S), NEW t \in Seq(S), NEW n \in 0..Len(s)
    PROVE  Drop(s \o t, n) = Drop(s, n) \o t
<1> DEFINE u == s \o t
<1>1. /\ Len(s) \in Nat /\ Len(t) \in Nat /\ u \in Seq(S) /\ Len(u) = Len(s) + Len(t)
      /\ \A i \in 1..Len(s) : u[i] = s[i]
      /\ \A i \in 1..Len(t) : u[Len(s) + i] = t[i]
  BY LenProperties, ConcatFacts
<1>2. PICK d \in Seq(S) : /\ d = Drop(s, n) /\ Len(d) = Len(s) - n
                          /\ \A i \in 1..(Len(s) - n) : d[i] = s[n + i]
  <2>1. /\ Drop(s, n) \in Seq(S) /\ Len(Drop(s, n)) = Len(s) - n
        /\ \A i \in 1..(Len(s) - n) : Drop(s, n)[i] = s[n + i]
    BY Parts
  <2> QED BY <2>1, Zenon
<1> HIDE DEF u
<1>3. /\ d \o t \in Seq(S) /\ Len(d \o t) = Len(d) + Len(t)
      /\ \A i \in 1..Len(d) : (d \o t)[i] = d[i]
      /\ \A i \in 1..Len(t) : (d \o t)[Len(d) + i] = t[i]
  BY ConcatFacts
<1>4. /\ Drop(u, n) \in Seq(S) /\ Len(Drop(u, n)) = Len(u) - n
      /\ \A i \in 1..(Len(u) - n) : Drop(u, n)[i] = u[n + i]
  <2>1. n \in 0..Len(u)
    BY <1>1
  <2> QED BY <1>1, <2>1, Parts
<1>5. ASSUME NEW i \in 1..Len(Drop(u, n)) PROVE Drop(u, n)[i] = (d \o t)[i]
  <2>1. Drop(u, n)[i] = u[n + i]
    BY <1>4
  <2>2. CASE i <= Len(s) - n
    <3>1. i \in 1..Len(d) /\ n + i \in 1..Len(s) /\ i \in 1..(Len(s) - n)
      BY <1>1, <1>2, <2>2
    <3> QED BY <1>1, <1>2, <1>3, <2>1, <3>1
  <2>3. CASE ~(i <= Len(s) - n)
    <3>1. i \in 1..(Len(s) + Len(t) - n)
      BY <1>1, <1>4
    <3> DEFINE k == n + i - Len(s)
    <3>2. k \in 1..Len(t) /\ n + i = Len(s) + k /\ i = Len(d) + k
      BY <1>1, <1>2, <2>3, <3>1
    <3> HIDE DEF k
    <3>3. Drop(u, n)[i] = t[k]
      BY <1>1, <2>1, <3>2
    <3>4. (d \o t)[i] = t[k]
      BY <1>3, <3>2
    <3> QED BY <3>3, <3>4
  <2> QED BY <2>2, <2>3
<1>6. Len(Drop(u, n)) = Len(d \o t)
  BY <1>1, <1>2, <1>3, <1>4
<1>7. Drop(u, n) = d \o t
  BY <1>3, <1>4, <1>5, <1>6, SameElements
<1> QED BY <1>2, <1>7 DEF u

\* Dropping twice.
LEMMA DropDrop ==
    ASSUME NEW S, NEW s \in Seq(S), NEW m \in Nat, NEW n \in Nat, m + n <= Len(s)
    PROVE  Drop(Drop(s, m), n) = Drop(s, m + n)
<1> DEFINE d == Drop(s, m)
<1>1. Len(s) \in Nat /\ m \in 0..Len(s) /\ m + n \in 0..Len(s)
  BY LenProperties
<1>2. d \in Seq(S) /\ Len(d) = Len(s) - m /\ \A i \in 1..(Len(s) - m) : d[i] = s[m + i]
  BY <1>1, Parts
<1>3. /\ Drop(s, m + n) \in Seq(S) /\ Len(Drop(s, m + n)) = Len(s) - (m + n)
      /\ \A i \in 1..(Len(s) - (m + n)) : Drop(s, m + n)[i] = s[m + n + i]
  BY <1>1, Parts
<1> HIDE DEF d
<1>4. /\ Drop(d, n) \in Seq(S) /\ Len(Drop(d, n)) = Len(d) - n
      /\ \A i \in 1..(Len(d) - n) : Drop(d, n)[i] = d[n + i]
  <2>1. n \in 0..Len(d)
    BY <1>1, <1>2
  <2> QED BY <1>2, <2>1, Parts
<1>5. ASSUME NEW i \in 1..Len(Drop(d, n)) PROVE Drop(d, n)[i] = Drop(s, m + n)[i]
  <2>1. /\ i \in 1..(Len(d) - n) /\ n + i \in 1..(Len(s) - m) /\ i \in 1..(Len(s) - (m + n))
        /\ m + (n + i) = m + n + i
    BY <1>1, <1>2, <1>4
  <2> QED BY <1>2, <1>3, <1>4, <2>1
<1>6. Len(Drop(d, n)) = Len(Drop(s, m + n))
  <2>1. Len(d) - n = Len(s) - (m + n)
    BY <1>1, <1>2
  <2> QED BY <1>3, <1>4, <2>1
<1>7. Drop(d, n) = Drop(s, m + n)
  BY <1>3, <1>4, <1>5, <1>6, SameElements
<1> QED BY <1>7 DEF d

\* The smaller of two numbers.
LEMMA LeastFact ==
    ASSUME NEW a \in Int, NEW b \in Int
    PROVE  Least(a, b) \in {a, b} /\ Least(a, b) <= a /\ Least(a, b) <= b
BY DEF Least

\* A message is a sequence of bytes.
LEMMA MessageType ==
    ASSUME NEW m \in 1..MaxMsgs, NEW len \in 1..MaxLen
    PROVE  /\ Message(m, len) \in Seq(Byte) /\ Len(Message(m, len)) = len
           /\ \A j \in 1..len : Message(m, len)[j] = <<m, j, len>>
<1>1. len \in Nat /\ \A j \in 1..len : <<m, j, len>> \in Byte
  BY ReadAssumption DEF Byte, ReadAssumption
<1>2. Message(m, len) \in [1..len -> Byte]
  BY <1>1 DEF Message
<1>3. Message(m, len) \in Seq(Byte) /\ Len(Message(m, len)) = len
  BY <1>1, <1>2
<1> QED BY <1>3 DEF Message

\* The parts of a byte.
LEMMA ByteParts ==
    ASSUME NEW b \in Byte
    PROVE  b[1] \in 1..MaxMsgs /\ b[2] \in 1..MaxLen /\ b[3] \in 1..MaxLen /\ b = <<b[1], b[2], b[3]>>
BY DEF Byte

-----------------------------------------------------------------------------
(* Whole messages *)

\* The parts of a byte: its message, its place in it and the message's length.
Msg(b) == b[1]
Pos(b) == b[2]
Size(b) == b[3]

\* The i-th of n bytes stands in a message of which every byte is in s, at its
\* place, and the next message has the next number.
Placed(s, n, i) ==
    /\ Msg(s[i]) \in Nat /\ Size(s[i]) \in Lens /\ Pos(s[i]) \in 1..Size(s[i])
    /\ Pos(s[i]) <= i /\ i - Pos(s[i]) + Size(s[i]) <= n
    /\ \A j \in 1..Size(s[i]) :
         /\ Msg(s[i - Pos(s[i]) + j]) = Msg(s[i]) /\ Pos(s[i - Pos(s[i]) + j]) = j
         /\ Size(s[i - Pos(s[i]) + j]) = Size(s[i])
    /\ Pos(s[i]) = Size(s[i]) /\ i < n => Msg(s[i + 1]) = Msg(s[i]) + 1 /\ Pos(s[i + 1]) = 1

\* The first n bytes of s are whole messages, the last one number last.
Whole(s, n, last) ==
    /\ \A i \in 1..n : Placed(s, n, i) /\ Msg(s[i]) <= last
    /\ n # 0 => Msg(s[n]) = last

\* The first of them, or the one that comes next, has number first.
Starts(s, n, first, last) == first = IF n = 0 THEN last + 1 ELSE Msg(s[1])

LEMMA LensFact ==
    \A len \in Lens : len \in 1..MaxLen /\ len >= HeaderSize /\ len \in Nat
BY ReadAssumption DEF ReadAssumption

\* The parts of a byte as numbers.
LEMMA PlacedParts ==
    ASSUME NEW s, NEW n \in Nat, NEW i \in 1..n, Placed(s, n, i)
    PROVE  \E m \in Nat, p \in Nat, l \in Nat :
             /\ Msg(s[i]) = m /\ Pos(s[i]) = p /\ Size(s[i]) = l
             /\ l \in Lens /\ p \in 1..l /\ p <= i /\ i - p + l <= n
             /\ \A j \in 1..l : /\ Msg(s[i - p + j]) = m /\ Pos(s[i - p + j]) = j
                                /\ Size(s[i - p + j]) = l
             /\ p = l /\ i < n => Msg(s[i + 1]) = m + 1 /\ Pos(s[i + 1]) = 1
<1>1. Size(s[i]) \in Nat
  BY LensFact DEF Placed
<1>2. Pos(s[i]) \in Nat
  BY <1>1 DEF Placed
<1> QED BY <1>1, <1>2, Zenon DEF Placed

\* PeerSend adds the next message.
LEMMA WholeAppend ==
    ASSUME NEW s, NEW u, NEW n \in Nat, NEW a \in Nat, NEW b \in Nat, Whole(s, n, b),
           Starts(s, n, a, b), NEW len \in Nat, len \in Lens,
           \A i \in 1..n : u[i] = s[i],
           \A j \in 1..len : /\ Msg(u[n + j]) = b + 1 /\ Pos(u[n + j]) = j
                             /\ Size(u[n + j]) = len
    PROVE  Whole(u, n + len, b + 1) /\ Starts(u, n + len, a, b + 1)
<1>1. len >= 1
  BY LensFact
<1>2. ASSUME NEW i \in 1..n PROVE Placed(u, n + len, i)
  <2>1. Placed(s, n, i)
    BY DEF Whole
  <2>2. PICK m \in Nat, p \in Nat, l \in Nat :
          /\ Msg(s[i]) = m /\ Pos(s[i]) = p /\ Size(s[i]) = l
          /\ l \in Lens /\ p \in 1..l /\ p <= i /\ i - p + l <= n
          /\ \A j \in 1..l : /\ Msg(s[i - p + j]) = m /\ Pos(s[i - p + j]) = j
                             /\ Size(s[i - p + j]) = l
          /\ p = l /\ i < n => Msg(s[i + 1]) = m + 1 /\ Pos(s[i + 1]) = 1
    BY <2>1, PlacedParts
  <2>3. \A j \in 1..l : i - p + j \in 1..n
    BY <2>2
  <2>4. \A j \in 1..l : /\ Msg(u[i - p + j]) = m /\ Pos(u[i - p + j]) = j
                        /\ Size(u[i - p + j]) = l
    BY <2>2, <2>3
  <2>5. i < n => i + 1 \in 1..n
    OBVIOUS
  <2>6. i = n => m = b
    BY <2>2 DEF Whole
  <2>7. p = l => Msg(u[i + 1]) = m + 1 /\ Pos(u[i + 1]) = 1
    <3>1. CASE i < n
      BY <2>2, <2>5, <3>1
    <3>2. CASE i = n
      BY <1>1, <2>6, <3>2
    <3> QED BY <3>1, <3>2
  <2>8. i \in 1..(n + len) /\ i - p + l <= n + len /\ n + len \in Nat
    BY <2>2
  <2>9. Msg(u[i]) = m /\ Pos(u[i]) = p /\ Size(u[i]) = l
    BY <2>2
  <2> QED BY <2>2, <2>4, <2>7, <2>8, <2>9 DEF Placed
<1>3. ASSUME NEW k \in 1..len PROVE Placed(u, n + len, n + k)
  <2>1. n + k - k = n /\ k \in Nat /\ n + len \in Nat /\ n + k \in 1..(n + len)
    OBVIOUS
  <2>2. n + k - k + len <= n + len /\ k <= n + k /\ (k = len => ~(n + k < n + len))
    OBVIOUS
  <2>3. \A j \in 1..len : /\ Msg(u[n + k - k + j]) = b + 1 /\ Pos(u[n + k - k + j]) = j
                          /\ Size(u[n + k - k + j]) = len
    BY <2>1
  <2>4. /\ Msg(u[n + k]) = b + 1 /\ Pos(u[n + k]) = k /\ Size(u[n + k]) = len
        /\ b + 1 \in Nat /\ k \in 1..len
    OBVIOUS
  <2> QED BY <2>1, <2>2, <2>3, <2>4 DEF Placed
<1>4. ASSUME NEW i \in 1..(n + len) PROVE Placed(u, n + len, i)
  <2>1. i \in 1..n \/ (i - n \in 1..len /\ i = n + (i - n))
    OBVIOUS
  <2> QED BY <1>2, <1>3, <2>1
<1>5. Msg(u[n + len]) = b + 1 /\ n + len # 0
  BY <1>1
<1>6. ASSUME NEW i \in 1..(n + len) PROVE Msg(u[i]) <= b + 1
  <2>1. CASE i \in 1..n
    <3>1. Msg(s[i]) \in Nat /\ Msg(s[i]) <= b
      BY <2>1 DEF Whole, Placed
    <3> QED BY <2>1, <3>1
  <2>2. CASE i - n \in 1..len
    <3>1. n + (i - n) = i
      OBVIOUS
    <3> QED BY <2>2, <3>1
  <2> QED BY <2>1, <2>2
<1>7. Starts(u, n + len, a, b + 1)
  <2>1. CASE n = 0
    BY <1>1, <2>1 DEF Starts
  <2>2. CASE n # 0
    BY <1>5, <2>2 DEF Starts
  <2> QED BY <2>1, <2>2
<1> QED BY <1>4, <1>5, <1>6, <1>7 DEF Whole

\* The first message of a sequence of whole messages.
LEMMA WholeFirst ==
    ASSUME NEW s, NEW n \in Nat, NEW b \in Nat, Whole(s, n, b), n # 0
    PROVE  \E a \in Nat, len \in Nat :
             /\ Starts(s, n, a, b) /\ a <= b
             /\ len \in Lens /\ len \in 1..n /\ len = Size(s[1])
             /\ \A j \in 1..len : Msg(s[j]) = a /\ Pos(s[j]) = j /\ Size(s[j]) = len
<1>1. 1 \in 1..n /\ Placed(s, n, 1)
  BY DEF Whole
<1>2. PICK m \in Nat, p \in Nat, l \in Nat :
        /\ Msg(s[1]) = m /\ Pos(s[1]) = p /\ Size(s[1]) = l
        /\ l \in Lens /\ p \in 1..l /\ p <= 1 /\ 1 - p + l <= n
        /\ \A j \in 1..l : /\ Msg(s[1 - p + j]) = m /\ Pos(s[1 - p + j]) = j
                           /\ Size(s[1 - p + j]) = l
        /\ p = l /\ 1 < n => Msg(s[1 + 1]) = m + 1 /\ Pos(s[1 + 1]) = 1
  BY <1>1, PlacedParts
<1>3. p = 1 /\ l \in 1..n /\ \A j \in 1..l : 1 - p + j = j
  BY <1>2
<1>4. \A j \in 1..l : Msg(s[j]) = m /\ Pos(s[j]) = j /\ Size(s[j]) = l
  BY <1>1, <1>2, <1>3
<1>5. Starts(s, n, m, b) /\ m <= b
  BY <1>1, <1>2 DEF Starts, Whole
<1> QED BY <1>2, <1>3, <1>4, <1>5, Zenon

\* Handing over the first message leaves the messages that follow it.
LEMMA WholeRest ==
    ASSUME NEW s, NEW u, NEW n \in Nat, NEW a \in Nat, NEW b \in Nat, Whole(s, n, b),
           Starts(s, n, a, b),
           NEW len \in Nat, n # 0, len = Size(s[1]),
           \A i \in 1..(n - len) : u[i] = s[len + i]
    PROVE  Whole(u, n - len, b) /\ Starts(u, n - len, a + 1, b)
<1>0. PICK d \in Nat, c \in Nat :
        /\ Starts(s, n, d, b) /\ d <= b
        /\ c \in Lens /\ c \in 1..n /\ c = Size(s[1])
        /\ \A j \in 1..c : Msg(s[j]) = d /\ Pos(s[j]) = j /\ Size(s[j]) = c
  BY WholeFirst, Zenon
<1>a. a = d
  BY <1>0, n # 0 DEF Starts
<1>1. /\ len \in Lens /\ len >= 1 /\ len <= n
      /\ \A j \in 1..len : Msg(s[j]) = a /\ Pos(s[j]) = j /\ Size(s[j]) = len
  BY <1>0, <1>a
<1>2. n - len \in Nat /\ n - len <= n
  BY <1>1
<1>3. ASSUME NEW i \in 1..(n - len) PROVE Placed(u, n - len, i)
  <2>0. PICK k \in 1..n : k = len + i
    BY <1>1
  <2>1. u[i] = s[k] /\ Placed(s, n, k) /\ i \in Nat
    BY <2>0 DEF Whole
  <2>2. PICK m \in Nat, p \in Nat, l \in Nat :
          /\ Msg(s[k]) = m /\ Pos(s[k]) = p /\ Size(s[k]) = l
          /\ l \in Lens /\ p \in 1..l /\ p <= k /\ k - p + l <= n
          /\ \A j \in 1..l : /\ Msg(s[k - p + j]) = m /\ Pos(s[k - p + j]) = j
                             /\ Size(s[k - p + j]) = l
          /\ p = l /\ k < n => Msg(s[k + 1]) = m + 1 /\ Pos(s[k + 1]) = 1
    BY <2>1, PlacedParts
  <2>3. p <= i
    <3>1. SUFFICES ASSUME p > i PROVE FALSE
      BY <2>1
    <3>2. k - p + 1 \in 1..len /\ 1 \in 1..l
      BY <1>1, <2>0, <2>2, <3>1
    <3>3. Pos(s[k - p + 1]) = 1 /\ Size(s[k - p + 1]) = l
      BY <2>2, <3>2
    <3>4. k - p + 1 = 1 /\ len = l
      BY <1>1, <3>2, <3>3
    <3> QED BY <2>0, <2>1, <2>2, <3>1, <3>4
  <2>4. i - p + l <= n - len
    BY <2>0, <2>1, <2>2
  <2>5. \A j \in 1..l : i - p + j \in 1..(n - len) /\ len + (i - p + j) = k - p + j
    BY <2>0, <2>2, <2>3, <2>4
  <2>6. \A j \in 1..l : /\ Msg(u[i - p + j]) = m /\ Pos(u[i - p + j]) = j
                        /\ Size(u[i - p + j]) = l
    <3>1. \A j \in 1..l : u[i - p + j] = s[k - p + j]
      BY <2>5
    <3> QED BY <2>2, <3>1
  <2>7. p = l /\ i < n - len => Msg(u[i + 1]) = m + 1 /\ Pos(u[i + 1]) = 1
    <3>1. i < n - len => i + 1 \in 1..(n - len) /\ len + (i + 1) = k + 1 /\ k < n
      BY <1>1, <2>0
    <3>2. i < n - len => u[i + 1] = s[k + 1]
      BY <3>1
    <3> QED BY <2>2, <3>1, <3>2
  <2>8. Msg(u[i]) = m /\ Pos(u[i]) = p /\ Size(u[i]) = l
    BY <2>1, <2>2
  <2> QED BY <1>2, <2>2, <2>3, <2>4, <2>6, <2>7, <2>8 DEF Placed
<1>4. ASSUME NEW i \in 1..(n - len) PROVE Msg(u[i]) <= b
  <2>1. len + i \in 1..n
    BY <1>1
  <2> QED BY <2>1 DEF Whole
<1>5. Placed(s, n, len) /\ Msg(s[len]) = a /\ Pos(s[len]) = len /\ Size(s[len]) = len /\ Msg(s[n]) = b
  BY <1>1 DEF Whole
<1>6. CASE len = n
  <2>1. n - len = 0 /\ a = b
    BY <1>5, <1>6
  <2> QED BY <1>0, <2>1 DEF Whole, Starts
<1>7. CASE len < n
  <2>1. Msg(s[len + 1]) = a + 1
    BY <1>5, <1>7 DEF Placed
  <2>2. 1 \in 1..(n - len) /\ n - len \in 1..(n - len) /\ len + (n - len) = n /\ n - len # 0
    BY <1>1, <1>7
  <2>3. u[1] = s[len + 1] /\ u[n - len] = s[n]
    BY <2>2
  <2>4. Whole(u, n - len, b)
    BY <1>3, <1>4, <1>5, <2>3 DEF Whole
  <2> QED BY <1>0, <2>1, <2>2, <2>3, <2>4 DEF Starts
<1> QED BY <1>1, <1>6, <1>7

-----------------------------------------------------------------------------
(* The inductive invariant *)

\* The loop of dispatch stays within what read_buf_ held when it noted its size.
Control == main = "dispatching" => cur <= read_size /\ read_size <= Len(read_buf)

\* What is not yet handed over, and what a dispatch that returns early leaves.
Rest == Drop(read_buf, InDispatch) \o net
Received == read_buf \o net

\* Until an overflow block is used both are whole messages, the last of them the
\* last one sent, and dispatch has taken nothing else for a message.
Intact ==
    ~overflowed =>
        /\ buf2_read = <<>> /\ ~torn
        /\ Whole(Received, Len(Received), sent)
        /\ Whole(Rest, Len(Rest), sent)
        /\ \A i \in 1..Len(delivered) : delivered[i] <= sent

Good == link = "open" /\ ~overflowed /\ ~closing

\* The message to be handed over next.
Expected ==
    IF delivered = <<>> \/ Last(delivered) < base THEN base + 1 ELSE Last(delivered) + 1

Order ==
    Good => /\ Starts(Rest, Len(Rest), Expected, sent)
            /\ \A i \in 1..Len(delivered) : delivered[i] < Expected

IInv == TypeOK /\ Control /\ Intact /\ Order /\ RepeatedOnlyWhileClosing

-----------------------------------------------------------------------------
(* Buffers of the session *)

\* A message added to whole messages, and one taken off.
LEMMA WholeSend ==
    ASSUME NEW s \in Seq(Byte), NEW a \in Nat, NEW b \in Nat, NEW len \in Nat,
           Whole(s, Len(s), b), Starts(s, Len(s), a, b), b + 1 \in 1..MaxMsgs, len \in Lens
    PROVE  /\ Whole(s \o Message(b + 1, len), Len(s \o Message(b + 1, len)), b + 1)
           /\ Starts(s \o Message(b + 1, len), Len(s \o Message(b + 1, len)), a, b + 1)
<1>1. PICK t \in Seq(Byte) :
        t = Message(b + 1, len) /\ Len(t) = len /\ \A j \in 1..len : t[j] = <<b + 1, j, len>>
  <2>1. len \in 1..MaxLen
    BY LensFact
  <2>2. /\ Message(b + 1, len) \in Seq(Byte) /\ Len(Message(b + 1, len)) = len
        /\ \A j \in 1..len : Message(b + 1, len)[j] = <<b + 1, j, len>>
    BY <2>1, MessageType
  <2> QED BY <2>2, Zenon
<1>2. PICK n \in Nat : n = Len(s)
  BY LenProperties
<1>3. PICK u \in Seq(Byte) :
        /\ u = s \o t /\ Len(u) = n + len
        /\ \A i \in 1..n : u[i] = s[i]
        /\ \A j \in 1..len : u[n + j] = t[j]
  <2>1. /\ s \o t \in Seq(Byte) /\ Len(s \o t) = n + len
        /\ \A i \in 1..n : (s \o t)[i] = s[i]
        /\ \A j \in 1..len : (s \o t)[n + j] = t[j]
    <3>1. /\ s \o t \in Seq(Byte) /\ Len(s \o t) = Len(s) + Len(t)
          /\ \A i \in 1..Len(s) : (s \o t)[i] = s[i]
          /\ \A i \in 1..Len(t) : (s \o t)[Len(s) + i] = t[i]
      BY ConcatFacts
    <3> QED BY <1>1, <1>2, <3>1
  <2> QED BY <2>1, Zenon
<1>4. \A j \in 1..len : Msg(u[n + j]) = b + 1 /\ Pos(u[n + j]) = j /\ Size(u[n + j]) = len
  BY <1>1, <1>3 DEF Msg, Pos, Size
<1>5. Whole(s, n, b) /\ Starts(s, n, a, b)
  BY <1>2
<1>6. Whole(u, n + len, b + 1) /\ Starts(u, n + len, a, b + 1)
  <2>1. \A i \in 1..n : u[i] = s[i]
    BY <1>3
  <2> QED BY <2>1, <1>4, <1>5, WholeAppend, Zenon
<1> QED BY <1>1, <1>2, <1>3, <1>6

LEMMA WholeTaken ==
    ASSUME NEW s \in Seq(Byte), NEW a \in Nat, NEW b \in Nat, NEW len \in Nat,
           Whole(s, Len(s), b), Starts(s, Len(s), a, b),
           Len(s) # 0, len = Size(s[1]), len <= Len(s)
    PROVE  /\ Whole(Drop(s, len), Len(Drop(s, len)), b)
           /\ Starts(Drop(s, len), Len(Drop(s, len)), a + 1, b)
<1>1. PICK n \in Nat : n = Len(s)
  BY LenProperties
<1>2. PICK u \in Seq(Byte) :
        u = Drop(s, len) /\ Len(u) = n - len /\ \A i \in 1..(n - len) : u[i] = s[len + i]
  <2>1. len \in 0..Len(s)
    BY <1>1
  <2>2. /\ Drop(s, len) \in Seq(Byte) /\ Len(Drop(s, len)) = n - len
        /\ \A i \in 1..(n - len) : Drop(s, len)[i] = s[len + i]
    BY <1>1, <2>1, Parts
  <2> QED BY <2>2, Zenon
<1>3. Whole(u, n - len, b) /\ Starts(u, n - len, a + 1, b)
  <2>1. Whole(s, n, b) /\ Starts(s, n, a, b) /\ n # 0
    BY <1>1
  <2>2. \A i \in 1..(n - len) : u[i] = s[len + i]
    BY <1>2
  <2> QED BY <2>1, <2>2, WholeRest, Zenon
<1> QED BY <1>1, <1>2, <1>3

\* A part of a buffer.
LEMMA Window ==
    ASSUME NEW S, NEW s \in Seq(S), NEW m \in Nat, NEW n \in Nat, m + n <= Len(s)
    PROVE  /\ SubSeq(s, m + 1, m + n) \in Seq(S) /\ Len(SubSeq(s, m + 1, m + n)) = n
           /\ \A i \in 1..n : SubSeq(s, m + 1, m + n)[i] = s[m + i]
<1>1. Len(s) \in Nat /\ \A i \in 1..Len(s) : s[i] \in S
  BY LenProperties, ElementOfSeq
<1>2. /\ SubSeq(s, m + 1, m + n) \in Seq(S)
      /\ Len(SubSeq(s, m + 1, m + n)) = IF m + 1 <= m + n THEN m + n - (m + 1) + 1 ELSE 0
  <2>1. \A i \in (m + 1)..(m + n) : s[i] \in S
    BY <1>1
  <2> QED BY <1>1, <2>1, SubSeqProperties
<1>3. ASSUME NEW i \in 1..n PROVE SubSeq(s, m + 1, m + n)[i] = s[m + i]
  <2>1. i \in 1..(m + n - (m + 1) + 1) /\ m + 1 + i - 1 = m + i
    BY <1>1
  <2> QED BY <1>1, <2>1
<1> QED BY <1>2, <1>3

LEMMA BlockFact ==
    ASSUME NEW b
    PROVE  b \in Block <=> b \in Seq(Byte) /\ Len(b) <= ReadCap
BY DEF Block

\* The blocks stay blocks: what is added fits.
LEMMA OverflowType ==
    ASSUME NEW blocks \in Seq(Block), NEW data \in Block
    PROVE  Overflow(blocks, data) \in Seq(Block)
<1> DEFINE room == IF blocks = <<>> THEN 0 ELSE ReadCap - Len(Last(blocks))
           n    == Least(room, Len(data))
           kept == IF blocks = <<>> THEN <<>>
                   ELSE Append(Front(blocks), Last(blocks) \o SubSeq(data, 1, n))
<1>1. data \in Seq(Byte) /\ Len(data) \in Nat /\ Len(data) <= ReadCap /\ ReadCap \in Nat
  BY LenProperties, BlockFact, ReadAssumption DEF ReadAssumption
<1>2. ASSUME blocks # <<>>
      PROVE  /\ Last(blocks) \in Seq(Byte) /\ Len(Last(blocks)) \in Nat
             /\ Len(Last(blocks)) <= ReadCap
  <2>1. Len(blocks) \in 1..Len(blocks)
    BY <1>2, EmptySeq, LenProperties
  <2>2. Last(blocks) \in Block
    BY <2>1, ElementOfSeq DEF Last
  <2> QED BY <2>2, LenProperties, BlockFact
<1>3. room \in Nat /\ (blocks # <<>> => room = ReadCap - Len(Last(blocks)))
  BY <1>1, <1>2
<1>4. n \in 0..Len(data) /\ n <= room
  BY <1>1, <1>3, LeastFact
<1> HIDE DEF n, room
<1>5. /\ SubSeq(data, 1, n) \in Seq(Byte) /\ Len(SubSeq(data, 1, n)) = n
      /\ Drop(data, n) \in Seq(Byte) /\ Len(Drop(data, n)) = Len(data) - n
  BY <1>1, <1>4, Parts
<1>6. Drop(data, n) \in Block
  BY <1>1, <1>4, <1>5, BlockFact
<1>7. kept \in Seq(Block)
  <2>1. CASE blocks = <<>>
    BY <2>1, EmptySeq
  <2>2. CASE blocks # <<>>
    <3>1. /\ Last(blocks) \o SubSeq(data, 1, n) \in Seq(Byte)
          /\ Len(Last(blocks) \o SubSeq(data, 1, n)) = Len(Last(blocks)) + n
      BY <2>2, <1>2, <1>5, ConcatFacts
    <3>2. Len(Last(blocks)) + n <= ReadCap
      BY <2>2, <1>1, <1>2, <1>3, <1>4
    <3>3. Last(blocks) \o SubSeq(data, 1, n) \in Block
      BY <3>1, <3>2, BlockFact
    <3>4. Front(blocks) \in Seq(Block)
      <4>1. /\ Len(blocks) \in Nat
            /\ \A i \in 1..(Len(blocks) - 1) : blocks[i] \in Block
        BY LenProperties, ElementOfSeq
      <4> QED BY <4>1, SubSeqProperties DEF Front
    <3> QED BY <2>2, <3>3, <3>4, AppendProperties
  <2> QED BY <2>1, <2>2
<1> HIDE DEF kept
<1>8. Append(kept, Drop(data, n)) \in Seq(Block)
  BY <1>6, <1>7, AppendProperties
<1> QED BY <1>7, <1>8 DEF Overflow, kept, n, room

\* The buffers as the steps below use them.
LEMMA Buffers ==
    ASSUME IInv
    PROVE  /\ read_buf \in Seq(Byte) /\ Len(read_buf) \in Nat /\ Len(read_buf) <= ReadCap
           /\ net \in Seq(Byte) /\ Len(net) \in Nat
           /\ InDispatch \in 0..Len(read_buf)
           /\ Drop(read_buf, InDispatch) \in Seq(Byte)
           /\ Received \in Seq(Byte) /\ Rest \in Seq(Byte)
           /\ Len(Rest) = Len(read_buf) - InDispatch + Len(net)
           /\ \A i \in 1..(Len(read_buf) - InDispatch) : Rest[i] = read_buf[InDispatch + i]
<1>1. read_buf \in Seq(Byte) /\ Len(read_buf) <= ReadCap /\ net \in Seq(Byte)
  BY BlockFact DEF IInv, TypeOK
<1>2. Len(read_buf) \in Nat /\ Len(net) \in Nat
  BY <1>1, LenProperties
<1>3. InDispatch \in 0..Len(read_buf)
  <2>1. cur \in Nat /\ read_size \in Nat
    BY ReadAssumption DEF IInv, TypeOK, ReadAssumption
  <2> QED BY <1>2, <2>1 DEF IInv, Control, InDispatch
<1>4. PICK d \in Seq(Byte) :
        /\ d = Drop(read_buf, InDispatch) /\ Len(d) = Len(read_buf) - InDispatch
        /\ \A i \in 1..(Len(read_buf) - InDispatch) : d[i] = read_buf[InDispatch + i]
  <2>1. /\ Drop(read_buf, InDispatch) \in Seq(Byte)
        /\ Len(Drop(read_buf, InDispatch)) = Len(read_buf) - InDispatch
        /\ \A i \in 1..(Len(read_buf) - InDispatch) :
             Drop(read_buf, InDispatch)[i] = read_buf[InDispatch + i]
    BY <1>1, <1>3, Parts
  <2> QED BY <2>1, Zenon
<1>5. /\ d \o net \in Seq(Byte) /\ Len(d \o net) = Len(d) + Len(net)
      /\ \A i \in 1..Len(d) : (d \o net)[i] = d[i]
  BY <1>1, ConcatFacts
<1>6. Received \in Seq(Byte)
  BY <1>1, ConcatFacts DEF Received
<1>7. Rest = d \o net
  BY <1>4 DEF Rest
<1>8. Len(Rest) = Len(read_buf) - InDispatch + Len(net)
  BY <1>4, <1>5, <1>7
<1>9. \A i \in 1..(Len(read_buf) - InDispatch) : Rest[i] = read_buf[InDispatch + i]
  BY <1>4, <1>5, <1>7
<1> QED BY <1>1, <1>2, <1>3, <1>4, <1>5, <1>6, <1>7, <1>8, <1>9

-----------------------------------------------------------------------------
(* The steps *)

LEMMA NothingWhole ==
    ASSUME NEW b \in Nat
    PROVE  Whole(<<>>, Len(<<>>), b) /\ Starts(<<>>, Len(<<>>), b + 1, b)
<1>1. Len(<<>>) = 0
  BY EmptySeq
<1> QED BY <1>1 DEF Whole, Starts

LEMMA InitInv == Init => IInv
<1> SUFFICES ASSUME Init PROVE IInv
  OBVIOUS
<1> USE DEF Init
<1>1. TypeOK
  <2>1. <<>> \in Seq(Byte) /\ Len(<<>>) = 0 /\ <<>> \in Seq(Block) /\ <<>> \in Seq(1..MaxMsgs)
    BY EmptySeq
  <2>2. ReadCap \in Nat /\ Limit \in Nat /\ MaxMsgs \in Nat /\ MaxConns \in Nat /\ MaxConns >= 1
    BY ReadAssumption DEF ReadAssumption
  <2>3. <<>> \in Block
    BY <2>1, <2>2 DEF Block
  <2>4. conn \in 1..MaxConns /\ sent \in 0..MaxMsgs /\ base \in 0..sent
    BY <2>2
  <2>5. read_size \in 0..ReadCap /\ cur \in 0..ReadCap /\ handled \in 0..Limit
    BY <2>2
  <2> QED BY <2>1, <2>3, <2>4, <2>5, Zenon DEF TypeOK
<1>2. Control /\ RepeatedOnlyWhileClosing
  BY Zenon DEF Control, RepeatedOnlyWhileClosing
<1>3. Rest = <<>> /\ Received = <<>>
  <2>1. <<>> \in Seq(Byte) /\ <<>> \o <<>> = <<>>
    BY EmptySeq, ConcatEmptySeq
  <2>2. Drop(<<>>, 0) = <<>> /\ InDispatch = 0
    BY <2>1, DropNothing DEF InDispatch
  <2> QED BY <2>1, <2>2 DEF Rest, Received
<1>4. Whole(<<>>, Len(<<>>), 0) /\ Starts(<<>>, Len(<<>>), 0 + 1, 0)
  BY NothingWhole
<1>5. \A i \in 1..Len(delivered) : FALSE
  BY EmptySeq
<1>6. Intact
  BY <1>3, <1>4, <1>5 DEF Intact
<1>7. Order
  <2>1. Expected = 0 + 1
    BY DEF Expected
  <2> QED BY <1>3, <1>4, <1>5, <2>1 DEF Order
<1> QED BY <1>1, <1>2, <1>6, <1>7 DEF IInv

\* The numbers of messages.
LEMMA Numbers ==
    ASSUME IInv
    PROVE  /\ sent \in Nat /\ base \in Nat /\ Expected \in Nat /\ base < Expected
           /\ \A i \in 1..Len(delivered) : delivered[i] \in 1..MaxMsgs /\ delivered[i] \in Nat
           /\ delivered # <<>> => Last(delivered) \in Nat /\ Len(delivered) \in 1..Len(delivered)
<1>1. sent \in Nat /\ base \in Nat /\ MaxMsgs \in Nat
  BY ReadAssumption DEF IInv, TypeOK, ReadAssumption
<1>2. delivered \in Seq(1..MaxMsgs)
  BY DEF IInv, TypeOK
<1>3. \A i \in 1..Len(delivered) : delivered[i] \in 1..MaxMsgs
  BY <1>2, ElementOfSeq
<1>4. \A i \in 1..Len(delivered) : delivered[i] \in Nat
  BY <1>1, <1>3
<1>5. delivered # <<>> => Len(delivered) \in 1..Len(delivered)
  BY <1>2, EmptySeq, LenProperties
<1>6. delivered # <<>> => Last(delivered) \in Nat
  BY <1>4, <1>5 DEF Last
<1> QED BY <1>1, <1>3, <1>4, <1>5, <1>6 DEF Expected

LEMMA Assoc ==
    \A s, t, u \in Seq(Byte) : (s \o t) \o u = s \o (t \o u)
BY ConcatAssociative

LEMMA PeerSendInv == ASSUME IInv, NEW len \in Lens, PeerSend(len) PROVE IInv'
<1>1. sent \in Nat /\ sent + 1 \in 1..MaxMsgs /\ sent' = sent + 1 /\ net' = net \o Message(sent + 1, len)
  BY ReadAssumption DEF IInv, TypeOK, PeerSend, ReadAssumption
<1>2. UNCHANGED <<link, conn, started, closing, base, read_buf, buf2_read, main,
                  loop, history, overflowed>>
  BY DEF PeerSend
<1> USE DEF loop, history
<1>3. len \in Nat /\ Message(sent + 1, len) \in Seq(Byte)
  <2>1. len \in 1..MaxLen /\ len \in Nat
    BY LensFact
  <2> QED BY <1>1, <2>1, MessageType
<1>4. TypeOK'
  <2>1. net' \in Seq(Byte)
    BY <1>1, <1>3, ConcatFacts DEF IInv, TypeOK
  <2>2. sent' \in 0..MaxMsgs /\ base \in 0..sent'
    BY <1>1, ReadAssumption DEF IInv, TypeOK, ReadAssumption
  <2> QED BY <1>2, <2>1, <2>2 DEF IInv, TypeOK
<1>5. Control' /\ RepeatedOnlyWhileClosing'
  BY <1>2 DEF IInv, Control, RepeatedOnlyWhileClosing
<1>6. /\ Received' = Received \o Message(sent + 1, len)
      /\ Rest' = Rest \o Message(sent + 1, len)
  <2>1. InDispatch' = InDispatch
    BY <1>2 DEF InDispatch
  <2>2. read_buf \in Seq(Byte) /\ net \in Seq(Byte) /\ Drop(read_buf, InDispatch) \in Seq(Byte)
    BY Buffers
  <2>3. /\ (read_buf \o net) \o Message(sent + 1, len) = read_buf \o (net \o Message(sent + 1, len))
        /\ (Drop(read_buf, InDispatch) \o net) \o Message(sent + 1, len)
             = Drop(read_buf, InDispatch) \o (net \o Message(sent + 1, len))
    <3>1. Message(sent + 1, len) \in Seq(Byte)
      BY <1>3
    <3>2. \A s \in Seq(Byte) : (s \o net) \o Message(sent + 1, len) = s \o (net \o Message(sent + 1, len))
      BY <2>2, <3>1, Assoc, Zenon
    <3> QED BY <2>2, <3>2, Zenon
  <2>4. Received' = read_buf \o (net \o Message(sent + 1, len))
    BY <1>1, <1>2 DEF Received
  <2>5. Rest' = Drop(read_buf, InDispatch) \o (net \o Message(sent + 1, len))
    BY <1>1, <1>2, <2>1 DEF Rest, Drop
  <2> QED BY <2>3, <2>4, <2>5, Zenon DEF Received, Rest
<1>7. Intact'
  <2> SUFFICES ASSUME ~overflowed
               PROVE  /\ buf2_read = <<>> /\ ~torn
                      /\ Whole(Received', Len(Received'), sent')
                      /\ Whole(Rest', Len(Rest'), sent')
                      /\ \A i \in 1..Len(delivered) : delivered[i] <= sent'
    BY <1>2 DEF Intact
  <2>1. /\ buf2_read = <<>> /\ ~torn
        /\ Whole(Received, Len(Received), sent) /\ Whole(Rest, Len(Rest), sent)
        /\ \A i \in 1..Len(delivered) : delivered[i] <= sent
    BY DEF IInv, Intact
  <2>2. \A s \in Seq(Byte) : Whole(s, Len(s), sent) =>
          Whole(s \o Message(sent + 1, len), Len(s \o Message(sent + 1, len)), sent + 1)
    <3> SUFFICES ASSUME NEW s \in Seq(Byte), Whole(s, Len(s), sent)
                 PROVE  Whole(s \o Message(sent + 1, len), Len(s \o Message(sent + 1, len)), sent + 1)
      BY Zenon
    <3>1. PICK a \in Nat : Starts(s, Len(s), a, sent)
      BY <1>1, LenProperties DEF Starts, Whole, Placed
    <3> QED BY <1>1, <1>3, <3>1, WholeSend
  <2>3. Received \in Seq(Byte) /\ Rest \in Seq(Byte)
    BY Buffers
  <2>4. \A i \in 1..Len(delivered) : delivered[i] <= sent'
    BY <1>1, <2>1, Numbers
  <2> QED BY <1>1, <1>6, <2>1, <2>2, <2>3, <2>4
<1>8. Order'
  <2> SUFFICES ASSUME Good
               PROVE  /\ Starts(Rest', Len(Rest'), Expected, sent + 1)
                      /\ \A i \in 1..Len(delivered) : delivered[i] < Expected
    BY <1>1, <1>2 DEF Order, Good, Expected
  <2>1. /\ Starts(Rest, Len(Rest), Expected, sent) /\ Whole(Rest, Len(Rest), sent)
        /\ \A i \in 1..Len(delivered) : delivered[i] < Expected
    BY DEF IInv, Order, Intact, Good
  <2>2. Expected \in Nat
    BY Numbers
  <2> QED BY <1>1, <1>3, <1>6, <2>1, <2>2, Buffers, WholeSend
<1> QED BY <1>4, <1>5, <1>7, <1>8 DEF IInv

LEMMA HandleReadInv == ASSUME IInv, HandleRead PROVE IInv'
<1> DEFINE lo == IF started THEN 1 ELSE HeaderSize
<1>1. PICK n \in lo..Least(RecvCap, Len(net)) :
        LET data == SubSeq(net, 1, n)
            k    == Least(ReadRoom, n)
        IN  /\ link = "open"
            /\ net' = Drop(net, n)
            /\ started' = TRUE
            /\ read_buf' = read_buf \o SubSeq(data, 1, k)
            /\ buf2_read' = IF k = n THEN buf2_read
                            ELSE Overflow(buf2_read, Drop(data, k))
            /\ overflowed' = (overflowed \/ k < n)
            /\ UNCHANGED <<link, conn, closing, sent, base, main, loop, history>>
  BY Zenon DEF HandleRead
<1>2. /\ UNCHANGED <<link, conn, closing, sent, base, main, read_size, cur, handled,
                     delivered, repeated, torn>>
      /\ started' = TRUE /\ InDispatch' = InDispatch
  BY <1>1 DEF loop, history, InDispatch
<1>3. /\ HeaderSize \in Nat /\ HeaderSize >= 1 /\ RecvCap \in Nat /\ RecvCap <= ReadCap
      /\ ReadCap \in Nat
  BY ReadAssumption DEF ReadAssumption
<1>4. n \in 1..Len(net) /\ n \in Nat /\ n <= RecvCap
  <2>1. lo \in Nat /\ lo >= 1
    BY <1>3
  <2>2. /\ Least(RecvCap, Len(net)) \in {RecvCap, Len(net)}
        /\ Least(RecvCap, Len(net)) <= RecvCap /\ Least(RecvCap, Len(net)) <= Len(net)
    BY <1>3, Buffers, LeastFact
  <2> HIDE DEF lo
  <2> QED BY <1>3, <2>1, <2>2, Buffers
<1>5. PICK data \in Seq(Byte) : data = SubSeq(net, 1, n) /\ Len(data) = n
  <2>1. SubSeq(net, 1, n) \in Seq(Byte) /\ Len(SubSeq(net, 1, n)) = n
    BY <1>4, Buffers, Parts
  <2> QED BY <2>1, Zenon
<1>6. PICK d \in Seq(Byte) : d = Drop(net, n) /\ data \o d = net
  <2>1. Drop(net, n) \in Seq(Byte)
    BY <1>4, Buffers, Parts
  <2>2. SubSeq(net, 1, n) \o Drop(net, n) = net
    <3>1. net \in Seq(Byte) /\ n \in 0..Len(net)
      BY <1>4, Buffers
    <3> QED BY <3>1, PartsConcat
  <2> QED BY <1>5, <2>1, <2>2, Zenon
<1>7. PICK k \in 0..n : k = Least(ReadRoom, n) /\ Len(read_buf) + k <= ReadCap
  <2>1. ReadRoom \in Nat /\ Len(read_buf) + ReadRoom = ReadCap
    BY <1>3, Buffers DEF ReadRoom
  <2>2. Least(ReadRoom, n) \in {ReadRoom, n} /\ Least(ReadRoom, n) <= ReadRoom /\ Least(ReadRoom, n) <= n
    BY <1>4, <2>1, LeastFact
  <2> QED BY <1>4, <2>1, <2>2, Buffers
<1>8. /\ net' = d /\ read_buf' = read_buf \o SubSeq(data, 1, k)
      /\ buf2_read' = IF k = n THEN buf2_read ELSE Overflow(buf2_read, Drop(data, k))
      /\ overflowed' = (overflowed \/ k < n) /\ link = "open"
  BY <1>1, <1>5, <1>6, <1>7
<1>9. /\ SubSeq(data, 1, k) \in Seq(Byte) /\ Len(SubSeq(data, 1, k)) = k
      /\ Drop(data, k) \in Seq(Byte) /\ Len(Drop(data, k)) = n - k
  <2>1. k \in 0..Len(data)
    BY <1>5, <1>7
  <2>2. /\ SubSeq(data, 1, k) \in Seq(Byte) /\ Len(SubSeq(data, 1, k)) = k
        /\ Drop(data, k) \in Seq(Byte) /\ Len(Drop(data, k)) = Len(data) - k
    BY <2>1, Parts
  <2> QED BY <1>5, <2>2
<1>10. /\ read_buf' \in Seq(Byte) /\ Len(read_buf') = Len(read_buf) + k
  BY <1>8, <1>9, Buffers, ConcatFacts
<1>11. TypeOK'
  <2>1. read_buf' \in Block
    BY <1>7, <1>10, BlockFact
  <2>2. Drop(data, k) \in Block
    <3>1. n - k <= ReadCap
      BY <1>3, <1>4, <1>7
    <3> QED BY <1>9, <3>1, BlockFact
  <2>3. buf2_read' \in Seq(Block)
    <3>1. buf2_read \in Seq(Block)
      BY DEF IInv, TypeOK
    <3>2. Overflow(buf2_read, Drop(data, k)) \in Seq(Block)
      BY <2>2, <3>1, OverflowType
    <3> QED BY <1>8, <3>1, <3>2
  <2>4. overflowed' \in BOOLEAN
    BY <1>8
  <2>5. net' \in Seq(Byte)
    BY <1>8
  <2> QED BY <1>2, <2>1, <2>3, <2>4, <2>5 DEF IInv, TypeOK
<1>12. Control'
  <2>1. Len(read_buf) <= Len(read_buf')
    BY <1>7, <1>10, Buffers
  <2>2. read_size \in Nat
    BY <1>3 DEF IInv, TypeOK
  <2> QED BY <1>2, <2>1, <2>2, Buffers, <1>10, LenProperties DEF IInv, Control
<1>13. CASE overflowed \/ k < n
  <2>1. overflowed'
    BY <1>8, <1>13
  <2> QED BY <1>11, <1>12, <2>1 DEF IInv, Intact, Order, Good, RepeatedOnlyWhileClosing
<1>14. CASE ~overflowed /\ ~(k < n)
  <2>1. k = n /\ ~overflowed' /\ buf2_read' = buf2_read /\ overflowed' = overflowed
    <3>1. k = n
      BY <1>4, <1>7, <1>14
    <3>2. overflowed \in BOOLEAN
      BY DEF IInv, TypeOK
    <3> QED BY <1>8, <1>14, <3>1, <3>2
  <2>2. SubSeq(data, 1, k) = data
    BY <1>5, <2>1, SubSeqFull
  <2>3. read_buf' = read_buf \o data
    BY <1>8, <2>2
  <2>4. Received' = Received
    <3>1. (read_buf \o data) \o d = read_buf \o (data \o d)
      <4>1. read_buf \in Seq(Byte)
        BY Buffers
      <4> QED BY <4>1, Assoc, Zenon
    <3> QED BY <1>6, <1>8, <2>3, <3>1 DEF Received
  <2>5. Rest' = Rest
    <3>1. PICK r \in Seq(Byte) : r = Drop(read_buf, InDispatch)
      BY Buffers
    <3>2. Drop(read_buf \o data, InDispatch) = r \o data
      BY <3>1, Buffers, DropConcat
    <3>3. (r \o data) \o d = r \o (data \o d)
      BY Assoc
    <3>4. Rest' = Drop(read_buf', InDispatch) \o d
      BY <1>2, <1>8 DEF Rest, Drop
    <3>5. Rest' = (r \o data) \o d
      BY <2>3, <3>2, <3>4
    <3> QED BY <1>6, <3>1, <3>3, <3>5 DEF Rest
  <2>6. Intact'
    BY <1>2, <2>1, <2>4, <2>5 DEF IInv, Intact
  <2>7. Order'
    <3>1. Expected' = Expected /\ Good' = Good
      BY <1>2, <2>1 DEF Expected, Good
    <3> QED BY <1>2, <2>5, <3>1 DEF IInv, Order
  <2>8. RepeatedOnlyWhileClosing'
    BY <1>2, <2>1 DEF IInv, RepeatedOnlyWhileClosing
  <2> QED BY <1>11, <1>12, <2>6, <2>7, <2>8 DEF IInv
<1> QED BY <1>13, <1>14

\* A step that moves no byte and hands nothing over keeps the order, unless it
\* makes the session good again.
LEMMA Frame ==
    ASSUME IInv, UNCHANGED <<stream, delivered, torn, cur, InDispatch>>, Good' => Good
    PROVE  Intact' /\ Order'
<1>1. UNCHANGED <<net, sent, base, read_buf, buf2_read, overflowed, delivered, torn>> /\ InDispatch' = InDispatch
  BY DEF stream
<1>2. Rest' = Rest /\ Received' = Received /\ Expected' = Expected
  BY <1>1 DEF Rest, Received, Expected, Drop
<1> QED BY <1>1, <1>2 DEF IInv, Intact, Order

LEMMA QuietInv == ASSUME IInv, DoClose \/ Close \/ Tick PROVE IInv'
<1> USE DEF DoClose, Close, Tick
<1>1. UNCHANGED <<conn, started, stream, history, loop>>
  OBVIOUS
<1>2. TypeOK'
  BY <1>1 DEF IInv, TypeOK, stream, history, loop
<1>3. Control' /\ InDispatch' = InDispatch
  BY <1>1 DEF IInv, Control, InDispatch, stream, loop
<1>4. Good' => Good
  BY <1>1 DEF Good, stream
<1>5. Intact' /\ Order'
  BY <1>1, <1>3, <1>4, Frame DEF history, loop
<1>6. RepeatedOnlyWhileClosing'
  BY <1>1 DEF IInv, RepeatedOnlyWhileClosing, stream, history
<1> QED BY <1>2, <1>3, <1>5, <1>6 DEF IInv

LEMMA DispatchBeginInv == ASSUME IInv, DispatchBegin PROVE IInv'
<1>1. PICK n : /\ n = (IF buf2_read = <<>> THEN 0 ELSE Least(ReadRoom, Len(Head(buf2_read))))
               /\ main = "ticked" /\ main' = "dispatching"
               /\ IF n = 0 THEN UNCHANGED <<read_buf, buf2_read>>
                  ELSE /\ read_buf' = read_buf \o SubSeq(Head(buf2_read), 1, n)
                       /\ buf2_read' = IF n = Len(Head(buf2_read)) THEN Tail(buf2_read)
                                       ELSE <<Drop(Head(buf2_read), n)>> \o Tail(buf2_read)
               /\ read_size' = Len(read_buf') /\ cur' = 0 /\ handled' = 0
               /\ UNCHANGED <<link, conn, started, closing, net, sent, base, overflowed, history>>
  BY Zenon DEF DispatchBegin
<1>2. /\ UNCHANGED <<link, conn, started, closing, net, sent, base, overflowed,
                     delivered, repeated, torn>>
      /\ InDispatch' = 0 /\ InDispatch = 0 /\ main' = "dispatching"
      /\ read_size' = Len(read_buf') /\ cur' = 0 /\ handled' = 0
  BY <1>1 DEF history, InDispatch
<1>3. ReadCap \in Nat /\ Limit \in Nat /\ buf2_read \in Seq(Block)
  BY ReadAssumption DEF ReadAssumption, IInv, TypeOK
<1>4. read_buf' \in Block /\ buf2_read' \in Seq(Block)
  <2>1. CASE n = 0
    BY <1>1, <2>1 DEF IInv, TypeOK
  <2>2. CASE n # 0
    <3>1. buf2_read # <<>>
      BY <1>1, <2>2
    <3>2. Head(buf2_read) \in Block /\ Tail(buf2_read) \in Seq(Block)
      BY <1>3, <3>1, HeadTailProperties
    <3>3. PICK h \in Seq(Byte) : h = Head(buf2_read) /\ Len(h) \in Nat /\ Len(h) <= ReadCap
      BY <3>2, BlockFact, LenProperties
    <3>4. n \in 0..Len(h) /\ Len(read_buf) + n <= ReadCap
      <4>1. ReadRoom \in Nat /\ Len(read_buf) + ReadRoom = ReadCap
        BY <1>3, Buffers DEF ReadRoom
      <4>2. n = Least(ReadRoom, Len(h))
        BY <1>1, <3>1, <3>3
      <4>3. n \in {ReadRoom, Len(h)} /\ n <= ReadRoom /\ n <= Len(h)
        BY <3>3, <4>1, <4>2, LeastFact
      <4> QED BY <3>3, <4>1, <4>3, Buffers
    <3>5. /\ SubSeq(h, 1, n) \in Seq(Byte) /\ Len(SubSeq(h, 1, n)) = n
          /\ Drop(h, n) \in Seq(Byte) /\ Len(Drop(h, n)) = Len(h) - n
      BY <3>4, Parts
    <3>6. read_buf' = read_buf \o SubSeq(h, 1, n)
      BY <1>1, <2>2, <3>3
    <3>7. read_buf' \in Seq(Byte) /\ Len(read_buf') = Len(read_buf) + n
      BY <3>5, <3>6, Buffers, ConcatFacts
    <3>8. read_buf' \in Block
      BY <3>4, <3>7, BlockFact
    <3>9. Drop(h, n) \in Block
      <4>1. Len(h) - n <= ReadCap
        BY <1>3, <3>3, <3>4
      <4> QED BY <3>5, <4>1, BlockFact
    <3>10. <<Drop(h, n)>> \in Seq(Block)
      BY <3>9
    <3>11. <<Drop(h, n)>> \o Tail(buf2_read) \in Seq(Block)
      BY <3>2, <3>10, ConcatProperties
    <3>12. buf2_read' = IF n = Len(h) THEN Tail(buf2_read) ELSE <<Drop(h, n)>> \o Tail(buf2_read)
      BY <1>1, <2>2, <3>3
    <3> QED BY <3>2, <3>8, <3>11, <3>12
  <2> QED BY <2>1, <2>2
<1>5. Len(read_buf') \in 0..ReadCap
  BY <1>3, <1>4, BlockFact, LenProperties
<1>6. TypeOK'
  <2>1. read_size' \in 0..ReadCap /\ cur' \in 0..ReadCap /\ handled' \in 0..Limit
    BY <1>2, <1>3, <1>5
  <2> QED BY <1>2, <1>4, <2>1 DEF IInv, TypeOK
<1>7. Control'
  BY <1>2, <1>3, <1>5 DEF Control
<1>8. RepeatedOnlyWhileClosing'
  BY <1>2 DEF IInv, RepeatedOnlyWhileClosing
<1>9. CASE overflowed
  BY <1>2, <1>6, <1>7, <1>8, <1>9 DEF IInv, Intact, Order, Good
<1>10. CASE ~overflowed
  <2>1. buf2_read = <<>> /\ n = 0 /\ UNCHANGED <<read_buf, buf2_read>>
    BY <1>1, <1>10 DEF IInv, Intact
  <2>2. Rest' = Rest /\ Received' = Received /\ Expected' = Expected /\ Good' = Good
    BY <1>2, <2>1 DEF Rest, Received, Expected, Good, Drop
  <2>3. Intact' /\ Order'
    BY <1>2, <2>1, <2>2 DEF IInv, Intact, Order
  <2> QED BY <1>6, <1>7, <1>8, <2>3 DEF IInv
<1> QED BY <1>9, <1>10

LEMMA DispatchEndInv == ASSUME IInv, DispatchEnd PROVE IInv'
<1>1. /\ main = "dispatching" /\ main' = "idle" /\ read_buf' = Drop(read_buf, cur)
      /\ UNCHANGED <<link, conn, started, closing, net, sent, base, buf2_read, overflowed,
                     read_size, cur, handled, delivered, repeated, torn>>
  BY DEF DispatchEnd, loop, history
<1>2. InDispatch = cur /\ InDispatch' = 0
  BY <1>1 DEF InDispatch
<1>3. PICK d \in Seq(Byte) : d = Drop(read_buf, cur) /\ Len(d) <= ReadCap
  <2>1. read_buf \in Seq(Byte) /\ cur \in 0..Len(read_buf)
    BY <1>2, Buffers
  <2>2. Drop(read_buf, cur) \in Seq(Byte) /\ Len(Drop(read_buf, cur)) = Len(read_buf) - cur
    BY <2>1, Parts
  <2>3. Len(read_buf) - cur <= ReadCap
    <3>1. Len(read_buf) \in Nat /\ Len(read_buf) <= ReadCap /\ ReadCap \in Nat
      BY Buffers, ReadAssumption DEF ReadAssumption
    <3> QED BY <2>1, <3>1
  <2> QED BY <2>2, <2>3
<1>4. TypeOK'
  <2>1. read_buf' \in Block
    BY <1>1, <1>3, BlockFact
  <2> QED BY <1>1, <2>1 DEF IInv, TypeOK
<1>5. Received' = Rest /\ Rest' = Rest
  <2>1. Rest = d \o net /\ Received' = d \o net
    BY <1>1, <1>2, <1>3 DEF Rest, Received
  <2>2. Rest' = Drop(d, 0) \o net
    BY <1>1, <1>2, <1>3 DEF Rest, Drop
  <2>3. Drop(d, 0) = d
    BY DropNothing
  <2> QED BY <2>1, <2>2, <2>3
<1>6. Expected' = Expected /\ Good' = Good
  BY <1>1 DEF Expected, Good
<1>7. Intact' /\ Order'
  BY <1>1, <1>5, <1>6 DEF IInv, Intact, Order
<1>8. Control' /\ RepeatedOnlyWhileClosing'
  BY <1>1 DEF IInv, Control, RepeatedOnlyWhileClosing
<1> QED BY <1>4, <1>7, <1>8 DEF IInv

LEMMA ReconnectInv == ASSUME IInv, Reconnect PROVE IInv'
<1>1. /\ main = "idle" /\ link = "closed" /\ conn < MaxConns
      /\ link' = "open" /\ conn' = conn + 1 /\ started' = FALSE
      /\ net' = <<>> /\ base' = sent /\ read_buf' = <<>>
      /\ UNCHANGED <<closing, sent, buf2_read, main, overflowed, read_size, cur, handled,
                     delivered, repeated, torn>>
  BY DEF Reconnect, loop, history
<1>2. conn \in Nat /\ conn >= 1 /\ MaxConns \in Nat /\ ReadCap \in Nat /\ sent \in Nat
  BY Numbers, ReadAssumption DEF IInv, TypeOK, ReadAssumption
<1>3. <<>> \in Seq(Byte) /\ Len(<<>>) = 0
  BY EmptySeq
<1>4. TypeOK'
  <2>1. <<>> \in Block
    BY <1>2, <1>3 DEF Block
  <2>2. conn' \in 1..MaxConns /\ base' \in 0..sent'
    BY <1>1, <1>2
  <2> QED BY <1>1, <1>3, <2>1, <2>2 DEF IInv, TypeOK
<1>5. Rest' = <<>> /\ Received' = <<>>
  <2>1. <<>> \o <<>> = <<>> /\ Drop(<<>>, 0) = <<>>
    BY <1>3, ConcatEmptySeq, DropNothing
  <2>2. InDispatch' = 0
    BY <1>1 DEF InDispatch
  <2> QED BY <1>1, <2>1, <2>2 DEF Rest, Received, Drop
<1>6. Whole(<<>>, Len(<<>>), sent) /\ Starts(<<>>, Len(<<>>), sent + 1, sent)
  BY <1>2, NothingWhole
<1>7. Intact'
  BY <1>1, <1>5, <1>6 DEF IInv, Intact
<1>8. Order'
  <2> SUFFICES ASSUME ~overflowed
               PROVE  /\ Expected' = sent + 1
                      /\ \A i \in 1..Len(delivered) : delivered[i] < sent + 1
    BY <1>1, <1>5, <1>6 DEF Order, Good
  <2>1. \A i \in 1..Len(delivered) : delivered[i] \in Nat /\ delivered[i] <= sent
    BY Numbers DEF IInv, Intact
  <2>2. delivered # <<>> => Last(delivered) \in Nat /\ Last(delivered) <= sent
    BY <2>1, Numbers DEF Last
  <2> QED BY <1>1, <1>2, <2>1, <2>2 DEF Expected
<1>9. Control' /\ RepeatedOnlyWhileClosing'
  BY <1>1, <1>2 DEF Control, RepeatedOnlyWhileClosing
<1> QED BY <1>4, <1>7, <1>8, <1>9 DEF IInv

\* What dispatch reads as the length of the next message.
LEMMA HeaderLenType ==
    ASSUME IInv, MayLoop
    PROVE  /\ cur \in Nat /\ cur + HeaderSize <= Len(read_buf) /\ InDispatch = cur
           /\ HeaderSize \in Nat /\ HeaderSize >= 1
           /\ HeaderLen \subseteq 0..(MaxLen + 1)
<1>1. HeaderSize \in Nat /\ HeaderSize >= 1 /\ MaxLen \in Nat /\ ReadCap \in Nat
  BY ReadAssumption DEF ReadAssumption
<1>2. cur \in Nat /\ read_size \in Nat /\ main = "dispatching" /\ cur + HeaderSize <= read_size
  BY <1>1 DEF MayLoop, IInv, TypeOK
<1>3. cur + HeaderSize <= Len(read_buf) /\ InDispatch = cur
  BY <1>1, <1>2, Buffers DEF IInv, Control, InDispatch
<1>4. SubSeq(read_buf, cur + 1, cur + HeaderSize)[1] = read_buf[cur + 1]
  <2>1. read_buf \in Seq(Byte) /\ 1 \in 1..HeaderSize
    BY <1>1, Buffers
  <2>2. \A i \in 1..HeaderSize :
          SubSeq(read_buf, cur + 1, cur + HeaderSize)[i] = read_buf[cur + i]
    BY <1>1, <1>2, <1>3, <2>1, Window
  <2> QED BY <2>1, <2>2
<1>5. read_buf[cur + 1] \in Byte
  <2>1. cur + 1 \in 1..Len(read_buf) /\ read_buf \in Seq(Byte)
    BY <1>1, <1>2, <1>3, Buffers
  <2> QED BY <2>1, ElementOfSeq
<1>6. read_buf[cur + 1][3] \in 0..(MaxLen + 1)
  <2>1. read_buf[cur + 1][3] \in 1..MaxLen
    BY <1>5, ByteParts
  <2> QED BY <1>1, <2>1
<1>7. HeaderLen \subseteq 0..(MaxLen + 1)
  BY <1>4, <1>6 DEF HeaderLen
<1> QED BY <1>1, <1>2, <1>3, <1>7

\* Without overflow blocks it is the length of the next message, and the message's
\* bytes are in front.
LEMMA NextMessage ==
    ASSUME IInv, MayLoop, ~overflowed
    PROVE  \E a \in Nat, len \in Nat :
             /\ Starts(Rest, Len(Rest), a, sent) /\ a <= sent
             /\ len \in Lens /\ len \in 1..Len(Rest) /\ len = Size(Rest[1])
             /\ \A j \in 1..len : Rest[j] = <<a, j, len>>
             /\ HeaderLen = {len}
<1>1. /\ cur \in Nat /\ cur + HeaderSize <= Len(read_buf) /\ InDispatch = cur
      /\ HeaderSize \in Nat /\ HeaderSize >= 1
  BY HeaderLenType
<1>2. PICK n \in Nat : n = Len(Rest)
  BY Buffers, LenProperties
<1>3. n >= HeaderSize /\ n # 0
  BY <1>1, <1>2, Buffers
<1>4. Whole(Rest, n, sent) /\ sent \in Nat
  BY <1>2, Numbers DEF IInv, Intact
<1>5. PICK a \in Nat, len \in Nat :
        /\ Starts(Rest, n, a, sent) /\ a <= sent
        /\ len \in Lens /\ len \in 1..n /\ len = Size(Rest[1])
        /\ \A j \in 1..len : Msg(Rest[j]) = a /\ Pos(Rest[j]) = j /\ Size(Rest[j]) = len
  <2>1. n # 0
    BY <1>3
  <2>2. Whole(Rest, n, sent)
    BY <1>4
  <2>3. sent \in Nat
    BY <1>4
  <2> QED BY <2>1, <2>2, <2>3, WholeFirst, Zenon
<1>6. ASSUME NEW j \in 1..len PROVE Rest[j] = <<a, j, len>>
  <2>1. Rest[j] \in Byte
    <3>1. j \in 1..n
      BY <1>5
    <3> QED BY <1>2, <3>1, Buffers, ElementOfSeq
  <2>2. Rest[j] = <<Msg(Rest[j]), Pos(Rest[j]), Size(Rest[j])>>
    BY <2>1, ByteParts DEF Msg, Pos, Size
  <2> QED BY <1>5, <2>2
<1>7. HeaderSize <= len
  BY <1>5, LensFact
<1>8. ASSUME NEW j \in 1..HeaderSize
      PROVE  SubSeq(read_buf, cur + 1, cur + HeaderSize)[j] = <<a, j, len>>
  <2>1. SubSeq(read_buf, cur + 1, cur + HeaderSize)[j] = read_buf[cur + j]
    BY <1>1, Buffers, Window
  <2>2. j \in 1..(Len(read_buf) - cur) /\ j \in 1..len
    BY <1>1, <1>7, Buffers
  <2>3. Rest[j] = read_buf[cur + j]
    BY <1>1, <2>2, Buffers
  <2> QED BY <1>6, <2>1, <2>2, <2>3
<1>9. HeaderLen = {len}
  <2>1. 1 \in 1..HeaderSize
    BY <1>1
  <2>2. SubSeq(read_buf, cur + 1, cur + HeaderSize)[1] = <<a, 1, len>>
    BY <1>8, <2>1
  <2>3. PICK f : f = SubSeq(read_buf, cur + 1, cur + HeaderSize)
    OBVIOUS
  <2>4. f[1][1] = a /\ f[1][3] = len
    <3>1. f[1] = <<a, 1, len>>
      BY <2>2, <2>3, Zenon
    <3> QED BY <3>1
  <2>5. \A j \in 1..HeaderSize : f[j] = <<f[1][1], j, f[1][3]>>
    BY <1>8, <2>3, <2>4
  <2>6. HeaderLen = {f[1][3]}
    BY <2>3, <2>5, Zenon DEF HeaderLen
  <2> QED BY <2>4, <2>6
<1> QED BY <1>2, <1>5, <1>6, <1>9, Zenon

LEMMA DispatchTooLongInv == ASSUME IInv, DispatchTooLong PROVE IInv'
<1>1. /\ MayLoop /\ torn' = TRUE /\ PostClose /\ main' = "idle"
      /\ UNCHANGED <<link, conn, started, net, sent, base, read_buf, buf2_read, overflowed,
                     read_size, cur, handled, delivered, repeated>>
      /\ \E len \in HeaderLen : len > MaxLen
  BY DEF DispatchTooLong, stream, loop
<1>2. overflowed
  <2>1. SUFFICES ASSUME ~overflowed PROVE FALSE
    OBVIOUS
  <2>2. PICK a \in Nat, len \in Nat :
          /\ Starts(Rest, Len(Rest), a, sent) /\ a <= sent
          /\ len \in Lens /\ len \in 1..Len(Rest) /\ len = Size(Rest[1])
          /\ \A j \in 1..len : Rest[j] = <<a, j, len>>
          /\ HeaderLen = {len}
    BY <1>1, <2>1, NextMessage
  <2>3. len <= MaxLen /\ MaxLen \in Nat
    BY <2>2, LensFact, ReadAssumption DEF ReadAssumption
  <2>4. len > MaxLen
    BY <1>1, <2>2
  <2> QED BY <2>2, <2>3, <2>4
<1>3. TypeOK'
  <2>1. closing' \in BOOLEAN
    BY <1>1 DEF PostClose
  <2> QED BY <1>1, <2>1 DEF IInv, TypeOK
<1>4. Control' /\ Intact' /\ Order' /\ RepeatedOnlyWhileClosing'
  BY <1>1, <1>2 DEF Control, Intact, Order, Good, RepeatedOnlyWhileClosing
<1> QED BY <1>3, <1>4 DEF IInv

\* One round of the loop, on bytes that are not moved.
LEMMA DispatchMsgInv == ASSUME IInv, DispatchMsg PROVE IInv'
<1>1. MayLoop /\ UNCHANGED <<link, conn, started, net, sent, base, read_buf, buf2_read,
                             overflowed, read_size>>
  BY DEF DispatchMsg, stream
<1>2. /\ cur \in Nat /\ cur + HeaderSize <= Len(read_buf) /\ InDispatch = cur
      /\ main = "dispatching" /\ read_size \in 0..ReadCap /\ read_size <= Len(read_buf)
      /\ handled \in Nat /\ handled < Limit /\ ReadCap \in Nat /\ Limit \in Nat /\ MaxLen \in Nat
  BY <1>1, HeaderLenType, ReadAssumption DEF MayLoop, IInv, TypeOK, Control, ReadAssumption
<1>3. PICK len \in HeaderLen :
        LET body  == SubSeq(read_buf, cur + 1, cur + len)
            whole == len > 0 /\ body = Message(body[1][1], len)
            id    == body[1][1]
        IN  /\ len <= MaxLen /\ Fits(len)
            /\ IF whole /\ id \in Refused
               THEN /\ PostClose /\ main' = "idle"
                    /\ UNCHANGED <<cur, handled, history>>
               ELSE /\ cur' = cur + len /\ handled' = handled + 1
                    /\ torn' = (torn \/ ~whole)
                    /\ IF ~whole THEN UNCHANGED <<delivered, repeated>>
                       ELSE /\ repeated' = (repeated \/ id \in ToSet(delivered))
                            /\ delivered' = IF id \in ToSet(delivered) THEN delivered
                                            ELSE Append(delivered, id)
                    /\ UNCHANGED <<closing, main>>
  BY <1>1, Zenon DEF DispatchMsg
<1>4. len \in Nat /\ len <= MaxLen /\ cur + len <= read_size /\ cur + len <= Len(read_buf)
  <2>1. len \in 0..(MaxLen + 1)
    BY <1>1, HeaderLenType
  <2> QED BY <1>2, <1>3, <2>1, Buffers DEF Fits
<1>5. PICK body, whole, id :
        /\ body = SubSeq(read_buf, cur + 1, cur + len)
        /\ whole = (len > 0 /\ body = Message(body[1][1], len)) /\ id = body[1][1]
  OBVIOUS
<1>6. CASE whole /\ id \in Refused
  <2>1. PostClose /\ main' = "idle" /\ UNCHANGED <<cur, handled, delivered, repeated, torn>>
    BY <1>3, <1>5, <1>6 DEF history
  <2>2. TypeOK'
    <3>1. closing' \in BOOLEAN
      BY <2>1 DEF PostClose
    <3> QED BY <1>1, <2>1, <3>1 DEF IInv, TypeOK
  <2>3. ~Good' /\ Control' /\ (closing \/ link = "closed" => closing' \/ link' = "closed")
    BY <1>1, <2>1 DEF Good, PostClose, Control
  <2>4. RepeatedOnlyWhileClosing'
    BY <1>1, <2>1, <2>3 DEF IInv, RepeatedOnlyWhileClosing
  <2>5. Intact'
    <3> SUFFICES ASSUME ~overflowed PROVE Whole(Rest', Len(Rest'), sent)
      BY <1>1, <2>1 DEF IInv, Intact, Received
    <3>1. InDispatch' = 0
      BY <2>1 DEF InDispatch
    <3>2. Rest' = Drop(read_buf, 0) \o net
      BY <1>1, <3>1 DEF Rest, Drop
    <3>3. Drop(read_buf, 0) = read_buf
      BY Buffers, DropNothing
    <3> QED BY <3>2, <3>3 DEF IInv, Intact, Received
  <2> QED BY <2>2, <2>3, <2>4, <2>5 DEF IInv, Order
<1>7. CASE ~(whole /\ id \in Refused)
  <2>1. /\ cur' = cur + len /\ handled' = handled + 1 /\ torn' = (torn \/ ~whole)
        /\ IF ~whole THEN UNCHANGED <<delivered, repeated>>
           ELSE /\ repeated' = (repeated \/ id \in ToSet(delivered))
                /\ delivered' = IF id \in ToSet(delivered) THEN delivered
                                ELSE Append(delivered, id)
        /\ UNCHANGED <<closing, main>>
    BY <1>3, <1>5, <1>7, Zenon
  <2>2. delivered \in Seq(1..MaxMsgs)
    BY DEF IInv, TypeOK
  <2>3. whole => id \in 1..MaxMsgs
    <3> SUFFICES ASSUME whole PROVE id \in 1..MaxMsgs
      OBVIOUS
    <3>0. len > 0
      BY <1>5, Zenon
    <3>1. len > 0 /\ 1 \in 1..len
      BY <1>4, <3>0
    <3>2. body[1] = read_buf[cur + 1]
      BY <1>2, <1>4, <1>5, <3>1, Buffers, Window
    <3>3. cur + 1 \in 1..Len(read_buf)
      BY <1>2, <1>4, <3>1, Buffers
    <3>4. read_buf[cur + 1] \in Byte
      BY <3>3, Buffers, ElementOfSeq
    <3> QED BY <1>5, <3>2, <3>4, ByteParts
  <2>4. TypeOK'
    <3>1. cur' \in 0..ReadCap /\ handled' \in 0..Limit
      BY <1>2, <1>4, <2>1
    <3>2. delivered' \in Seq(1..MaxMsgs)
      <4>1. CASE whole /\ ~(id \in ToSet(delivered))
        <5>1. delivered' = Append(delivered, id)
          BY <2>1, <4>1, Zenon
        <5>2. id \in 1..MaxMsgs
          BY <2>3, <4>1, Zenon
        <5> QED BY <2>2, <5>1, <5>2, AppendProperties
      <4>2. CASE ~(whole /\ ~(id \in ToSet(delivered)))
        <5>1. delivered' = delivered
          BY <2>1, <4>2, Zenon
        <5> QED BY <2>2, <5>1, Zenon
      <4> QED BY <4>1, <4>2, Zenon
    <3>3. repeated' \in BOOLEAN /\ torn' \in BOOLEAN
      BY <2>1 DEF IInv, TypeOK
    <3> QED BY <1>1, <2>1, <3>1, <3>2, <3>3 DEF IInv, TypeOK
  <2>5. Control'
    BY <1>1, <1>2, <1>4, <2>1 DEF Control
  <2>6. CASE overflowed
    BY <1>1, <2>4, <2>5, <2>6 DEF IInv, Intact, Order, Good, RepeatedOnlyWhileClosing
  <2>7. CASE ~overflowed
    <3>1. PICK a \in Nat, size \in Nat :
            /\ Starts(Rest, Len(Rest), a, sent) /\ a <= sent
            /\ size \in Lens /\ size \in 1..Len(Rest) /\ size = Size(Rest[1])
            /\ \A j \in 1..size : Rest[j] = <<a, j, size>>
            /\ HeaderLen = {size}
      BY <1>1, <2>7, NextMessage
    <3>2. len = size /\ len >= 1
      BY <3>1
    <3>3. body \in Seq(Byte) /\ Len(body) = len /\ \A i \in 1..len : body[i] = read_buf[cur + i]
      <4>1. read_buf \in Seq(Byte) /\ cur \in 0..Len(read_buf) /\ len \in 0..(Len(read_buf) - cur)
        BY <1>2, <1>4, Buffers
      <4>2. /\ SubSeq(read_buf, cur + 1, cur + len) \in Seq(Byte)
            /\ Len(SubSeq(read_buf, cur + 1, cur + len)) = len
            /\ \A i \in 1..len : SubSeq(read_buf, cur + 1, cur + len)[i] = read_buf[cur + i]
        BY <1>4, <4>1, Window
      <4> QED BY <1>5, <4>2, Zenon
    <3>4. \A i \in 1..len : body[i] = <<a, i, len>>
      <4>1. \A i \in 1..len : i \in 1..(Len(read_buf) - InDispatch)
        BY <1>2, <1>4, Buffers
      <4>2. \A i \in 1..len : Rest[i] = read_buf[cur + i]
        BY <1>2, <4>1, Buffers
      <4> QED BY <3>1, <3>2, <3>3, <4>2
    <3>5. a \in 1..MaxMsgs /\ id = a
      <4>1. body[1] = <<a, 1, len>>
        BY <3>2, <3>4
      <4>2. body[1] \in Byte
        BY <3>2, <3>3, ElementOfSeq
      <4> QED BY <1>5, <4>1, <4>2, ByteParts
    <3>6. whole
      <4>1. /\ Message(a, len) \in Seq(Byte) /\ Len(Message(a, len)) = len
            /\ \A j \in 1..len : Message(a, len)[j] = <<a, j, len>>
        BY <1>4, <3>2, <3>5, MessageType
      <4>2. body = Message(a, len)
        <5>1. \A i \in 1..Len(body) : body[i] = Message(a, len)[i]
          BY <3>3, <3>4, <4>1
        <5> QED BY <3>3, <4>1, <5>1, SameElements
      <4>3. body[1][1] = a
        BY <1>5, <3>5, Zenon
      <4>4. body = Message(body[1][1], len)
        BY <4>2, <4>3, Zenon
      <4>5. len > 0
        BY <1>4, <3>2
      <4> QED BY <1>5, <4>4, <4>5, Zenon
    <3>7. /\ torn' = torn
          /\ repeated' = (repeated \/ a \in ToSet(delivered))
          /\ delivered' = IF a \in ToSet(delivered) THEN delivered ELSE Append(delivered, a)
      <4>1. torn \in BOOLEAN
        BY DEF IInv, TypeOK
      <4> QED BY <2>1, <3>5, <3>6, <4>1
    <3>8. Rest' = Drop(Rest, len) /\ Received' = Received
      <4>1. InDispatch' = cur + len
        BY <1>2, <2>1 DEF InDispatch
      <4>2. PICK r \in Seq(Byte) : r = Drop(read_buf, cur) /\ Len(r) = Len(read_buf) - cur
        <5>1. read_buf \in Seq(Byte) /\ cur \in 0..Len(read_buf)
          BY <1>2, Buffers
        <5>2. Drop(read_buf, cur) \in Seq(Byte) /\ Len(Drop(read_buf, cur)) = Len(read_buf) - cur
          BY <5>1, Parts
        <5> QED BY <5>2, Zenon
      <4>3. Drop(r, len) = Drop(read_buf, cur + len)
        BY <1>2, <1>4, <4>2, Buffers, DropDrop
      <4>4. Drop(r \o net, len) = Drop(r, len) \o net
        <5>1. len \in 0..Len(r) /\ net \in Seq(Byte)
          BY <1>2, <1>4, <4>2, Buffers
        <5> QED BY <5>1, DropConcat
      <4>5. Rest' = Drop(read_buf, cur + len) \o net
        BY <1>1, <4>1 DEF Rest, Drop
      <4>6. Rest = r \o net
        BY <1>2, <4>2 DEF Rest
      <4> QED BY <1>1, <4>3, <4>4, <4>5, <4>6 DEF Received
    <3>9. Whole(Rest', Len(Rest'), sent) /\ Starts(Rest', Len(Rest'), a + 1, sent)
      <4>1. Whole(Rest, Len(Rest), sent) /\ sent \in Nat
        BY <2>7, Numbers DEF IInv, Intact
      <4>2. Rest \in Seq(Byte) /\ Len(Rest) \in Nat
        BY Buffers, LenProperties
      <4>3. Len(Rest) # 0 /\ len = Size(Rest[1]) /\ len <= Len(Rest)
        BY <3>1, <3>2, <4>2
      <4>4. Starts(Rest, Len(Rest), a, sent)
        BY <3>1
      <4> QED BY <1>4, <3>8, <4>1, <4>2, <4>3, <4>4, WholeTaken
    <3>10. \A i \in 1..Len(delivered) : delivered[i] \in Nat
      BY Numbers
    <3>11. /\ ~(a \in ToSet(delivered)) =>
                /\ Len(delivered') = Len(delivered) + 1 /\ delivered'[Len(delivered) + 1] = a
                /\ \A i \in 1..Len(delivered) : delivered'[i] = delivered[i]
                /\ delivered' # <<>> /\ Last(delivered') = a
      <4> SUFFICES ASSUME ~(a \in ToSet(delivered))
                   PROVE  /\ Len(delivered') = Len(delivered) + 1 /\ delivered'[Len(delivered) + 1] = a
                          /\ \A i \in 1..Len(delivered) : delivered'[i] = delivered[i]
                          /\ delivered' # <<>> /\ Last(delivered') = a
        OBVIOUS
      <4>1. delivered' = Append(delivered, a)
        BY <3>7
      <4>2. /\ delivered' \in Seq(1..MaxMsgs) /\ Len(delivered') = Len(delivered) + 1
            /\ delivered'[Len(delivered) + 1] = a
            /\ \A i \in 1..Len(delivered) : delivered'[i] = delivered[i]
        BY <2>2, <3>5, <4>1, AppendProperties
      <4>3. Len(delivered') # 0 /\ Last(delivered') = a
        BY <2>2, <4>2, LenProperties DEF Last
      <4>4. delivered' # <<>>
        BY <4>3, EmptySeq
      <4> QED BY <4>2, <4>3, <4>4
    <3>12. Len(delivered) \in Nat
      BY <2>2, LenProperties
    <3>13. Intact'
      <4>1. \A i \in 1..Len(delivered') : delivered'[i] <= sent
        <5>1. \A i \in 1..Len(delivered) : delivered[i] <= sent
          BY <2>7 DEF IInv, Intact
        <5>2. CASE a \in ToSet(delivered)
          BY <3>7, <5>1, <5>2
        <5>3. CASE ~(a \in ToSet(delivered))
          BY <3>1, <3>11, <3>12, <5>1, <5>3
        <5> QED BY <5>2, <5>3
      <4> QED BY <1>1, <2>7, <3>7, <3>8, <3>9, <4>1 DEF IInv, Intact
    <3>14. Good => /\ a = Expected /\ ~(a \in ToSet(delivered))
                   /\ \A i \in 1..Len(delivered) : delivered[i] < a
      <4> SUFFICES ASSUME Good
                   PROVE  /\ a = Expected /\ ~(a \in ToSet(delivered))
                          /\ \A i \in 1..Len(delivered) : delivered[i] < a
        OBVIOUS
      <4>1. /\ Starts(Rest, Len(Rest), Expected, sent)
            /\ \A i \in 1..Len(delivered) : delivered[i] < Expected
        BY DEF IInv, Order
      <4>2. a = Expected
        BY <3>1, <4>1 DEF Starts
      <4>3. \A i \in 1..Len(delivered) : delivered[i] < a
        BY <4>1, <4>2
      <4>4. \A i \in 1..Len(delivered) : delivered[i] # a
        BY <3>10, <4>3
      <4>5. ~(a \in ToSet(delivered))
        BY <2>2, <4>4, LenProperties DEF ToSet
      <4> QED BY <4>2, <4>3, <4>5
    <3>15. Good' <=> Good
      BY <1>1, <2>1 DEF Good
    <3>16. Order'
      <4> SUFFICES ASSUME Good
                   PROVE  /\ Expected' = a + 1
                          /\ \A i \in 1..Len(delivered') : delivered'[i] < a + 1
        BY <1>1, <3>9, <3>15 DEF Order
      <4>1. Expected' = a + 1
        <5>1. base < a /\ base \in Nat
          BY <3>14, Numbers
        <5> QED BY <1>1, <3>11, <3>14, <5>1 DEF Expected
      <4>2. \A i \in 1..Len(delivered') : delivered'[i] < a + 1
        BY <3>10, <3>11, <3>12, <3>14
      <4> QED BY <4>1, <4>2
    <3>17. RepeatedOnlyWhileClosing'
      <4>1. repeated \in BOOLEAN /\ link \in {"open", "closed"}
        BY DEF IInv, TypeOK
      <4>2. Good => repeated' = repeated
        BY <3>7, <3>14, <4>1
      <4> QED BY <1>1, <2>1, <4>1, <4>2 DEF IInv, RepeatedOnlyWhileClosing, Good
    <3> QED BY <2>4, <2>5, <3>13, <3>16, <3>17 DEF IInv
  <2> QED BY <2>6, <2>7
<1> QED BY <1>6, <1>7

LEMMA NextInv == IInv /\ [Next]_vars => IInv'
<1> SUFFICES ASSUME IInv, [Next]_vars PROVE IInv'
  OBVIOUS
<1>1. CASE \E len \in Lens : PeerSend(len)
  BY <1>1, PeerSendInv
<1>2. CASE Io
  BY <1>2, HandleReadInv, QuietInv DEF Io
<1>3. CASE Close \/ Tick
  BY <1>3, QuietInv
<1>4. CASE Dispatch
  BY <1>4, DispatchBeginInv, DispatchMsgInv, DispatchTooLongInv, DispatchEndInv DEF Dispatch
<1>5. CASE Reconnect
  BY <1>5, ReconnectInv
<1>6. CASE UNCHANGED vars
  <2>1. UNCHANGED <<link, conn, started, closing, stream, main, loop, history>>
    BY <1>6 DEF vars, stream, loop, history
  <2>2. InDispatch' = InDispatch /\ (Good' <=> Good)
    BY <2>1 DEF InDispatch, Good, loop, stream
  <2>3. Intact' /\ Order'
    BY <2>1, <2>2, Frame DEF loop, history
  <2>4. TypeOK' /\ Control' /\ RepeatedOnlyWhileClosing'
    BY <2>1 DEF IInv, TypeOK, Control, RepeatedOnlyWhileClosing, stream, loop, history
  <2> QED BY <2>3, <2>4 DEF IInv
<1> QED BY <1>1, <1>2, <1>3, <1>4, <1>5, <1>6 DEF Next

LEMMA Invariance == Spec => []IInv
  BY InitInv, NextInv, PTL DEF Spec

-----------------------------------------------------------------------------
(* Theorems *)

LEMMA IntactStream == IInv => StreamIntact
<1> SUFFICES ASSUME IInv, Good
             PROVE  \A i \in DOMAIN Rest :
                      /\ i = 1 => Rest[i][1] = Expected /\ Rest[i][2] = 1
                      /\ i > 1 => IF Rest[i - 1][2] = Rest[i - 1][3]
                                  THEN Rest[i][1] = Rest[i - 1][1] + 1 /\ Rest[i][2] = 1
                                  ELSE Rest[i] = [Rest[i - 1] EXCEPT ![2] = @ + 1]
  BY Zenon DEF StreamIntact, Good, Rest, Expected
<1>1. PICK n \in Nat : n = Len(Rest) /\ DOMAIN Rest = 1..n
  BY Buffers, LenProperties
<1>2. Whole(Rest, n, sent) /\ Starts(Rest, n, Expected, sent)
  BY <1>1 DEF IInv, Intact, Order, Good
<1>3. \A i \in 1..n : Rest[i] \in Byte
  BY <1>1, Buffers, ElementOfSeq
<1>4. ASSUME NEW i \in 1..n, i = 1 PROVE Rest[1][1] = Expected /\ Rest[1][2] = 1
  <2>1. Placed(Rest, n, 1)
    BY <1>2, <1>4 DEF Whole
  <2>2. Rest[1][2] = 1
    <3>1. Pos(Rest[1]) \in 1..Size(Rest[1]) /\ Pos(Rest[1]) <= 1 /\ Size(Rest[1]) \in Lens
      BY <2>1 DEF Placed
    <3>2. Pos(Rest[1]) = 1
      BY <3>1, LensFact
    <3> QED BY <3>2 DEF Pos
  <2>3. Rest[1][1] = Expected
    BY <1>2, <1>4 DEF Starts, Msg
  <2> QED BY <2>2, <2>3
<1>5. ASSUME NEW i \in 1..n, i > 1
      PROVE  IF Rest[i - 1][2] = Rest[i - 1][3]
             THEN Rest[i][1] = Rest[i - 1][1] + 1 /\ Rest[i][2] = 1
             ELSE Rest[i] = [Rest[i - 1] EXCEPT ![2] = @ + 1]
  <2>1. PICK k \in 1..n : k = i - 1 /\ k < n /\ k + 1 = i
    BY <1>5
  <2>2. Placed(Rest, n, k)
    BY <1>2 DEF Whole
  <2>3. PICK m \in Nat, p \in Nat, l \in Nat :
          /\ Msg(Rest[k]) = m /\ Pos(Rest[k]) = p /\ Size(Rest[k]) = l
          /\ l \in Lens /\ p \in 1..l /\ p <= k /\ k - p + l <= n
          /\ \A j \in 1..l : /\ Msg(Rest[k - p + j]) = m /\ Pos(Rest[k - p + j]) = j
                             /\ Size(Rest[k - p + j]) = l
          /\ p = l /\ k < n => Msg(Rest[k + 1]) = m + 1 /\ Pos(Rest[k + 1]) = 1
    BY <2>2, PlacedParts
  <2>4. Rest[k] = <<m, p, l>>
    BY <1>3, <2>3, ByteParts DEF Msg, Pos, Size
  <2>5. Rest[k][1] = m /\ Rest[k][2] = p /\ Rest[k][3] = l
    BY <2>4
  <2>6. CASE p = l
    <3>1. Msg(Rest[i]) = m + 1 /\ Pos(Rest[i]) = 1
      BY <2>1, <2>3, <2>6
    <3> QED BY <2>1, <2>5, <2>6, <3>1 DEF Msg, Pos
  <2>7. CASE p # l
    <3>1. p + 1 \in 1..l /\ k - p + (p + 1) = i
      BY <2>1, <2>3, <2>7
    <3>2. Msg(Rest[i]) = m /\ Pos(Rest[i]) = p + 1 /\ Size(Rest[i]) = l
      BY <2>3, <3>1
    <3>3. Rest[i] = <<m, p + 1, l>>
      BY <1>3, <3>2, ByteParts DEF Msg, Pos, Size
    <3>4. [Rest[k] EXCEPT ![2] = @ + 1] = <<m, p + 1, l>>
      BY <2>4
    <3> QED BY <2>1, <2>5, <2>7, <3>3, <3>4
  <2> QED BY <2>6, <2>7
<1> QED BY <1>1, <1>4, <1>5

\* Every variable keeps its type and no buffer is filled beyond its size.
THEOREM TypeCorrect == Spec => []TypeOK
<1>1. IInv => TypeOK
  BY DEF IInv
<1> QED BY <1>1, Invariance, PTL

\* Until an overflow block is used or a message is refused, what the session has
\* not handed over yet is the whole messages that follow the last one, whatever
\* the reads, the ticks and the reconnections did.
THEOREM StreamIntactSafe == Spec => []StreamIntact
  BY Invariance, IntactStream, PTL

\* On the first connection dispatch hands a message over a second time only
\* between a refusal and the do_close it posted.
THEOREM RepeatedSafe == Spec => []RepeatedOnlyWhileClosing
<1>1. IInv => RepeatedOnlyWhileClosing
  BY DEF IInv
<1> QED BY <1>1, Invariance, PTL

\* dispatch takes the received bytes apart where the peer's messages end as long
\* as no overflow block was used: blocks are the only way to a torn message.
THEOREM DispatchedWholeSafe == Spec => [](~overflowed => DispatchedWhole)
<1>1. IInv => (~overflowed => DispatchedWhole)
  BY DEF IInv, Intact, DispatchedWhole
<1> QED BY <1>1, Invariance, PTL
=============================================================================
