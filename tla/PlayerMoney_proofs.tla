-------------------------- MODULE PlayerMoney_proofs --------------------------
(***************************************************************************)
(* Proofs about PlayerMoney, for players who wait for their answers        *)
(* (Patient) and a database server that keeps up with them (DbKeepsUp).    *)
(*                                                                         *)
(* That the database adds up says nothing as long as somebody is in.  The  *)
(* inductive invariant says for every player which of the values that are  *)
(* around can still become his balance, and that these lie between two     *)
(* bounds whose sums over all players add up.                              *)
(***************************************************************************)
EXTENDS PlayerMoney, FiniteSetTheorems, SequenceTheorems, TLAPS

-----------------------------------------------------------------------------
(* The queues, all in one function *)

Lookups == <<Login, Redis>>
Found == <<Redis, Login>>
Pool == <<Db, Db>>
Recharges == <<Db, Login>>
Queues == Links \union {Lookups, Found, Pool, Recharges}
MailOf(n, l, f, q, r) ==
    [k \in Queues |-> IF k = Lookups THEN l ELSE IF k = Found THEN f
                      ELSE IF k = Pool THEN q ELSE IF k = Recharges THEN r ELSE n[k]]
Mail == MailOf(net, lookups, found, pool, recharges)

\* What is in the queues.
Notes == [type : {"LS_LoginNotify"}, p : Players]
Changes ==
    [type : {"SS_ChangeGame", "LS_ChangeGameResult", "SL_ChangeGameResult"}, p : Players,
     from : Servers, to : Servers, bank : Nat \union {NotLoaded}]
Transfers ==
    [type : {"S_BankTransferByGuid", "add"}, p : Players, s : Servers, to : Players \union {Nobody}]
Closures ==
    {m \in [type : {"closure"}, p : Players, s : Servers, to : Players \union {Nobody},
            at : Servers \union {None}] : m.at # None => m.to \in Players}
Credits == [type : {"LS_BankTransferByGuid", "DS_BankTransferByGuid"}, p : Players]
Queries == [type : {"SD_QueryPlayerData"}, p : Players]
Loads == [type : {"load"}, p : Players, s : Servers]
Reads == [type : {"select", "mark"}, p : Players, s : Servers, bank : Nat]
Values == [type : {"SD_SavePlayerData", "save", "DS_LoadPlayerData"}, p : Players, bank : Nat]
Notices == [type : {"redis"}, p : Players, s : Servers \union {None}]
Mails ==
    Notes \union Changes \union Transfers \union Closures \union Credits \union Queries
      \union Loads \union Reads \union Values \union Notices

\* Which types a queue carries.
Carried(k) ==
    IF k = Lookups THEN {"S_BankTransferByGuid"}
    ELSE IF k = Found THEN {"closure"}
    ELSE IF k = Pool THEN {"save", "load", "add"}
    ELSE IF k = Recharges THEN {"select", "mark"}
    ELSE IF k = <<Login, Db>> THEN {"S_BankTransferByGuid"}
    ELSE IF k[2] = Login THEN {"SS_ChangeGame", "SL_ChangeGameResult", "S_BankTransferByGuid"}
    ELSE IF k[1] = Login THEN {"LS_LoginNotify", "LS_ChangeGameResult", "SL_ChangeGameResult",
                               "LS_BankTransferByGuid"}
    ELSE IF k[2] = Db THEN {"SD_QueryPlayerData", "SD_SavePlayerData"}
    ELSE IF k[1] = Db THEN {"DS_LoadPlayerData", "DS_BankTransferByGuid"}
    ELSE {"redis"}

Objects == [bank : Nat \union {NotLoaded}, dirty : BOOLEAN, asked : BOOLEAN]

Nets == [Queues -> Seq(Mails)]
Sorted(n) == \A k \in Queues : \A i \in 1..Len(n[k]) : n[k][i].type \in Carried(k)

Typed(o, n, b, ord) ==
    /\ o \in [Servers -> [Players -> Objects \union {None}]]
    /\ n \in Nets /\ Sorted(n)
    /\ b \in [Players -> Nat] /\ ord \subseteq Recharged

-----------------------------------------------------------------------------
(* What is under way *)

Spots(n, C) == UNION {{k} \X {i \in 1..Len(n[k]) : n[k][i] \in C} : k \in Queues}
Count(n, C) == Cardinality(Spots(n, C))

Of(types, p) == {m \in Mails : m.type \in types /\ m.p = p}
Note(p) == Of({"LS_LoginNotify"}, p)
Change(p) == Of({"SS_ChangeGame", "LS_ChangeGameResult", "SL_ChangeGameResult"}, p)
Between(p) == Of({"SL_ChangeGameResult"}, p)
Unread(p) == Of({"SD_QueryPlayerData", "load", "select", "mark"}, p)
Load(p) == Of({"SD_QueryPlayerData", "load", "select", "mark", "DS_LoadPlayerData"}, p)
Save(p) == Of({"SD_SavePlayerData", "save"}, p)
Mark(p) == Of({"mark"}, p)
Moving ==
    {m \in Mails : m.type \in {"S_BankTransferByGuid", "closure", "add", "LS_BankTransferByGuid",
                               "DS_BankTransferByGuid"}}
Free(n, C) == Spots(n, C) = {}

\* What there is of a player, at most: one object, one notice to make one, one change
\* of server and one load; what excludes what; and where his saves can be.
Absent(o, p) == \A s \in Servers : o[s][p] = None
LinkFree(n, s, p) == \A i \in 1..Len(n[<<s, Db>>]) : n[<<s, Db>>][i] \notin Save(p)
Control(o, n, ord, p) ==
    /\ \A s, t \in Servers : o[s][p] # None /\ o[t][p] # None => s = t
    /\ \A s \in Servers : o[s][p] # None /\ o[s][p].dirty => o[s][p].bank # NotLoaded
    /\ Count(n, Note(p)) <= 1 /\ Count(n, Change(p)) <= 1 /\ Count(n, Load(p)) <= 1
    /\ Free(n, Note(p)) \/ (Absent(o, p) /\ Free(n, Change(p)))
    /\ Free(n, Between(p)) \/ Absent(o, p)
    /\ Free(n, Load(p)) \/ Free(n, Change(p))
    /\ Free(n, Load(p)) \/ \A s \in Servers :
         o[s][p] # None => o[s][p].asked /\ o[s][p].bank = NotLoaded
    /\ Free(n, Unread(p)) \/ Free(n, Save(p))
    /\ Free(n, Mark(p)) \/ p \in ord
    /\ \A s \in Servers : o[s][p] # None =>
         /\ o[s][p].bank = NotLoaded /\ ~o[s][p].asked => Free(n, Save(p))
         /\ \A t \in Servers \ {s} : LinkFree(n, t, p)

-----------------------------------------------------------------------------
(* The values that can become a balance *)

\* The last save of p in q is in R.
LastIn(q, p, R) ==
    \A i \in 1..Len(q) :
        q[i] \in Save(p) /\ (\A j \in (i + 1)..Len(q) : q[j] \notin Save(p)) => q[i].bank \in R

\* What the row of p will be when all saves are done is in R.
FinalIn(n, b, p, R) ==
    /\ \A s \in Servers : LastIn(n[<<s, Db>>], p, R)
    /\ (\A s \in Servers : LinkFree(n, s, p)) => LastIn(n[Pool], p, R)
    /\ Free(n, Save(p)) => b[p] \in R

Carries(p) ==
    Of({"SS_ChangeGame", "LS_ChangeGameResult", "SL_ChangeGameResult", "select", "mark",
        "DS_LoadPlayerData"}, p)

\* A balance in memory, one on its way to a memory, and what the database will have,
\* unless it is going to be overwritten.
Worth(o, n, b, p, R) ==
    /\ \A s \in Servers : o[s][p] # None => o[s][p].bank \in R \union {NotLoaded}
    /\ \A k \in Queues : \A i \in 1..Len(n[k]) :
         n[k][i] \in Carries(p) => n[k][i].bank \in R \union {NotLoaded}
    /\ (\A s \in Servers : o[s][p] # None => ~o[s][p].dirty) => FinalIn(n, b, p, R)

Total(f) == Cardinality(Coins(f))
Bounded(o, n, b, ord, tr, lo, hi) ==
    /\ lo \in [Players -> Nat] /\ hi \in [Players -> Nat]
    /\ \A p \in Players : Worth(o, n, b, p, lo[p]..hi[p])
    /\ Total(hi) + Cardinality(ord) + Count(n, Moving) <= AtStart
    /\ Total(lo) + Cardinality(ord) + tr >= AtStart

\* Rows that will be overwritten are no more than what there was.
Rows(n, b, tr) ==
    /\ Count(n, Moving) <= tr
    /\ \A p \in Players : b[p] + Count(n, Moving) <= AtStart + tr
    /\ \A k \in Queues : \A i \in 1..Len(n[k]) :
         n[k][i].type \in {"SD_SavePlayerData", "save"} => n[k][i].bank <= AtStart

Good(o, n, b, ord, tr) ==
    /\ Typed(o, n, b, ord) /\ (\A p \in Players : Control(o, n, ord, p)) /\ Rows(n, b, tr)
    /\ \E lo, hi \in [Players -> Nat] : Bounded(o, n, b, ord, tr, lo, hi)

IInv ==
    /\ gameid \in [Players -> Servers \union {None}] /\ DOMAIN net = Links
    /\ transfers \in 0..MaxTransfers /\ moves \in 0..MaxMoves
    /\ Good(obj, Mail, bank, orders, transfers)

-----------------------------------------------------------------------------
(* Sums over the players *)

LEMMA PlayersFinite == IsFiniteSet(Players) /\ IsFiniteSet(Servers)
BY MoneyAssumption DEF MoneyAssumption

\* A family of finite sets has a finite union.
LEMMA FiniteFamily ==
    ASSUME NEW K, IsFiniteSet(K), NEW F, DOMAIN F = K, \A k \in K : IsFiniteSet(F[k])
    PROVE  IsFiniteSet(UNION {F[k] : k \in K})
<1> DEFINE T == {F[k] : k \in K}
           g == [k \in K |-> F[k]]
<1>1. g \in Surjection(K, T)
  BY DEF Surjection
<1>2. IsFiniteSet(T)
  <2> HIDE DEF g, T
  <2> QED BY <1>1, FS_Surjection
<1>3. \A S \in T : IsFiniteSet(S)
  OBVIOUS
<1>4. IsFiniteSet(UNION T)
  <2> HIDE DEF T
  <2> QED BY <1>2, <1>3, FS_UNION
<1> QED BY <1>4

LEMMA CoinFact ==
    ASSUME NEW f \in [Players -> Nat]
    PROVE  \A c : c \in Coins(f) <=> \E p \in Players : \E i \in 1..f[p] : c = <<p, i>>
BY DEF Coins

LEMMA SumType ==
    ASSUME NEW f \in [Players -> Nat]
    PROVE  IsFiniteSet(Coins(f)) /\ Total(f) \in Nat
<1> DEFINE F == [p \in Players |-> {p} \X (1..f[p])]
<1>1. ASSUME NEW p \in Players PROVE IsFiniteSet(F[p])
  <2>1. IsFiniteSet(1..f[p])
    <3>1. f[p] \in Int
      OBVIOUS
    <3> QED BY <3>1, FS_Interval
  <2>2. IsFiniteSet({p})
    BY FS_Singleton
  <2> QED BY <2>1, <2>2, FS_Product
<1>2. DOMAIN F = Players
  OBVIOUS
<1>3. IsFiniteSet(UNION {F[p] : p \in Players})
  <2> HIDE DEF F
  <2> QED BY <1>1, <1>2, PlayersFinite, FiniteFamily
<1>4. Coins(f) = UNION {F[p] : p \in Players}
  BY DEF Coins
<1> QED BY <1>3, <1>4, FS_CardinalityType DEF Total

\* One more for one player is one more.
LEMMA SumUp ==
    ASSUME NEW f \in [Players -> Nat], NEW p \in Players
    PROVE  /\ [f EXCEPT ![p] = @ + 1] \in [Players -> Nat]
           /\ Total([f EXCEPT ![p] = @ + 1]) = Total(f) + 1
<1> DEFINE g == [f EXCEPT ![p] = @ + 1]
           c == <<p, f[p] + 1>>
<1>1. g \in [Players -> Nat] /\ g[p] = f[p] + 1 /\ \A q \in Players : q # p => g[q] = f[q]
  OBVIOUS
<1>2. Coins(g) = Coins(f) \union {c}
  <2>1. ASSUME NEW x \in Coins(g) PROVE x \in Coins(f) \union {c}
    <3>1. PICK q \in Players : \E i \in 1..g[q] : x = <<q, i>>
      <4> HIDE DEF g
      <4> QED BY <1>1, <2>1, CoinFact
    <3>0. PICK i \in 1..g[q] : x = <<q, i>>
      BY <3>1
    <3>2. CASE q = p /\ i = f[p] + 1
      BY <3>0, <3>2
    <3>3. CASE ~(q = p /\ i = f[p] + 1)
      <4>1. i \in 1..f[q]
        <5> HIDE DEF g
        <5> QED BY <1>1, <3>0, <3>3
      <4> QED BY <3>0, <4>1, CoinFact
    <3> QED BY <3>2, <3>3
  <2>2. ASSUME NEW x \in Coins(f) \union {c} PROVE x \in Coins(g)
    <3>1. CASE x = c
      <4>1. f[p] + 1 \in 1..g[p]
        <5> HIDE DEF g
        <5> QED BY <1>1
      <4> QED BY <1>1, <3>1, <4>1, CoinFact
    <3>2. CASE x \in Coins(f)
      <4>0. PICK q \in Players : \E i \in 1..f[q] : x = <<q, i>>
        BY <3>2, CoinFact
      <4>1. PICK i \in 1..f[q] : x = <<q, i>>
        BY <4>0
      <4>2. i \in 1..g[q]
        <5> HIDE DEF g
        <5> QED BY <1>1
      <4> QED BY <1>1, <4>1, <4>2, CoinFact
    <3> QED BY <2>2, <3>1, <3>2
  <2> QED BY <2>1, <2>2
<1>3. c \notin Coins(f)
  <2>1. ASSUME c \in Coins(f) PROVE FALSE
    <3>0. PICK q \in Players : \E i \in 1..f[q] : c = <<q, i>>
      BY <2>1, CoinFact
    <3>1. PICK i \in 1..f[q] : c = <<q, i>>
      BY <3>0
    <3>2. q = p /\ i = f[p] + 1
      BY <3>1
    <3> QED BY <3>2
  <2> QED BY <2>1
<1>4. Cardinality(Coins(f) \union {c}) = Cardinality(Coins(f)) + 1
  <2>1. IsFiniteSet(Coins(f))
    BY SumType
  <2> HIDE DEF c
  <2> QED BY <1>3, <2>1, FS_AddElement
<1> QED BY <1>1, <1>2, <1>4 DEF Total

\* One less is one less.
LEMMA SumDown ==
    ASSUME NEW f \in [Players -> Nat], NEW p \in Players, f[p] # 0
    PROVE  /\ [f EXCEPT ![p] = @ - 1] \in [Players -> Nat]
           /\ Total([f EXCEPT ![p] = @ - 1]) = Total(f) - 1
<1> DEFINE g == [f EXCEPT ![p] = @ - 1]
<1>1. g \in [Players -> Nat] /\ [g EXCEPT ![p] = @ + 1] = f
  <2>1. f[p] - 1 \in Nat /\ f[p] - 1 + 1 = f[p]
    OBVIOUS
  <2>2. g \in [Players -> Nat] /\ g[p] = f[p] - 1
    BY <2>1
  <2>3. \A q \in Players : [g EXCEPT ![p] = @ + 1][q] = f[q]
    BY <2>1, <2>2
  <2>4. [g EXCEPT ![p] = @ + 1] \in [Players -> Nat]
    BY <2>1, <2>2
  <2> QED BY <2>2, <2>3, <2>4
<1>2. Total([g EXCEPT ![p] = @ + 1]) = Total(g) + 1 /\ Total(g) \in Nat
  <2> HIDE DEF g
  <2> QED BY <1>1, SumUp, SumType
<1>3. Total(f) = Total(g) + 1
  BY <1>1, <1>2
<1>4. Total(g) = Total(f) - 1
  <2> HIDE DEF g
  <2> QED BY <1>2, <1>3
<1> QED BY <1>1, <1>4

LEMMA SumMono ==
    ASSUME NEW f \in [Players -> Nat], NEW g \in [Players -> Nat],
           \A p \in Players : f[p] <= g[p]
    PROVE  Total(f) <= Total(g)
<1>1. Coins(f) \subseteq Coins(g)
  <2>1. ASSUME NEW c \in Coins(f) PROVE c \in Coins(g)
    <3>0. PICK p \in Players : \E i \in 1..f[p] : c = <<p, i>>
      BY <2>1, CoinFact
    <3>1. PICK i \in 1..f[p] : c = <<p, i>>
      BY <3>0
    <3>2. i \in 1..g[p]
      BY <3>1
    <3> QED BY <3>1, <3>2, CoinFact
  <2> QED BY <2>1
<1> QED BY <1>1, SumType, FS_Subset DEF Total

LEMMA SumPart ==
    ASSUME NEW f \in [Players -> Nat], NEW p \in Players
    PROVE  f[p] <= Total(f)
<1>1. {p} \X (1..f[p]) \subseteq Coins(f)
  BY CoinFact
<1>2. IsFiniteSet(1..f[p]) /\ Cardinality(1..f[p]) = f[p]
  <2>1. f[p] \in Nat
    OBVIOUS
  <2> QED BY <2>1, FS_Interval
<1>3. IsFiniteSet({p}) /\ Cardinality({p}) = 1
  BY FS_Singleton
<1>4. IsFiniteSet({p} \X (1..f[p])) /\ Cardinality({p} \X (1..f[p])) = 1 * f[p]
  BY <1>2, <1>3, FS_Product
<1>5. Cardinality({p} \X (1..f[p])) <= Cardinality(Coins(f))
  BY <1>1, SumType, FS_Subset
<1> QED BY <1>4, <1>5 DEF Total

LEMMA SumAll ==
    ASSUME NEW v \in Nat
    PROVE  Total([p \in Players |-> v]) = Cardinality(Players) * v
<1>1. Coins([p \in Players |-> v]) = Players \X (1..v)
  BY DEF Coins
<1>2. IsFiniteSet(1..v) /\ Cardinality(1..v) = v
  BY FS_Interval
<1>3. Cardinality(Players \X (1..v)) = Cardinality(Players) * v
  BY <1>2, PlayersFinite, FS_Product
<1> QED BY <1>1, <1>3 DEF Total

LEMMA StartFact ==
    /\ Cardinality(Players) \in Nat /\ AtStart \in Nat
    /\ Total([p \in Players |-> Start]) + Cardinality(Recharged) = AtStart
<1>1. Cardinality(Players) \in Nat /\ IsFiniteSet(Recharged) /\ Cardinality(Recharged) \in Nat
  BY PlayersFinite, FS_CardinalityType, FS_Subset, MoneyAssumption DEF MoneyAssumption
<1>2. Start \in Nat /\ Total([p \in Players |-> Start]) = Cardinality(Players) * Start
  BY SumAll, MoneyAssumption DEF MoneyAssumption
<1>3. Cardinality(Players) * Start \in Nat
  BY <1>1, <1>2
<1> QED BY <1>1, <1>2, <1>3 DEF AtStart

-----------------------------------------------------------------------------
(* The queues *)

LEMMA LinkFact ==
    /\ \A s \in Servers : /\ s # Login /\ s # Db /\ s # Redis
                          /\ <<s, Login>> \in Links /\ <<Login, s>> \in Links
                          /\ <<s, Db>> \in Links /\ <<Db, s>> \in Links /\ <<s, Redis>> \in Links
    /\ <<Login, Db>> \in Links
    /\ Lookups \notin Links /\ Found \notin Links /\ Pool \notin Links /\ Recharges \notin Links
    /\ Lookups # Found /\ Lookups # Pool /\ Lookups # Recharges
    /\ Found # Pool /\ Found # Recharges /\ Pool # Recharges
<1>1. \A s \in Servers : s # "login" /\ s # "db" /\ s # "redis"
  BY MoneyAssumption DEF MoneyAssumption
<1> QED BY <1>1 DEF Links, Lookups, Found, Pool, Recharges, Login, Db, Redis

LEMMA QueueFact ==
    /\ Links \subseteq Queues
    /\ Lookups \in Queues /\ Found \in Queues /\ Pool \in Queues /\ Recharges \in Queues
    /\ IsFiniteSet(Queues)
<1>1. IsFiniteSet({Login}) /\ IsFiniteSet({Db}) /\ IsFiniteSet({Redis})
      /\ IsFiniteSet({<<Login, Db>>})
  BY FS_Singleton
<1>2. /\ IsFiniteSet(Servers \X {Login}) /\ IsFiniteSet({Login} \X Servers)
      /\ IsFiniteSet(Servers \X {Db}) /\ IsFiniteSet({Db} \X Servers)
      /\ IsFiniteSet(Servers \X {Redis})
  BY <1>1, PlayersFinite, FS_Product
<1>3. IsFiniteSet((Servers \X {Login}) \union ({Login} \X Servers))
  BY <1>2, FS_Union
<1>4. IsFiniteSet((Servers \X {Login}) \union ({Login} \X Servers) \union (Servers \X {Db}))
  BY <1>2, <1>3, FS_Union
<1>5. IsFiniteSet((Servers \X {Login}) \union ({Login} \X Servers) \union (Servers \X {Db})
                    \union ({Db} \X Servers))
  BY <1>2, <1>4, FS_Union
<1>6. IsFiniteSet((Servers \X {Login}) \union ({Login} \X Servers) \union (Servers \X {Db})
                    \union ({Db} \X Servers) \union {<<Login, Db>>})
  BY <1>1, <1>5, FS_Union
<1>7. IsFiniteSet(Links)
  BY <1>2, <1>6, FS_Union DEF Links
<1>8. IsFiniteSet(Links \union {Lookups})
  BY <1>7, FS_AddElement
<1>9. IsFiniteSet((Links \union {Lookups}) \union {Found})
  BY <1>8, FS_AddElement
<1>10. IsFiniteSet(((Links \union {Lookups}) \union {Found}) \union {Pool})
  BY <1>9, FS_AddElement
<1>11. IsFiniteSet((((Links \union {Lookups}) \union {Found}) \union {Pool}) \union {Recharges})
  BY <1>10, FS_AddElement
<1>12. Queues = (((Links \union {Lookups}) \union {Found}) \union {Pool}) \union {Recharges}
  BY DEF Queues
<1> QED BY <1>11, <1>12

\* One element taken out of a sequence.
LEMMA RemoveFact ==
    ASSUME NEW M, NEW q \in Seq(M), NEW i \in 1..Len(q)
    PROVE  /\ RemoveAt(q, i) \in Seq(M) /\ Len(RemoveAt(q, i)) = Len(q) - 1
           /\ \A j \in 1..(Len(q) - 1) : RemoveAt(q, i)[j] = q[IF j < i THEN j ELSE j + 1]
<1> DEFINE a == SubSeq(q, 1, i - 1)
           b == SubSeq(q, i + 1, Len(q))
<1>1. Len(q) \in Nat /\ i \in Nat /\ 1 <= i /\ i <= Len(q) /\ \A j \in 1..Len(q) : q[j] \in M
  BY LenProperties, ElementOfSeq
<1>2. a \in Seq(M) /\ Len(a) = i - 1 /\ \A j \in 1..(i - 1) : a[j] = q[j]
  <2>1. \A j \in 1..(i - 1) : q[j] \in M
    BY <1>1
  <2>2. /\ a \in Seq(M) /\ Len(a) = (IF 1 <= i - 1 THEN i - 1 - 1 + 1 ELSE 0)
        /\ \A j \in 1..(i - 1 - 1 + 1) : a[j] = q[1 + j - 1]
    BY <1>1, <2>1, SubSeqProperties
  <2> QED BY <1>1, <2>2
<1>3. b \in Seq(M) /\ Len(b) = Len(q) - i /\ \A j \in 1..(Len(q) - i) : b[j] = q[i + j]
  <2>1. \A j \in (i + 1)..Len(q) : q[j] \in M
    BY <1>1
  <2>2. /\ b \in Seq(M) /\ Len(b) = (IF i + 1 <= Len(q) THEN Len(q) - (i + 1) + 1 ELSE 0)
        /\ \A j \in 1..(Len(q) - (i + 1) + 1) : b[j] = q[i + 1 + j - 1]
    BY <1>1, <2>1, SubSeqProperties
  <2> QED BY <1>1, <2>2
<1>4. /\ a \o b \in Seq(M) /\ Len(a \o b) = Len(a) + Len(b)
      /\ \A j \in 1..(Len(a) + Len(b)) : (a \o b)[j] = IF j <= Len(a) THEN a[j] ELSE b[j - Len(a)]
  <2> HIDE DEF a, b
  <2> QED BY <1>2, <1>3, ConcatProperties
<1>5. RemoveAt(q, i) = a \o b
  BY DEF RemoveAt
<1>6. ASSUME NEW j \in 1..(Len(q) - 1)
      PROVE  (a \o b)[j] = q[IF j < i THEN j ELSE j + 1]
  <2> HIDE DEF a, b
  <2>1. CASE j < i
    BY <1>1, <1>2, <1>3, <1>4, <1>6, <2>1
  <2>2. CASE ~(j < i)
    <3>1. (a \o b)[j] = b[j - (i - 1)] /\ j - (i - 1) \in 1..(Len(q) - i)
      BY <1>1, <1>2, <1>3, <1>4, <1>6, <2>2
    <3>2. b[j - (i - 1)] = q[i + (j - (i - 1))]
      BY <1>3, <3>1
    <3>3. i + (j - (i - 1)) = j + 1
      BY <1>1, <1>6
    <3> QED BY <2>2, <3>1, <3>2, <3>3
  <2> QED BY <2>1, <2>2
<1>7. Len(a) + Len(b) = Len(q) - 1
  <2> HIDE DEF a, b
  <2> QED BY <1>1, <1>2, <1>3
<1> HIDE DEF a, b
<1> QED BY <1>4, <1>5, <1>6, <1>7

LEMMA TailRemove ==
    ASSUME NEW M, NEW q \in Seq(M), q # <<>>
    PROVE  /\ Tail(q) = RemoveAt(q, 1) /\ Head(q) = q[1] /\ 1 \in 1..Len(q)
<1>1. Len(q) \in Nat \ {0}
  BY EmptySeq
<1>2. Tail(q) \in Seq(M) /\ Len(Tail(q)) = Len(q) - 1 /\ \A i \in 1..Len(Tail(q)) : Tail(q)[i] = q[i + 1]
  BY HeadTailProperties
<1>3. /\ RemoveAt(q, 1) \in Seq(M) /\ Len(RemoveAt(q, 1)) = Len(q) - 1
      /\ \A j \in 1..(Len(q) - 1) : RemoveAt(q, 1)[j] = q[IF j < 1 THEN j ELSE j + 1]
  BY <1>1, RemoveFact
<1>4. ASSUME NEW i \in 1..Len(Tail(q)) PROVE Tail(q)[i] = RemoveAt(q, 1)[i]
  <2>1. i \in 1..(Len(q) - 1) /\ ~(i < 1)
    BY <1>1, <1>2
  <2>2. RemoveAt(q, 1)[i] = q[i + 1]
    BY <1>3, <2>1
  <2> QED BY <1>2, <2>2
<1>5. Tail(q) = RemoveAt(q, 1)
  BY <1>2, <1>3, <1>4, SeqEqual
<1> QED BY <1>1, <1>5

\* A queue that gets a message, several messages, or loses one.
Gone(n, k, i) == [n EXCEPT ![k] = RemoveAt(@, i)]
PutAll(n, k, w) == [n EXCEPT ![k] = @ \o w]

LEMMA NetFact ==
    ASSUME NEW n \in Nets, NEW k \in Queues
    PROVE  /\ n[k] \in Seq(Mails) /\ Len(n[k]) \in Nat
           /\ \A i \in 1..Len(n[k]) : n[k][i] \in Mails
           /\ n[k] # <<>> => 1 \in 1..Len(n[k])
<1>1. n[k] \in Seq(Mails)
  BY DEF Nets
<1>2. n[k] # <<>> => Len(n[k]) # 0
  BY <1>1, EmptySeq
<1> QED BY <1>1, <1>2, LenProperties, ElementOfSeq

LEMMA PutFact ==
    ASSUME NEW n \in Nets, NEW k \in Queues, NEW m \in Mails
    PROVE  /\ Put(n, k, m) \in Nets /\ Len(Put(n, k, m)[k]) = Len(n[k]) + 1
           /\ Put(n, k, m)[k][Len(n[k]) + 1] = m
           /\ \A i \in 1..Len(n[k]) : Put(n, k, m)[k][i] = n[k][i]
           /\ \A j \in Queues : j # k => Put(n, k, m)[j] = n[j]
<1>1. n[k] \in Seq(Mails)
  BY NetFact
<1>2. /\ Append(n[k], m) \in Seq(Mails) /\ Len(Append(n[k], m)) = Len(n[k]) + 1
      /\ \A i \in 1..Len(n[k]) : Append(n[k], m)[i] = n[k][i]
      /\ Append(n[k], m)[Len(n[k]) + 1] = m
  BY <1>1, AppendProperties
<1>3. Put(n, k, m)[k] = Append(n[k], m) /\ Put(n, k, m) \in Nets
  BY <1>2 DEF Put, Nets
<1>4. \A j \in Queues : j # k => Put(n, k, m)[j] = n[j]
  BY DEF Put, Nets
<1> QED BY <1>2, <1>3, <1>4

LEMMA PutAllFact ==
    ASSUME NEW n \in Nets, NEW k \in Queues, NEW w \in Seq(Mails)
    PROVE  /\ PutAll(n, k, w) \in Nets /\ Len(PutAll(n, k, w)[k]) = Len(n[k]) + Len(w)
           /\ \A i \in 1..(Len(n[k]) + Len(w)) :
                PutAll(n, k, w)[k][i] = IF i <= Len(n[k]) THEN n[k][i] ELSE w[i - Len(n[k])]
           /\ \A j \in Queues : j # k => PutAll(n, k, w)[j] = n[j]
<1>1. n[k] \in Seq(Mails)
  BY NetFact
<1>2. /\ n[k] \o w \in Seq(Mails) /\ Len(n[k] \o w) = Len(n[k]) + Len(w)
      /\ \A i \in 1..(Len(n[k]) + Len(w)) :
           (n[k] \o w)[i] = IF i <= Len(n[k]) THEN n[k][i] ELSE w[i - Len(n[k])]
  BY <1>1, ConcatProperties
<1>3. PutAll(n, k, w)[k] = n[k] \o w /\ PutAll(n, k, w) \in Nets
  BY <1>2 DEF PutAll, Nets
<1>4. \A j \in Queues : j # k => PutAll(n, k, w)[j] = n[j]
  BY DEF PutAll, Nets
<1> QED BY <1>2, <1>3, <1>4

LEMMA GoneFact ==
    ASSUME NEW n \in Nets, NEW k \in Queues, NEW i \in 1..Len(n[k])
    PROVE  /\ Gone(n, k, i) \in Nets /\ Len(Gone(n, k, i)[k]) = Len(n[k]) - 1
           /\ \A j \in 1..(Len(n[k]) - 1) : Gone(n, k, i)[k][j] = n[k][IF j < i THEN j ELSE j + 1]
           /\ \A j \in Queues : j # k => Gone(n, k, i)[j] = n[j]
<1>1. n[k] \in Seq(Mails)
  BY NetFact
<1>2. /\ RemoveAt(n[k], i) \in Seq(Mails) /\ Len(RemoveAt(n[k], i)) = Len(n[k]) - 1
      /\ \A j \in 1..(Len(n[k]) - 1) : RemoveAt(n[k], i)[j] = n[k][IF j < i THEN j ELSE j + 1]
  BY <1>1, RemoveFact
<1>3. Gone(n, k, i)[k] = RemoveAt(n[k], i) /\ Gone(n, k, i) \in Nets
  BY <1>2 DEF Gone, Nets
<1>4. \A j \in Queues : j # k => Gone(n, k, i)[j] = n[j]
  BY DEF Gone, Nets
<1> QED BY <1>2, <1>3, <1>4

-----------------------------------------------------------------------------
(* Counting messages *)

LEMMA SpotFact ==
    ASSUME NEW n \in Nets, NEW C
    PROVE  \A x : x \in Spots(n, C) <=>
             \E k \in Queues : \E i \in 1..Len(n[k]) : x = <<k, i>> /\ n[k][i] \in C
BY DEF Spots

LEMMA CountFact ==
    ASSUME NEW n \in Nets, NEW C
    PROVE  /\ IsFiniteSet(Spots(n, C)) /\ Count(n, C) \in Nat
           /\ Free(n, C) <=> Count(n, C) = 0
           /\ Free(n, C) <=> \A k \in Queues : \A i \in 1..Len(n[k]) : n[k][i] \notin C
<1> DEFINE F == [k \in Queues |-> {k} \X {i \in 1..Len(n[k]) : n[k][i] \in C}]
<1>1. ASSUME NEW k \in Queues PROVE IsFiniteSet(F[k])
  <2>1. Len(n[k]) \in Int
    BY NetFact
  <2>2. IsFiniteSet(1..Len(n[k]))
    BY <2>1, FS_Interval
  <2>3. IsFiniteSet({i \in 1..Len(n[k]) : n[k][i] \in C})
    BY <2>2, FS_Subset
  <2>4. IsFiniteSet({k})
    BY FS_Singleton
  <2> QED BY <2>3, <2>4, FS_Product
<1>2. DOMAIN F = Queues
  OBVIOUS
<1>3. IsFiniteSet(UNION {F[k] : k \in Queues})
  <2> HIDE DEF F
  <2> QED BY <1>1, <1>2, QueueFact, FiniteFamily
<1>4. Spots(n, C) = UNION {F[k] : k \in Queues}
  BY DEF Spots
<1>5. IsFiniteSet(Spots(n, C)) /\ Count(n, C) \in Nat
  BY <1>3, <1>4, FS_CardinalityType DEF Count
<1>6. Free(n, C) <=> Count(n, C) = 0
  BY <1>5, FS_EmptySet DEF Free, Count
<1>7. Free(n, C) <=> \A k \in Queues : \A i \in 1..Len(n[k]) : n[k][i] \notin C
  BY SpotFact DEF Free
<1> QED BY <1>5, <1>6, <1>7

LEMMA CountPut ==
    ASSUME NEW n \in Nets, NEW k \in Queues, NEW m \in Mails, NEW C
    PROVE  /\ Count(Put(n, k, m), C) <= Count(n, C) + 1
           /\ m \notin C => Count(Put(n, k, m), C) <= Count(n, C)
<1> DEFINE new == Put(n, k, m)
           last == <<k, Len(n[k]) + 1>>
<1>1. /\ new \in Nets /\ Len(new[k]) = Len(n[k]) + 1 /\ new[k][Len(n[k]) + 1] = m
      /\ \A i \in 1..Len(n[k]) : new[k][i] = n[k][i]
      /\ \A j \in Queues : j # k => new[j] = n[j]
  BY PutFact
<1>2. Len(n[k]) \in Nat
  BY NetFact
<1> HIDE DEF new
<1>3. ASSUME NEW x \in Spots(new, C)
      PROVE  x \in Spots(n, C) \/ (x = last /\ m \in C)
  <2>1. PICK j \in Queues : \E i \in 1..Len(new[j]) : x = <<j, i>> /\ new[j][i] \in C
    BY <1>1, <1>3, SpotFact
  <2>2. PICK i \in 1..Len(new[j]) : x = <<j, i>> /\ new[j][i] \in C
    BY <2>1
  <2>3. CASE j # k
    <3>1. i \in 1..Len(n[j]) /\ n[j][i] \in C
      BY <1>1, <2>2, <2>3
    <3> QED BY <2>2, <3>1, SpotFact
  <2>4. CASE j = k /\ i # Len(n[k]) + 1
    <3>1. i \in 1..Len(n[k])
      BY <1>1, <1>2, <2>2, <2>4
    <3>2. n[k][i] \in C
      BY <1>1, <2>2, <2>4, <3>1
    <3> QED BY <2>2, <2>4, <3>1, <3>2, SpotFact
  <2>5. CASE j = k /\ i = Len(n[k]) + 1
    BY <1>1, <2>2, <2>5
  <2> QED BY <2>3, <2>4, <2>5
<1>4. /\ IsFiniteSet(Spots(n, C)) /\ Cardinality(Spots(n, C)) \in Nat
      /\ IsFiniteSet(Spots(new, C)) /\ Cardinality(Spots(new, C)) \in Nat
  BY <1>1, CountFact DEF Count
<1>5. CASE m \notin C
  <2>1. Spots(new, C) \subseteq Spots(n, C)
    BY <1>3, <1>5
  <2>2. Cardinality(Spots(new, C)) <= Cardinality(Spots(n, C))
    BY <1>4, <2>1, FS_Subset
  <2> QED BY <1>4, <2>2 DEF Count, new
<1>6. CASE m \in C
  <2> HIDE DEF last
  <2>1. /\ IsFiniteSet(Spots(n, C) \union {last})
        /\ Cardinality(Spots(n, C) \union {last}) =
             IF last \in Spots(n, C) THEN Cardinality(Spots(n, C)) ELSE Cardinality(Spots(n, C)) + 1
    BY <1>4, FS_AddElement
  <2>2. Spots(new, C) \subseteq Spots(n, C) \union {last}
    BY <1>3
  <2>3. Cardinality(Spots(new, C)) <= Cardinality(Spots(n, C) \union {last})
    BY <2>1, <2>2, FS_Subset
  <2> QED BY <1>4, <1>6, <2>1, <2>3 DEF Count, new
<1> QED BY <1>5, <1>6

LEMMA CountPutAll ==
    ASSUME NEW n \in Nets, NEW k \in Queues, NEW w \in Seq(Mails), NEW C,
           \A i \in 1..Len(w) : w[i] \notin C
    PROVE  Count(PutAll(n, k, w), C) <= Count(n, C)
<1> DEFINE new == PutAll(n, k, w)
<1>1. /\ new \in Nets /\ Len(new[k]) = Len(n[k]) + Len(w)
      /\ \A i \in 1..(Len(n[k]) + Len(w)) :
           new[k][i] = IF i <= Len(n[k]) THEN n[k][i] ELSE w[i - Len(n[k])]
      /\ \A j \in Queues : j # k => new[j] = n[j]
  BY PutAllFact
<1>2. Len(n[k]) \in Nat /\ Len(w) \in Nat
  BY NetFact, LenProperties
<1> HIDE DEF new
<1>3. ASSUME NEW x \in Spots(new, C) PROVE x \in Spots(n, C)
  <2>1. PICK j \in Queues : \E i \in 1..Len(new[j]) : x = <<j, i>> /\ new[j][i] \in C
    BY <1>1, <1>3, SpotFact
  <2>2. PICK i \in 1..Len(new[j]) : x = <<j, i>> /\ new[j][i] \in C
    BY <2>1
  <2>3. CASE j # k
    <3>1. i \in 1..Len(n[j]) /\ n[j][i] \in C
      BY <1>1, <2>2, <2>3
    <3> QED BY <2>2, <3>1, SpotFact
  <2>4. CASE j = k /\ i <= Len(n[k])
    <3>1. i \in 1..Len(n[k]) /\ i \in 1..(Len(n[k]) + Len(w))
      BY <1>1, <1>2, <2>2, <2>4
    <3>2. n[k][i] \in C
      BY <1>1, <2>2, <2>4, <3>1
    <3> QED BY <2>2, <2>4, <3>1, <3>2, SpotFact
  <2>5. CASE j = k /\ ~(i <= Len(n[k]))
    <3>1. i - Len(n[k]) \in 1..Len(w) /\ i \in 1..(Len(n[k]) + Len(w))
      BY <1>1, <1>2, <2>2, <2>5
    <3>2. w[i - Len(n[k])] \in C
      BY <1>1, <2>2, <2>5, <3>1
    <3> QED BY <3>1, <3>2
  <2> QED BY <2>3, <2>4, <2>5
<1>4. IsFiniteSet(Spots(n, C)) /\ Spots(new, C) \subseteq Spots(n, C)
  BY <1>3, CountFact
<1> QED BY <1>4, FS_Subset DEF Count, new

LEMMA CountGone ==
    ASSUME NEW n \in Nets, NEW k \in Queues, NEW i \in 1..Len(n[k]), NEW C
    PROVE  /\ Count(Gone(n, k, i), C) <= Count(n, C)
           /\ n[k][i] \in C => Count(Gone(n, k, i), C) <= Count(n, C) - 1
<1> DEFINE new == Gone(n, k, i)
           spot == <<k, i>>
           S == Spots(new, C)
           T == IF n[k][i] \in C THEN Spots(n, C) \ {spot} ELSE Spots(n, C)
           To(d) == IF d[1] = k /\ ~(d[2] < i) THEN <<k, d[2] + 1>> ELSE d
           f == [d \in S |-> To(d)]
<1>1. /\ new \in Nets /\ Len(new[k]) = Len(n[k]) - 1
      /\ \A j \in 1..(Len(n[k]) - 1) : new[k][j] = n[k][IF j < i THEN j ELSE j + 1]
      /\ \A j \in Queues : j # k => new[j] = n[j]
  BY GoneFact
<1>2. Len(n[k]) \in Nat /\ i \in Nat /\ \A j \in Queues : Len(new[j]) \in Nat
  BY <1>1, NetFact
<1> HIDE DEF new
<1>3. ASSUME NEW d \in S
      PROVE  \E j \in Queues : \E h \in 1..Len(new[j]) : d = <<j, h>> /\ new[j][h] \in C
  BY <1>1, <1>3, SpotFact
<1>4. ASSUME NEW d \in S PROVE To(d) \in T
  <2>1. PICK j \in Queues : \E h \in 1..Len(new[j]) : d = <<j, h>> /\ new[j][h] \in C
    BY <1>3, <1>4
  <2>2. PICK h \in 1..Len(new[j]) : d = <<j, h>> /\ new[j][h] \in C
    BY <2>1
  <2>3. d[1] = j /\ d[2] = h /\ h \in Nat
    BY <2>2
  <2>4. CASE j # k
    <3>1. h \in 1..Len(n[j]) /\ n[j][h] \in C
      BY <1>1, <2>2, <2>4
    <3>2. d \in Spots(n, C) /\ d # spot /\ To(d) = d
      BY <2>2, <2>3, <2>4, <3>1, SpotFact
    <3> QED BY <3>2
  <2>5. CASE j = k /\ h < i
    <3>1. h \in 1..(Len(n[k]) - 1) /\ h \in 1..Len(n[k])
      BY <1>1, <1>2, <2>2, <2>5
    <3>2. n[k][h] \in C
      BY <1>1, <2>2, <2>5, <3>1
    <3>3. d \in Spots(n, C) /\ d # spot /\ To(d) = d
      BY <1>2, <2>2, <2>3, <2>5, <3>1, <3>2, SpotFact
    <3> QED BY <3>3
  <2>6. CASE j = k /\ ~(h < i)
    <3>1. h \in 1..(Len(n[k]) - 1) /\ h + 1 \in 1..Len(n[k]) /\ h + 1 # i
      BY <1>1, <1>2, <2>2, <2>6
    <3>2. n[k][h + 1] \in C
      BY <1>1, <2>2, <2>6, <3>1
    <3>3. <<k, h + 1>> \in Spots(n, C) /\ <<k, h + 1>> # spot /\ To(d) = <<k, h + 1>>
      BY <2>3, <2>6, <3>1, <3>2, SpotFact
    <3> QED BY <3>3
  <2> QED BY <2>4, <2>5, <2>6
<1>5. ASSUME NEW c \in S, NEW d \in S, To(c) = To(d) PROVE c = d
  <2>1. PICK a \in Queues : \E h \in 1..Len(new[a]) : c = <<a, h>> /\ new[a][h] \in C
    BY <1>3, <1>5
  <2>2. PICK h \in 1..Len(new[a]) : c = <<a, h>> /\ new[a][h] \in C
    BY <2>1
  <2>3. PICK b \in Queues : \E g \in 1..Len(new[b]) : d = <<b, g>> /\ new[b][g] \in C
    BY <1>3, <1>5
  <2>4. PICK g \in 1..Len(new[b]) : d = <<b, g>> /\ new[b][g] \in C
    BY <2>3
  <2>5. g \in Nat /\ h \in Nat
    BY <2>2, <2>4
  <2>6. /\ To(c) = <<a, IF a = k /\ ~(h < i) THEN h + 1 ELSE h>>
        /\ To(d) = <<b, IF b = k /\ ~(g < i) THEN g + 1 ELSE g>>
    BY <2>2, <2>4
  <2>7. a = b /\ (IF a = k /\ ~(h < i) THEN h + 1 ELSE h) = (IF b = k /\ ~(g < i) THEN g + 1 ELSE g)
    BY <1>5, <2>6
  <2>8. h = g
    BY <1>2, <2>5, <2>7
  <2> QED BY <2>2, <2>4, <2>7, <2>8
<1>6. f \in [S -> T] /\ \A c, d \in S : f[c] = f[d] => c = d
  <2> HIDE DEF S, T, To
  <2> QED BY <1>4, <1>5
<1>7. f \in Injection(S, T)
  <2> HIDE DEF S, T, f
  <2> QED BY <1>6 DEF Injection, IsInjective
<1>8. IsFiniteSet(Spots(n, C)) /\ Count(n, C) \in Nat /\ Count(new, C) \in Nat
  BY <1>1, CountFact
<1>9. spot \in Spots(n, C) \/ n[k][i] \notin C
  BY SpotFact
<1>10. IsFiniteSet(T) /\ Cardinality(T) = (IF n[k][i] \in C THEN Count(n, C) - 1 ELSE Count(n, C))
  <2> HIDE DEF spot
  <2> QED BY <1>8, <1>9, FS_RemoveElement DEF Count
<1>11. Cardinality(S) <= Cardinality(T)
  <2> HIDE DEF S, T, f
  <2> QED BY <1>7, <1>10, FS_Injection
<1>12. Count(new, C) <= Cardinality(T)
  BY <1>11 DEF Count
<1> QED BY <1>8, <1>10, <1>12 DEF new

-----------------------------------------------------------------------------
(* Messages *)

LEMMA MadeFact ==
    ASSUME NEW p \in Players, NEW s \in Servers, NEW t \in Servers, NEW v \in Nat,
           NEW to \in Players \union {Nobody}
    PROVE  /\ LoginNotify(p) \in Notes /\ CreditMsg(p) \in Credits /\ RefusedMsg(p) \in Credits
           /\ QueryMsg(p) \in Queries /\ SaveMsg(p, v) \in Values /\ LoadedMsg(p, v) \in Values
           /\ RedisMsg(p, s) \in Notices /\ RedisMsg(p, None) \in Notices
           /\ TransferMsg(p, s, to) \in Transfers
           /\ LoginNotify(p).type = "LS_LoginNotify" /\ LoginNotify(p).p = p
           /\ CreditMsg(p).type = "LS_BankTransferByGuid" /\ CreditMsg(p).p = p
           /\ RefusedMsg(p).type = "DS_BankTransferByGuid" /\ RefusedMsg(p).p = p
           /\ QueryMsg(p).type = "SD_QueryPlayerData" /\ QueryMsg(p).p = p
           /\ SaveMsg(p, v).type = "SD_SavePlayerData" /\ SaveMsg(p, v).p = p /\ SaveMsg(p, v).bank = v
           /\ LoadedMsg(p, v).type = "DS_LoadPlayerData" /\ LoadedMsg(p, v).p = p
           /\ LoadedMsg(p, v).bank = v
           /\ RedisMsg(p, s).type = "redis" /\ RedisMsg(p, s).p = p
           /\ RedisMsg(p, None).type = "redis" /\ RedisMsg(p, None).p = p
           /\ TransferMsg(p, s, to).type = "S_BankTransferByGuid" /\ TransferMsg(p, s, to).p = p
BY DEF LoginNotify, CreditMsg, RefusedMsg, QueryMsg, SaveMsg, LoadedMsg, RedisMsg, TransferMsg,
       Notes, Credits, Queries, Values, Notices, Transfers

LEMMA HeldFact ==
    ASSUME NEW m \in Mails
    PROVE  /\ m.p \in Players
           /\ m.type \in {"SS_ChangeGame", "LS_ChangeGameResult", "SL_ChangeGameResult"} => m \in Changes
           /\ m.type \in {"S_BankTransferByGuid", "add"} => m \in Transfers
           /\ m.type = "closure" => m \in Closures
           /\ m.type = "load" => m \in Loads
           /\ m.type \in {"select", "mark"} => m \in Reads
           /\ m.type \in {"SD_SavePlayerData", "save", "DS_LoadPlayerData"} => m \in Values
           /\ m.type = "redis" => m \in Notices
BY DEF Mails, Notes, Changes, Transfers, Closures, Credits, Queries, Loads, Reads, Values, Notices

LEMMA MailsFact ==
    /\ Notes \subseteq Mails /\ Changes \subseteq Mails /\ Transfers \subseteq Mails
    /\ Closures \subseteq Mails /\ Credits \subseteq Mails /\ Queries \subseteq Mails
    /\ Loads \subseteq Mails /\ Reads \subseteq Mails /\ Values \subseteq Mails
    /\ Notices \subseteq Mails
BY DEF Mails

-----------------------------------------------------------------------------
(* Steps that add nothing of a player *)

Others(m, p) ==
    m.p # p \/ m.type \notin {"LS_LoginNotify", "SS_ChangeGame", "LS_ChangeGameResult",
        "SL_ChangeGameResult", "SD_QueryPlayerData", "load", "select", "mark", "DS_LoadPlayerData",
        "SD_SavePlayerData", "save"}
Kinds(o, ord, p) ==
    {Note(p), Change(p), Unread(p), Load(p), Save(p)}
      \union (IF Absent(o, p) THEN {} ELSE {Between(p)})
      \union (IF p \in ord THEN {} ELSE {Mark(p)})

\* n2 has no more of p than n, of the kinds that matter for objects o and unpaid recharges ord.
Less(n, n2, o, ord, p) ==
    /\ \A C \in Kinds(o, ord, p) : Count(n2, C) <= Count(n, C)
    /\ \A s \in Servers : LinkFree(n, s, p) => LinkFree(n2, s, p)

LEMMA OthersFact ==
    ASSUME NEW m, NEW p, NEW o, NEW ord, Others(m, p)
    PROVE  \A C \in Kinds(o, ord, p) : m \notin C
BY DEF Others, Kinds, Note, Change, Between, Unread, Load, Save, Mark, Of

LEMMA LinkPut ==
    ASSUME NEW n \in Nets, NEW k \in Queues, NEW m \in Mails, NEW s \in Servers, NEW p,
           LinkFree(n, s, p), m \notin Save(p) \/ k # <<s, Db>>
    PROVE  LinkFree(Put(n, k, m), s, p)
<1> DEFINE l == <<s, Db>>
           new == Put(n, k, m)
<1>1. l \in Queues
  BY LinkFact, QueueFact
<1>2. /\ Len(new[k]) = Len(n[k]) + 1 /\ new[k][Len(n[k]) + 1] = m
      /\ \A i \in 1..Len(n[k]) : new[k][i] = n[k][i]
      /\ \A j \in Queues : j # k => new[j] = n[j]
  BY PutFact
<1>3. Len(n[k]) \in Nat
  BY NetFact
<1>4. \A i \in 1..Len(n[l]) : n[l][i] \notin Save(p)
  BY DEF LinkFree
<1> HIDE DEF new, l
<1>5. ASSUME NEW i \in 1..Len(new[l]) PROVE new[l][i] \notin Save(p)
  <2>1. CASE l # k
    BY <1>1, <1>2, <1>4, <2>1
  <2>2. CASE l = k /\ i \in 1..Len(n[k])
    BY <1>2, <1>4, <2>2
  <2>3. CASE l = k /\ i = Len(n[k]) + 1
    BY <1>2, <2>3 DEF l
  <2> QED BY <1>2, <1>3, <2>1, <2>2, <2>3
<1> QED BY <1>5 DEF LinkFree, new, l

LEMMA LinkGone ==
    ASSUME NEW n \in Nets, NEW k \in Queues, NEW h \in 1..Len(n[k]), NEW s \in Servers, NEW p,
           LinkFree(n, s, p)
    PROVE  LinkFree(Gone(n, k, h), s, p)
<1> DEFINE l == <<s, Db>>
           new == Gone(n, k, h)
<1>1. l \in Queues
  BY LinkFact, QueueFact
<1>2. /\ Len(new[k]) = Len(n[k]) - 1
      /\ \A j \in 1..(Len(n[k]) - 1) : new[k][j] = n[k][IF j < h THEN j ELSE j + 1]
      /\ \A j \in Queues : j # k => new[j] = n[j]
  BY GoneFact
<1>3. Len(n[k]) \in Nat
  BY NetFact
<1>4. \A i \in 1..Len(n[l]) : n[l][i] \notin Save(p)
  BY DEF LinkFree
<1> HIDE DEF new, l
<1>5. ASSUME NEW i \in 1..Len(new[l]) PROVE new[l][i] \notin Save(p)
  <2>1. CASE l # k
    BY <1>1, <1>2, <1>4, <2>1
  <2>2. CASE l = k
    <3>1. i \in 1..(Len(n[k]) - 1) /\ i \in 1..Len(n[k]) /\ i + 1 \in 1..Len(n[k])
      BY <1>2, <1>3, <2>2
    <3> QED BY <1>2, <1>4, <2>2, <3>1
  <2> QED BY <2>1, <2>2
<1> QED BY <1>5 DEF LinkFree, new, l

LEMMA LessPut ==
    ASSUME NEW n \in Nets, NEW k \in Queues, NEW m \in Mails, NEW p, NEW o, NEW ord, Others(m, p)
    PROVE  Less(n, Put(n, k, m), o, ord, p)
<1>1. \A C \in Kinds(o, ord, p) : m \notin C
  BY OthersFact
<1>2. \A C \in Kinds(o, ord, p) : Count(Put(n, k, m), C) <= Count(n, C)
  BY <1>1, CountPut
<1>3. m \notin Save(p)
  BY <1>1 DEF Kinds
<1> QED BY <1>2, <1>3, LinkPut DEF Less

LEMMA LessGone ==
    ASSUME NEW n \in Nets, NEW k \in Queues, NEW i \in 1..Len(n[k]), NEW p, NEW o, NEW ord
    PROVE  Less(n, Gone(n, k, i), o, ord, p)
BY CountGone, LinkGone DEF Less

LEMMA LessTrans ==
    ASSUME NEW n \in Nets, NEW n2 \in Nets, NEW n3 \in Nets, NEW p, NEW o, NEW ord,
           Less(n, n2, o, ord, p), Less(n2, n3, o, ord, p)
    PROVE  Less(n, n3, o, ord, p)
<1>1. ASSUME NEW C \in Kinds(o, ord, p) PROVE Count(n3, C) <= Count(n, C)
  <2>1. Count(n3, C) <= Count(n2, C) /\ Count(n2, C) <= Count(n, C)
    BY DEF Less
  <2>2. Count(n3, C) \in Nat /\ Count(n2, C) \in Nat /\ Count(n, C) \in Nat
    BY CountFact
  <2> QED BY <2>1, <2>2
<1> QED BY <1>1 DEF Less

\* A message is answered by one that is of the same kinds, or of fewer.
LEMMA CountMove ==
    ASSUME NEW n \in Nets, NEW k \in Queues, NEW i \in 1..Len(n[k]), NEW l \in Queues,
           NEW m \in Mails, NEW C, m \in C => n[k][i] \in C
    PROVE  Count(Put(Gone(n, k, i), l, m), C) <= Count(n, C)
<1>1. Gone(n, k, i) \in Nets
  BY GoneFact
<1>2. Put(Gone(n, k, i), l, m) \in Nets
  BY <1>1, PutFact
<1>3. Count(Gone(n, k, i), C) \in Nat /\ Count(n, C) \in Nat /\ Count(Put(Gone(n, k, i), l, m), C) \in Nat
  BY <1>1, <1>2, CountFact
<1>4. /\ Count(Gone(n, k, i), C) <= Count(n, C)
      /\ n[k][i] \in C => Count(Gone(n, k, i), C) <= Count(n, C) - 1
  BY CountGone
<1>5. /\ Count(Put(Gone(n, k, i), l, m), C) <= Count(Gone(n, k, i), C) + 1
      /\ m \notin C => Count(Put(Gone(n, k, i), l, m), C) <= Count(Gone(n, k, i), C)
  BY <1>1, CountPut
<1> QED BY <1>3, <1>4, <1>5

LEMMA LessMove ==
    ASSUME NEW n \in Nets, NEW k \in Queues, NEW i \in 1..Len(n[k]), NEW l \in Queues,
           NEW m \in Mails, NEW p, NEW o, NEW ord, \A C \in Kinds(o, ord, p) : m \in C => n[k][i] \in C,
           m \in Save(p) => \A s \in Servers : l # <<s, Db>>
    PROVE  Less(n, Put(Gone(n, k, i), l, m), o, ord, p)
<1>1. \A C \in Kinds(o, ord, p) : Count(Put(Gone(n, k, i), l, m), C) <= Count(n, C)
  BY CountMove
<1>2. Gone(n, k, i) \in Nets
  BY GoneFact
<1>3. \A s \in Servers : LinkFree(n, s, p) => LinkFree(Put(Gone(n, k, i), l, m), s, p)
  BY <1>2, LinkGone, LinkPut
<1> QED BY <1>1, <1>3 DEF Less

LEMMA LessFree ==
    ASSUME NEW n \in Nets, NEW n2 \in Nets, NEW p, NEW o, NEW ord, Less(n, n2, o, ord, p)
    PROVE  \A C \in Kinds(o, ord, p) : Free(n, C) => Free(n2, C)
<1>1. ASSUME NEW C \in Kinds(o, ord, p), Free(n, C) PROVE Free(n2, C)
  <2>1. Count(n, C) = 0 /\ Count(n2, C) \in Nat /\ Count(n2, C) <= Count(n, C)
    BY <1>1, CountFact DEF Less
  <2>2. Count(n2, C) = 0
    BY <2>1
  <2> QED BY <2>2, CountFact
<1> QED BY <1>1

\* What holds of a player goes on when nothing of him is added and his objects stay.
LEMMA ControlLess ==
    ASSUME NEW n \in Nets, NEW n2 \in Nets, NEW p, NEW o, NEW ord, Less(n, n2, o, ord, p),
           NEW o2, \A s \in Servers : o2[s][p] = o[s][p],
           NEW ord2, p \in ord => p \in ord2,
           Control(o, n, ord, p)
    PROVE  Control(o2, n2, ord2, p)
<1>1. \A C \in Kinds(o, ord, p) : Free(n, C) => Free(n2, C)
  BY LessFree
<1>2. /\ Free(n, Note(p)) => Free(n2, Note(p))
      /\ Free(n, Change(p)) => Free(n2, Change(p))
      /\ Free(n, Unread(p)) => Free(n2, Unread(p))
      /\ Free(n, Load(p)) => Free(n2, Load(p))
      /\ Free(n, Save(p)) => Free(n2, Save(p))
      /\ Absent(o, p) \/ (Free(n, Between(p)) => Free(n2, Between(p)))
      /\ p \in ord \/ (Free(n, Mark(p)) => Free(n2, Mark(p)))
  <2>1. ASSUME ~Absent(o, p) PROVE Between(p) \in Kinds(o, ord, p)
    BY <2>1 DEF Kinds
  <2>2. ASSUME p \notin ord PROVE Mark(p) \in Kinds(o, ord, p)
    BY <2>2 DEF Kinds
  <2>3. {Note(p), Change(p), Unread(p), Load(p), Save(p)} \subseteq Kinds(o, ord, p)
    BY DEF Kinds
  <2> QED BY <1>1, <2>1, <2>2, <2>3
<1>3. \A C \in Kinds(o, ord, p) : Count(n, C) <= 1 => Count(n2, C) <= 1
  <2>1. ASSUME NEW C \in Kinds(o, ord, p), Count(n, C) <= 1 PROVE Count(n2, C) <= 1
    <3>1. Count(n, C) \in Nat /\ Count(n2, C) \in Nat /\ Count(n2, C) <= Count(n, C)
      BY CountFact DEF Less
    <3> QED BY <2>1, <3>1
  <2> QED BY <2>1
<1>4. Count(n2, Note(p)) <= 1 /\ Count(n2, Change(p)) <= 1 /\ Count(n2, Load(p)) <= 1
  BY <1>3 DEF Kinds, Control
<1>5. \A s \in Servers : LinkFree(n, s, p) => LinkFree(n2, s, p)
  BY DEF Less
<1>6. Absent(o, p) => Absent(o2, p)
  BY DEF Absent
<1> QED BY <1>2, <1>4, <1>5, <1>6 DEF Control

LEMMA LessSame ==
    ASSUME NEW n \in Nets, NEW p, NEW o, NEW ord
    PROVE  Less(n, n, o, ord, p)
<1>1. \A C \in Kinds(o, ord, p) : Count(n, C) <= Count(n, C)
  <2>1. ASSUME NEW C \in Kinds(o, ord, p) PROVE Count(n, C) <= Count(n, C)
    <3>1. Count(n, C) \in Nat
      BY CountFact
    <3> QED BY <3>1
  <2> QED BY <2>1
<1> QED BY <1>1 DEF Less

-----------------------------------------------------------------------------
(* Saves *)

LEMMA LastGone ==
    ASSUME NEW q \in Seq(Mails), NEW i \in 1..Len(q), NEW p, NEW R, LastIn(q, p, R),
           q[i] \notin Save(p) \/ \A j \in 1..(i - 1) : q[j] \notin Save(p)
    PROVE  LastIn(RemoveAt(q, i), p, R)
<1> DEFINE r == RemoveAt(q, i)
<1>1. Len(r) = Len(q) - 1 /\ \A j \in 1..(Len(q) - 1) : r[j] = q[IF j < i THEN j ELSE j + 1]
  BY RemoveFact
<1>2. Len(q) \in Nat
  BY LenProperties
<1> HIDE DEF r
<1>3. ASSUME NEW j \in 1..Len(r), r[j] \in Save(p), \A h \in (j + 1)..Len(r) : r[h] \notin Save(p)
      PROVE  r[j].bank \in R
  <2>1. PICK g \in 1..Len(q) : g = IF j < i THEN j ELSE j + 1
    <3>1. (IF j < i THEN j ELSE j + 1) \in 1..Len(q)
      BY <1>1, <1>2, <1>3
    <3> QED BY <3>1
  <2>2. r[j] = q[g]
    BY <1>1, <1>2, <1>3, <2>1
  <2>3. ASSUME NEW h \in (g + 1)..Len(q) PROVE q[h] \notin Save(p)
    <3>1. CASE h < i
      <4>1. h \in (j + 1)..Len(r) /\ h \in 1..(Len(q) - 1)
        BY <1>1, <1>2, <2>1, <3>1
      <4> QED BY <1>1, <1>3, <3>1, <4>1
    <3>2. CASE h > i
      <4>1. h - 1 \in (j + 1)..Len(r) /\ h - 1 \in 1..(Len(q) - 1) /\ ~(h - 1 < i) /\ h - 1 + 1 = h
        BY <1>1, <1>2, <2>1, <3>2
      <4>2. r[h - 1] = q[h]
        BY <1>1, <4>1
      <4> QED BY <1>3, <4>1, <4>2
    <3>3. CASE h = i
      <4>1. j < i /\ j \in 1..(i - 1) /\ g = j
        BY <1>2, <2>1, <3>3
      <4>2. ~\A a \in 1..(i - 1) : q[a] \notin Save(p)
        BY <1>3, <2>2, <4>1
      <4> QED BY <3>3, <4>2
    <3> QED BY <3>1, <3>2, <3>3
  <2> QED BY <1>3, <2>2, <2>3 DEF LastIn
<1> QED BY <1>3 DEF LastIn, r

LEMMA LastPut ==
    ASSUME NEW q \in Seq(Mails), NEW m \in Mails, NEW p, NEW R,
           IF m \in Save(p) THEN m.bank \in R ELSE LastIn(q, p, R)
    PROVE  LastIn(Append(q, m), p, R)
<1> DEFINE r == Append(q, m)
<1>1. Len(r) = Len(q) + 1 /\ r[Len(q) + 1] = m /\ \A j \in 1..Len(q) : r[j] = q[j]
  BY AppendProperties
<1>2. Len(q) \in Nat
  BY LenProperties
<1> HIDE DEF r
<1>3. ASSUME NEW j \in 1..Len(r), r[j] \in Save(p), \A h \in (j + 1)..Len(r) : r[h] \notin Save(p)
      PROVE  r[j].bank \in R
  <2>1. CASE j = Len(q) + 1
    BY <1>1, <1>3, <2>1
  <2>2. CASE j \in 1..Len(q)
    <3>1. Len(q) + 1 \in (j + 1)..Len(r)
      BY <1>1, <1>2, <2>2
    <3>2. m \notin Save(p) /\ LastIn(q, p, R)
      BY <1>1, <1>3, <3>1
    <3>3. ASSUME NEW h \in (j + 1)..Len(q) PROVE q[h] \notin Save(p)
      <4>1. h \in (j + 1)..Len(r) /\ h \in 1..Len(q)
        BY <1>1, <1>2, <2>2
      <4> QED BY <1>1, <1>3, <4>1
    <3>4. r[j] = q[j]
      BY <1>1, <2>2
    <3> QED BY <1>3, <2>2, <3>2, <3>3, <3>4 DEF LastIn
  <2> QED BY <1>1, <1>2, <2>1, <2>2
<1> QED BY <1>3 DEF LastIn, r

\* Messages of all queues but one are those of the other.
LEMMA FreeGone ==
    ASSUME NEW n \in Nets, NEW k \in Queues, NEW i \in 1..Len(n[k]), NEW C, n[k][i] \notin C,
           Free(Gone(n, k, i), C)
    PROVE  Free(n, C)
<1> DEFINE new == Gone(n, k, i)
<1>1. /\ new \in Nets /\ Len(new[k]) = Len(n[k]) - 1
      /\ \A j \in 1..(Len(n[k]) - 1) : new[k][j] = n[k][IF j < i THEN j ELSE j + 1]
      /\ \A j \in Queues : j # k => new[j] = n[j]
  BY GoneFact
<1>2. Len(n[k]) \in Nat
  BY NetFact
<1> HIDE DEF new
<1>3. \A j \in Queues : \A h \in 1..Len(new[j]) : new[j][h] \notin C
  BY <1>1, CountFact DEF new
<1>4. ASSUME NEW j \in Queues, NEW h \in 1..Len(n[j]) PROVE n[j][h] \notin C
  <2>1. CASE j # k
    BY <1>1, <1>3, <2>1
  <2>2. CASE j = k /\ h = i
    BY <2>2
  <2>3. CASE j = k /\ h < i
    <3>1. h \in 1..(Len(n[k]) - 1)
      BY <1>2, <2>3
    <3>2. new[k][h] = n[k][h]
      BY <1>1, <2>3, <3>1
    <3> QED BY <1>1, <1>3, <2>3, <3>1, <3>2
  <2>4. CASE j = k /\ h > i
    <3>1. h - 1 \in 1..(Len(n[k]) - 1) /\ ~(h - 1 < i) /\ h - 1 + 1 = h
      BY <1>2, <2>4
    <3>2. new[k][h - 1] = n[k][h]
      BY <1>1, <3>1
    <3> QED BY <1>1, <1>3, <2>4, <3>1, <3>2
  <2> QED BY <1>2, <2>1, <2>2, <2>3, <2>4
<1> QED BY <1>4, CountFact

LEMMA FreePut ==
    ASSUME NEW n \in Nets, NEW k \in Queues, NEW m \in Mails, NEW C
    PROVE  Free(Put(n, k, m), C) <=> Free(n, C) /\ m \notin C
<1> DEFINE new == Put(n, k, m)
<1>1. /\ new \in Nets /\ Len(new[k]) = Len(n[k]) + 1 /\ new[k][Len(n[k]) + 1] = m
      /\ \A j \in 1..Len(n[k]) : new[k][j] = n[k][j]
      /\ \A j \in Queues : j # k => new[j] = n[j]
  BY PutFact
<1>2. Len(n[k]) \in Nat
  BY NetFact
<1> HIDE DEF new
<1>3. Free(new, C) <=> \A j \in Queues : \A h \in 1..Len(new[j]) : new[j][h] \notin C
  BY <1>1, CountFact
<1>4. Free(n, C) <=> \A j \in Queues : \A h \in 1..Len(n[j]) : n[j][h] \notin C
  BY CountFact
<1>5. ASSUME Free(new, C) PROVE Free(n, C) /\ m \notin C
  <2>1. ASSUME NEW j \in Queues, NEW h \in 1..Len(n[j]) PROVE n[j][h] \notin C
    <3>1. h \in 1..Len(new[j]) /\ new[j][h] = n[j][h]
      BY <1>1, <1>2
    <3> QED BY <1>3, <1>5, <3>1
  <2>2. Len(n[k]) + 1 \in 1..Len(new[k])
    BY <1>1, <1>2
  <2> QED BY <1>1, <1>3, <1>4, <1>5, <2>1, <2>2
<1>6. ASSUME Free(n, C), m \notin C PROVE Free(new, C)
  <2>1. ASSUME NEW j \in Queues, NEW h \in 1..Len(new[j]) PROVE new[j][h] \notin C
    <3>1. CASE j = k /\ h = Len(n[k]) + 1
      BY <1>1, <1>6, <3>1
    <3>2. CASE ~(j = k /\ h = Len(n[k]) + 1)
      <4>1. h \in 1..Len(n[j]) /\ new[j][h] = n[j][h]
        BY <1>1, <1>2, <3>2
      <4> QED BY <1>4, <1>6, <4>1
    <3> QED BY <3>1, <3>2
  <2> QED BY <1>3, <2>1
<1> QED BY <1>5, <1>6 DEF new

LEMMA LinkBack ==
    ASSUME NEW n \in Nets, NEW k \in Queues, NEW s \in Servers, NEW p
    PROVE  /\ \A i \in 1..Len(n[k]) :
                n[k][i] \notin Save(p) /\ LinkFree(Gone(n, k, i), s, p) => LinkFree(n, s, p)
           /\ \A m \in Mails : LinkFree(Put(n, k, m), s, p) => LinkFree(n, s, p)
<1>1. <<s, Db>> \in Queues
  BY LinkFact, QueueFact
<1>2. Len(n[k]) \in Nat
  BY NetFact
<1>3. ASSUME NEW m \in Mails, LinkFree(Put(n, k, m), s, p) PROVE LinkFree(n, s, p)
  <2>1. /\ Len(Put(n, k, m)[k]) = Len(n[k]) + 1
        /\ \A i \in 1..Len(n[k]) : Put(n, k, m)[k][i] = n[k][i]
        /\ \A j \in Queues : j # k => Put(n, k, m)[j] = n[j]
    BY PutFact
  <2>2. \A i \in 1..Len(Put(n, k, m)[<<s, Db>>]) : Put(n, k, m)[<<s, Db>>][i] \notin Save(p)
    BY <1>3 DEF LinkFree
  <2>3. ASSUME NEW i \in 1..Len(n[<<s, Db>>]) PROVE n[<<s, Db>>][i] \notin Save(p)
    <3>1. i \in 1..Len(Put(n, k, m)[<<s, Db>>]) /\ Put(n, k, m)[<<s, Db>>][i] = n[<<s, Db>>][i]
      <4>1. CASE k = <<s, Db>>
        BY <1>2, <2>1, <4>1
      <4>2. CASE k # <<s, Db>>
        BY <1>1, <2>1, <4>2
      <4> QED BY <4>1, <4>2
    <3> QED BY <2>2, <3>1
  <2> QED BY <2>3 DEF LinkFree
<1>4. ASSUME NEW i \in 1..Len(n[k]), n[k][i] \notin Save(p), LinkFree(Gone(n, k, i), s, p)
      PROVE  LinkFree(n, s, p)
  <2> DEFINE new == Gone(n, k, i)
  <2>1. /\ Len(new[k]) = Len(n[k]) - 1
        /\ \A j \in 1..(Len(n[k]) - 1) : new[k][j] = n[k][IF j < i THEN j ELSE j + 1]
        /\ \A j \in Queues : j # k => new[j] = n[j]
    BY GoneFact
  <2>2. \A h \in 1..Len(new[<<s, Db>>]) : new[<<s, Db>>][h] \notin Save(p)
    BY <1>4 DEF LinkFree
  <2> HIDE DEF new
  <2>3. ASSUME NEW h \in 1..Len(n[<<s, Db>>]) PROVE n[<<s, Db>>][h] \notin Save(p)
    <3>1. CASE k # <<s, Db>>
      BY <1>1, <2>1, <2>2, <3>1
    <3>2. CASE k = <<s, Db>> /\ h = i
      BY <1>4, <3>2
    <3>3. CASE k = <<s, Db>> /\ h < i
      <4>1. h \in 1..(Len(n[k]) - 1)
        BY <1>2, <3>3
      <4>2. new[k][h] = n[k][h]
        BY <2>1, <3>3, <4>1
      <4> QED BY <2>1, <2>2, <3>3, <4>1, <4>2
    <3>4. CASE k = <<s, Db>> /\ h > i
      <4>1. h - 1 \in 1..(Len(n[k]) - 1) /\ ~(h - 1 < i) /\ h - 1 + 1 = h
        BY <1>2, <3>4
      <4>2. new[k][h - 1] = n[k][h]
        BY <2>1, <4>1
      <4> QED BY <2>1, <2>2, <3>4, <4>1, <4>2
    <3> QED BY <1>2, <3>1, <3>2, <3>3, <3>4
  <2> QED BY <2>3 DEF LinkFree
<1> QED BY <1>3, <1>4

\* What the row will be does not depend on messages that are no saves.
LEMMA FinalGone ==
    ASSUME NEW n \in Nets, NEW k \in Queues, NEW i \in 1..Len(n[k]), NEW p, NEW R, NEW b,
           n[k][i] \notin Save(p), FinalIn(n, b, p, R)
    PROVE  FinalIn(Gone(n, k, i), b, p, R)
<1> DEFINE new == Gone(n, k, i)
<1>1. new[k] = RemoveAt(n[k], i) /\ \A j \in Queues : j # k => new[j] = n[j]
  BY DEF Gone, Nets
<1>2. n[k] \in Seq(Mails)
  BY NetFact
<1>3. \A j \in Queues : LastIn(n[j], p, R) => LastIn(new[j], p, R)
  BY <1>1, <1>2, LastGone
<1>4. Pool \in Queues /\ \A s \in Servers : <<s, Db>> \in Queues
  BY LinkFact, QueueFact
<1>5. \A s \in Servers : LinkFree(new, s, p) => LinkFree(n, s, p)
  BY LinkBack
<1>6. Free(new, Save(p)) => Free(n, Save(p))
  BY FreeGone
<1> HIDE DEF new
<1>7. FinalIn(new, b, p, R)
  BY <1>3, <1>4, <1>5, <1>6 DEF FinalIn
<1> QED BY <1>7 DEF new

LEMMA FinalPut ==
    ASSUME NEW n \in Nets, NEW k \in Queues, NEW m \in Mails, NEW p, NEW R, NEW b,
           m \notin Save(p), FinalIn(n, b, p, R)
    PROVE  FinalIn(Put(n, k, m), b, p, R)
<1> DEFINE new == Put(n, k, m)
<1>1. new[k] = Append(n[k], m) /\ \A j \in Queues : j # k => new[j] = n[j]
  BY DEF Put, Nets
<1>2. n[k] \in Seq(Mails)
  BY NetFact
<1>3. \A j \in Queues : LastIn(n[j], p, R) => LastIn(new[j], p, R)
  BY <1>1, <1>2, LastPut
<1>4. Pool \in Queues /\ \A s \in Servers : <<s, Db>> \in Queues
  BY LinkFact, QueueFact
<1>5. \A s \in Servers : LinkFree(new, s, p) => LinkFree(n, s, p)
  BY LinkBack
<1>6. Free(new, Save(p)) => Free(n, Save(p))
  BY FreePut
<1> HIDE DEF new
<1>7. FinalIn(new, b, p, R)
  BY <1>3, <1>4, <1>5, <1>6 DEF FinalIn
<1> QED BY <1>7 DEF new

-----------------------------------------------------------------------------
(* What can become a balance *)

CarriedIn(n, p, R) ==
    \A k \in Queues : \A i \in 1..Len(n[k]) :
        n[k][i] \in Carries(p) => n[k][i].bank \in R \union {NotLoaded}

LEMMA CarriedGone ==
    ASSUME NEW n \in Nets, NEW k \in Queues, NEW i \in 1..Len(n[k]), NEW p, NEW R,
           CarriedIn(n, p, R)
    PROVE  CarriedIn(Gone(n, k, i), p, R)
<1> DEFINE new == Gone(n, k, i)
<1>1. /\ Len(new[k]) = Len(n[k]) - 1
      /\ \A j \in 1..(Len(n[k]) - 1) : new[k][j] = n[k][IF j < i THEN j ELSE j + 1]
      /\ \A j \in Queues : j # k => new[j] = n[j]
  BY GoneFact
<1>2. Len(n[k]) \in Nat
  BY NetFact
<1> HIDE DEF new
<1>3. ASSUME NEW j \in Queues, NEW h \in 1..Len(new[j]), new[j][h] \in Carries(p)
      PROVE  new[j][h].bank \in R \union {NotLoaded}
  <2>1. PICK g \in 1..Len(n[j]) : new[j][h] = n[j][g]
    <3>1. CASE j # k
      BY <1>1, <3>1
    <3>2. CASE j = k
      <4>1. h \in 1..(Len(n[k]) - 1) /\ (IF h < i THEN h ELSE h + 1) \in 1..Len(n[k])
        BY <1>1, <1>2, <3>2
      <4> QED BY <1>1, <3>2, <4>1
    <3> QED BY <3>1, <3>2
  <2> QED BY <1>3, <2>1 DEF CarriedIn
<1> QED BY <1>3 DEF CarriedIn, new

LEMMA CarriedPut ==
    ASSUME NEW n \in Nets, NEW k \in Queues, NEW m \in Mails, NEW p, NEW R,
           CarriedIn(n, p, R), m \in Carries(p) => m.bank \in R \union {NotLoaded}
    PROVE  CarriedIn(Put(n, k, m), p, R)
<1> DEFINE new == Put(n, k, m)
<1>1. /\ Len(new[k]) = Len(n[k]) + 1 /\ new[k][Len(n[k]) + 1] = m
      /\ \A j \in 1..Len(n[k]) : new[k][j] = n[k][j]
      /\ \A j \in Queues : j # k => new[j] = n[j]
  BY PutFact
<1>2. Len(n[k]) \in Nat
  BY NetFact
<1> HIDE DEF new
<1>3. ASSUME NEW j \in Queues, NEW h \in 1..Len(new[j]), new[j][h] \in Carries(p)
      PROVE  new[j][h].bank \in R \union {NotLoaded}
  <2>1. CASE j = k /\ h = Len(n[k]) + 1
    BY <1>1, <1>3, <2>1
  <2>2. CASE ~(j = k /\ h = Len(n[k]) + 1)
    <3>1. h \in 1..Len(n[j]) /\ new[j][h] = n[j][h]
      BY <1>1, <1>2, <2>2
    <3> QED BY <1>3, <3>1 DEF CarriedIn
  <2> QED BY <2>1, <2>2
<1> QED BY <1>3 DEF CarriedIn, new

LEMMA WorthParts ==
    ASSUME NEW o, NEW n, NEW b, NEW p, NEW R
    PROVE  Worth(o, n, b, p, R) <=>
             /\ \A s \in Servers : o[s][p] # None => o[s][p].bank \in R \union {NotLoaded}
             /\ CarriedIn(n, p, R)
             /\ (\A s \in Servers : o[s][p] # None => ~o[s][p].dirty) => FinalIn(n, b, p, R)
BY DEF Worth, CarriedIn

LEMMA WorthGone ==
    ASSUME NEW n \in Nets, NEW k \in Queues, NEW i \in 1..Len(n[k]), NEW p, NEW R, NEW b, NEW o,
           n[k][i] \notin Save(p), Worth(o, n, b, p, R)
    PROVE  Worth(o, Gone(n, k, i), b, p, R)
BY WorthParts, CarriedGone, FinalGone

LEMMA WorthPut ==
    ASSUME NEW n \in Nets, NEW k \in Queues, NEW m \in Mails, NEW p, NEW R, NEW b, NEW o,
           m \notin Save(p), m \in Carries(p) => m.bank \in R \union {NotLoaded},
           Worth(o, n, b, p, R)
    PROVE  Worth(o, Put(n, k, m), b, p, R)
BY WorthParts, CarriedPut, FinalPut

\* More values, and the objects and the row of another player.
LEMMA FinalWide ==
    ASSUME NEW n, NEW p, NEW b, NEW b2, b2[p] = b[p], NEW R, NEW S, R \subseteq S,
           FinalIn(n, b, p, R)
    PROVE  FinalIn(n, b2, p, S)
BY DEF FinalIn, LastIn

LEMMA WorthWide ==
    ASSUME NEW n, NEW p, NEW o, NEW o2, NEW b, NEW b2, NEW R, NEW S, R \subseteq S,
           \A s \in Servers : o2[s][p] = o[s][p], b2[p] = b[p], Worth(o, n, b, p, R)
    PROVE  Worth(o2, n, b2, p, S)
<1>1. CarriedIn(n, p, R) => CarriedIn(n, p, S)
  BY DEF CarriedIn
<1>2. FinalIn(n, b, p, R) => FinalIn(n, b2, p, S)
  BY FinalWide
<1> QED BY <1>1, <1>2, WorthParts

-----------------------------------------------------------------------------
(* Steps that change neither the sums nor what there is of another player *)

SaveTypes == {"SD_SavePlayerData", "save"}
SavesIn(n, v) ==
    \A k \in Queues : \A i \in 1..Len(n[k]) : n[k][i].type \in SaveTypes => n[k][i].bank <= v

LEMMA SaveFact ==
    ASSUME NEW m \in Mails
    PROVE  /\ \A p : m \in Save(p) <=> m.type \in SaveTypes /\ m.p = p
           /\ m.type \notin SaveTypes => \A p : m \notin Save(p)
BY DEF Save, Of, SaveTypes

LEMMA RowsParts ==
    ASSUME NEW n, NEW b, NEW tr
    PROVE  Rows(n, b, tr) <=>
             /\ Count(n, Moving) <= tr
             /\ \A p \in Players : b[p] + Count(n, Moving) <= AtStart + tr
             /\ SavesIn(n, AtStart)
BY DEF Rows, SavesIn, SaveTypes

LEMMA SavesGone ==
    ASSUME NEW n \in Nets, NEW k \in Queues, NEW i \in 1..Len(n[k]), NEW v, SavesIn(n, v)
    PROVE  SavesIn(Gone(n, k, i), v)
<1> DEFINE new == Gone(n, k, i)
<1>1. /\ Len(new[k]) = Len(n[k]) - 1
      /\ \A j \in 1..(Len(n[k]) - 1) : new[k][j] = n[k][IF j < i THEN j ELSE j + 1]
      /\ \A j \in Queues : j # k => new[j] = n[j]
  BY GoneFact
<1>2. Len(n[k]) \in Nat
  BY NetFact
<1> HIDE DEF new
<1>3. ASSUME NEW j \in Queues, NEW h \in 1..Len(new[j]), new[j][h].type \in SaveTypes
      PROVE  new[j][h].bank <= v
  <2>1. PICK g \in 1..Len(n[j]) : new[j][h] = n[j][g]
    <3>1. CASE j # k
      BY <1>1, <3>1
    <3>2. CASE j = k
      <4>1. h \in 1..(Len(n[k]) - 1) /\ (IF h < i THEN h ELSE h + 1) \in 1..Len(n[k])
        BY <1>1, <1>2, <3>2
      <4> QED BY <1>1, <3>2, <4>1
    <3> QED BY <3>1, <3>2
  <2> QED BY <1>3, <2>1 DEF SavesIn
<1> QED BY <1>3 DEF SavesIn, new

LEMMA SavesPut ==
    ASSUME NEW n \in Nets, NEW k \in Queues, NEW m \in Mails, NEW v, SavesIn(n, v),
           m.type \in SaveTypes => m.bank <= v
    PROVE  SavesIn(Put(n, k, m), v)
<1> DEFINE new == Put(n, k, m)
<1>1. /\ Len(new[k]) = Len(n[k]) + 1 /\ new[k][Len(n[k]) + 1] = m
      /\ \A j \in 1..Len(n[k]) : new[k][j] = n[k][j]
      /\ \A j \in Queues : j # k => new[j] = n[j]
  BY PutFact
<1>2. Len(n[k]) \in Nat
  BY NetFact
<1> HIDE DEF new
<1>3. ASSUME NEW j \in Queues, NEW h \in 1..Len(new[j]), new[j][h].type \in SaveTypes
      PROVE  new[j][h].bank <= v
  <2>1. CASE j = k /\ h = Len(n[k]) + 1
    BY <1>1, <1>3, <2>1
  <2>2. CASE ~(j = k /\ h = Len(n[k]) + 1)
    <3>1. h \in 1..Len(n[j]) /\ new[j][h] = n[j][h]
      BY <1>1, <1>2, <2>2
    <3> QED BY <1>3, <3>1 DEF SavesIn
  <2> QED BY <2>1, <2>2
<1> QED BY <1>3 DEF SavesIn, new

LEMMA SortedGone ==
    ASSUME NEW n \in Nets, NEW k \in Queues, NEW i \in 1..Len(n[k]), Sorted(n)
    PROVE  Sorted(Gone(n, k, i))
<1> DEFINE new == Gone(n, k, i)
<1>1. /\ Len(new[k]) = Len(n[k]) - 1
      /\ \A j \in 1..(Len(n[k]) - 1) : new[k][j] = n[k][IF j < i THEN j ELSE j + 1]
      /\ \A j \in Queues : j # k => new[j] = n[j]
  BY GoneFact
<1>2. Len(n[k]) \in Nat
  BY NetFact
<1> HIDE DEF new
<1>3. ASSUME NEW j \in Queues, NEW h \in 1..Len(new[j]) PROVE new[j][h].type \in Carried(j)
  <2>1. PICK g \in 1..Len(n[j]) : new[j][h] = n[j][g]
    <3>1. CASE j # k
      BY <1>1, <3>1
    <3>2. CASE j = k
      <4>1. h \in 1..(Len(n[k]) - 1) /\ (IF h < i THEN h ELSE h + 1) \in 1..Len(n[k])
        BY <1>1, <1>2, <3>2
      <4> QED BY <1>1, <3>2, <4>1
    <3> QED BY <3>1, <3>2
  <2> QED BY <2>1 DEF Sorted
<1> QED BY <1>3 DEF Sorted, new

LEMMA SortedPut ==
    ASSUME NEW n \in Nets, NEW k \in Queues, NEW m \in Mails, Sorted(n), m.type \in Carried(k)
    PROVE  Sorted(Put(n, k, m))
<1> DEFINE new == Put(n, k, m)
<1>1. /\ Len(new[k]) = Len(n[k]) + 1 /\ new[k][Len(n[k]) + 1] = m
      /\ \A j \in 1..Len(n[k]) : new[k][j] = n[k][j]
      /\ \A j \in Queues : j # k => new[j] = n[j]
  BY PutFact
<1>2. Len(n[k]) \in Nat
  BY NetFact
<1> HIDE DEF new
<1>3. ASSUME NEW j \in Queues, NEW h \in 1..Len(new[j]) PROVE new[j][h].type \in Carried(j)
  <2>1. CASE j = k /\ h = Len(n[k]) + 1
    BY <1>1, <2>1
  <2>2. CASE ~(j = k /\ h = Len(n[k]) + 1)
    <3>1. h \in 1..Len(n[j]) /\ new[j][h] = n[j][h]
      BY <1>1, <1>2, <2>2
    <3> QED BY <3>1 DEF Sorted
  <2> QED BY <2>1, <2>2
<1> QED BY <1>3 DEF Sorted, new

LEMMA OrdersFact ==
    ASSUME NEW ord, ord \subseteq Recharged
    PROVE  IsFiniteSet(ord) /\ Cardinality(ord) \in Nat
<1>1. IsFiniteSet(Recharged)
  BY PlayersFinite, FS_Subset, MoneyAssumption DEF MoneyAssumption
<1> QED BY <1>1, FS_Subset, FS_CardinalityType

LEMMA RowsKept ==
    ASSUME NEW n \in Nets, NEW n2 \in Nets, NEW b \in [Players -> Nat], NEW tr \in Nat,
           Rows(n, b, tr), Count(n2, Moving) <= Count(n, Moving), SavesIn(n2, AtStart)
    PROVE  Rows(n2, b, tr)
<1>1. Count(n, Moving) \in Nat /\ Count(n2, Moving) \in Nat /\ AtStart \in Nat
  BY CountFact, StartFact
<1>2. Count(n2, Moving) <= tr
  BY <1>1, RowsParts
<1>3. ASSUME NEW p \in Players PROVE b[p] + Count(n2, Moving) <= AtStart + tr
  <2>1. b[p] + Count(n, Moving) <= AtStart + tr /\ b[p] \in Nat
    BY RowsParts
  <2> QED BY <1>1, <2>1
<1> QED BY <1>2, <1>3, RowsParts

\* A step after which every player has the balances he had.
LEMMA GoodKept ==
    ASSUME NEW o, NEW n, NEW b, NEW ord, NEW tr \in Nat, Good(o, n, b, ord, tr),
           NEW o2, NEW n2, NEW b2, Typed(o2, n2, b2, ord),
           \A p \in Players : Control(o2, n2, ord, p),
           \A p \in Players : \A R : Worth(o, n, b, p, R) => Worth(o2, n2, b2, p, R),
           Count(n2, Moving) <= Count(n, Moving), Rows(n2, b2, tr)
    PROVE  Good(o2, n2, b2, ord, tr)
<1>1. PICK lo, hi \in [Players -> Nat] : Bounded(o, n, b, ord, tr, lo, hi)
  BY DEF Good
<1>2. n \in Nets /\ n2 \in Nets /\ ord \subseteq Recharged
  BY DEF Good, Typed
<1>3. Count(n, Moving) \in Nat /\ Count(n2, Moving) \in Nat /\ AtStart \in Nat
  BY <1>2, CountFact, StartFact
<1>4. Total(hi) \in Nat /\ Cardinality(ord) \in Nat
  BY <1>2, SumType, OrdersFact
<1>5. Total(hi) + Cardinality(ord) + Count(n2, Moving) <= AtStart
  <2>1. Total(hi) + Cardinality(ord) + Count(n, Moving) <= AtStart
    BY <1>1 DEF Bounded
  <2> QED BY <1>3, <1>4, <2>1
<1>6. Bounded(o2, n2, b2, ord, tr, lo, hi)
  BY <1>1, <1>5 DEF Bounded
<1> QED BY <1>6 DEF Good

LEMMA GoodType ==
    ASSUME NEW o, NEW n, NEW b, NEW ord, NEW tr, Good(o, n, b, ord, tr)
    PROVE  /\ o \in [Servers -> [Players -> Objects \union {None}]] /\ n \in Nets /\ Sorted(n)
           /\ b \in [Players -> Nat] /\ ord \subseteq Recharged
           /\ SavesIn(n, AtStart) /\ Rows(n, b, tr)
           /\ \A p \in Players : Control(o, n, ord, p)
BY RowsParts DEF Good, Typed

\* A message is gone.
LEMMA GoodGone ==
    ASSUME NEW o, NEW n, NEW b, NEW ord, NEW tr \in Nat, Good(o, n, b, ord, tr),
           NEW k \in Queues, NEW i \in 1..Len(n[k]), n[k][i].type \notin SaveTypes
    PROVE  Good(o, Gone(n, k, i), b, ord, tr)
<1> DEFINE n2 == Gone(n, k, i)
<1>1. n \in Nets /\ Sorted(n) /\ b \in [Players -> Nat] /\ SavesIn(n, AtStart) /\ Rows(n, b, tr)
  BY GoodType
<1>2. n2 \in Nets /\ Sorted(n2) /\ SavesIn(n2, AtStart) /\ Count(n2, Moving) <= Count(n, Moving)
  BY <1>1, GoneFact, SortedGone, SavesGone, CountGone
<1>3. \A p : n[k][i] \notin Save(p)
  BY <1>1, NetFact, SaveFact
<1>4. ASSUME NEW p \in Players PROVE Control(o, n2, ord, p)
  <2>1. Less(n, n2, o, ord, p)
    BY <1>1, LessGone
  <2>2. Control(o, n, ord, p)
    BY GoodType
  <2> HIDE DEF n2
  <2> QED BY <1>1, <1>2, <2>1, <2>2, ControlLess
<1>5. \A p : \A R : Worth(o, n, b, p, R) => Worth(o, n2, b, p, R)
  BY <1>1, <1>3, WorthGone
<1>6. Typed(o, n2, b, ord)
  BY <1>2, GoodType DEF Typed
<1> HIDE DEF n2
<1>7. Rows(n2, b, tr)
  BY <1>1, <1>2, RowsKept
<1>8. Good(o, n2, b, ord, tr)
  BY <1>2, <1>4, <1>5, <1>6, <1>7, GoodKept
<1> QED BY <1>8 DEF n2

\* A message is answered by another one.
LEMMA GoodMove ==
    ASSUME NEW o, NEW n, NEW b, NEW ord, NEW tr \in Nat, Good(o, n, b, ord, tr),
           NEW k \in Queues, NEW i \in 1..Len(n[k]), n[k][i].type \notin SaveTypes,
           NEW l \in Queues, NEW m \in Mails, m.type \in Carried(l), m.type \notin SaveTypes,
           m \in Moving => n[k][i] \in Moving,
           \A p \in Players : \A C \in Kinds(o, ord, p) : m \in C => n[k][i] \in C,
           \A p \in Players : \A R : m \in Carries(p) /\ Worth(o, n, b, p, R)
             => m.bank \in R \union {NotLoaded}
    PROVE  Good(o, Put(Gone(n, k, i), l, m), b, ord, tr)
<1> DEFINE n1 == Gone(n, k, i)
           n2 == Put(n1, l, m)
<1>1. n \in Nets /\ Sorted(n) /\ b \in [Players -> Nat] /\ SavesIn(n, AtStart) /\ Rows(n, b, tr)
  BY GoodType
<1>2. n1 \in Nets /\ Sorted(n1) /\ SavesIn(n1, AtStart)
  BY <1>1, GoneFact, SortedGone, SavesGone
<1>3. n2 \in Nets /\ Sorted(n2) /\ SavesIn(n2, AtStart)
  <2> HIDE DEF n1
  <2> QED BY <1>2, PutFact, SortedPut, SavesPut
<1>4. Count(n2, Moving) <= Count(n, Moving)
  BY <1>1, CountMove
<1>5. (\A p : n[k][i] \notin Save(p)) /\ \A p : m \notin Save(p)
  BY <1>1, NetFact, SaveFact
<1>6. ASSUME NEW p \in Players PROVE Control(o, n2, ord, p)
  <2>1. Less(n, n2, o, ord, p)
    BY <1>1, <1>5, LessMove
  <2>2. Control(o, n, ord, p)
    BY GoodType
  <2> HIDE DEF n2
  <2> QED BY <1>1, <1>3, <2>1, <2>2, ControlLess
<1>7. ASSUME NEW p \in Players, NEW R, Worth(o, n, b, p, R) PROVE Worth(o, n2, b, p, R)
  <2>1. Worth(o, n1, b, p, R)
    BY <1>1, <1>5, <1>7, WorthGone
  <2> HIDE DEF n1
  <2> QED BY <1>2, <1>5, <1>7, <2>1, WorthPut
<1>8. Typed(o, n2, b, ord)
  BY <1>3, GoodType DEF Typed
<1> HIDE DEF n2, n1
<1>9. Rows(n2, b, tr)
  BY <1>1, <1>3, <1>4, RowsKept
<1>10. Good(o, n2, b, ord, tr)
  BY <1>3, <1>4, <1>6, <1>7, <1>8, <1>9, GoodKept
<1> QED BY <1>10 DEF n2, n1

\* A notice for Redis is sent.
LEMMA GoodNotice ==
    ASSUME NEW o, NEW n, NEW b, NEW ord, NEW tr \in Nat, Good(o, n, b, ord, tr),
           NEW k \in Queues, NEW m \in Notices, m.type \in Carried(k)
    PROVE  Good(o, Put(n, k, m), b, ord, tr)
<1> DEFINE n2 == Put(n, k, m)
<1>1. n \in Nets /\ Sorted(n) /\ b \in [Players -> Nat] /\ SavesIn(n, AtStart) /\ Rows(n, b, tr)
  BY GoodType
<1>2. m \in Mails /\ m.type = "redis"
  BY MailsFact DEF Notices
<1>3. /\ m.type \notin SaveTypes /\ m \notin Moving /\ \A p : Others(m, p) /\ m \notin Carries(p)
      /\ \A p : m \notin Save(p)
  BY <1>2 DEF SaveTypes, Moving, Others, Carries, Of, Save
<1>4. n2 \in Nets /\ Sorted(n2) /\ SavesIn(n2, AtStart) /\ Count(n2, Moving) <= Count(n, Moving)
  BY <1>1, <1>2, <1>3, PutFact, SortedPut, SavesPut, CountPut
<1>5. ASSUME NEW p \in Players PROVE Control(o, n2, ord, p)
  <2>1. Less(n, n2, o, ord, p)
    BY <1>1, <1>2, <1>3, LessPut
  <2>2. Control(o, n, ord, p)
    BY GoodType
  <2> HIDE DEF n2
  <2> QED BY <1>1, <1>4, <2>1, <2>2, ControlLess
<1>6. \A p : \A R : Worth(o, n, b, p, R) => Worth(o, n2, b, p, R)
  BY <1>1, <1>2, <1>3, WorthPut
<1>7. Typed(o, n2, b, ord)
  BY <1>4, GoodType DEF Typed
<1> HIDE DEF n2
<1>8. Rows(n2, b, tr)
  BY <1>1, <1>4, RowsKept
<1>9. Good(o, n2, b, ord, tr)
  BY <1>4, <1>5, <1>6, <1>7, <1>8, GoodKept
<1> QED BY <1>9 DEF n2

-----------------------------------------------------------------------------
(* Steps of one player *)

\* A step that is about one player and keeps his balances.
LEMMA GoodPlayer ==
    ASSUME NEW o, NEW n, NEW b, NEW ord, NEW tr \in Nat, Good(o, n, b, ord, tr),
           NEW p \in Players, NEW o2 \in [Servers -> [Players -> Objects \union {None}]],
           \A s \in Servers : \A q \in Players \ {p} : o2[s][q] = o[s][q],
           NEW n2 \in Nets, Sorted(n2), SavesIn(n2, AtStart), Count(n2, Moving) <= Count(n, Moving),
           \A q \in Players \ {p} : Less(n, n2, o, ord, q),
           \A q \in Players \ {p} : \A R : Worth(o, n, b, q, R) => Worth(o, n2, b, q, R),
           Control(o2, n2, ord, p), \A R : Worth(o, n, b, p, R) => Worth(o2, n2, b, p, R)
    PROVE  Good(o2, n2, b, ord, tr)
<1>1. n \in Nets /\ b \in [Players -> Nat] /\ Rows(n, b, tr)
  BY GoodType
<1>2. ASSUME NEW q \in Players PROVE Control(o2, n2, ord, q)
  <2>1. CASE q = p
    BY <2>1
  <2>2. CASE q # p
    <3>1. Control(o, n, ord, q)
      BY GoodType
    <3>2. Less(n, n2, o, ord, q) /\ \A s \in Servers : o2[s][q] = o[s][q]
      BY <2>2
    <3> QED BY <1>1, <3>1, <3>2, ControlLess
  <2> QED BY <2>1, <2>2
<1>3. ASSUME NEW q \in Players, NEW R, Worth(o, n, b, q, R) PROVE Worth(o2, n2, b, q, R)
  <2>1. CASE q = p
    BY <1>3, <2>1
  <2>2. CASE q # p
    <3>1. Worth(o, n2, b, q, R)
      BY <1>3, <2>2
    <3>2. \A s \in Servers : o2[s][q] = o[s][q]
      BY <2>2
    <3> QED BY <3>1, <3>2, WorthWide
  <2> QED BY <2>1, <2>2
<1>4. Typed(o2, n2, b, ord)
  BY GoodType DEF Typed
<1>5. Rows(n2, b, tr)
  BY <1>1, RowsKept
<1> QED BY <1>2, <1>3, <1>4, <1>5, GoodKept

LEMMA ObjFact ==
    ASSUME NEW o \in [Servers -> [Players -> Objects \union {None}]], NEW s \in Servers,
           NEW p \in Players, NEW x \in Objects \union {None}
    PROVE  /\ [o EXCEPT ![s][p] = x] \in [Servers -> [Players -> Objects \union {None}]]
           /\ [o EXCEPT ![s][p] = x][s][p] = x
           /\ \A t \in Servers \ {s} : [o EXCEPT ![s][p] = x][t][p] = o[t][p]
           /\ \A t \in Servers : \A q \in Players \ {p} : [o EXCEPT ![s][p] = x][t][q] = o[t][q]
OBVIOUS

LEMMA NoneFact == None \notin Servers /\ None \notin Objects
<1>1. None \notin [bank : Int, dirty : BOOLEAN, asked : BOOLEAN] /\ None \notin Servers
  BY MoneyAssumption DEF MoneyAssumption
<1>2. Objects \subseteq [bank : Int, dirty : BOOLEAN, asked : BOOLEAN]
  BY DEF Objects, NotLoaded
<1> QED BY <1>1, <1>2

\* A step that takes a message about a player and changes one object of his.
LEMMA GoodTaken ==
    ASSUME NEW o, NEW n, NEW b, NEW ord, NEW tr \in Nat, Good(o, n, b, ord, tr),
           NEW k \in Queues, NEW i \in 1..Len(n[k]), n[k][i].type \notin SaveTypes,
           NEW s \in Servers, NEW p \in Players, NEW x \in Objects \union {None},
           Control([o EXCEPT ![s][p] = x], Gone(n, k, i), ord, p),
           \A R : Worth(o, n, b, p, R) => Worth([o EXCEPT ![s][p] = x], Gone(n, k, i), b, p, R)
    PROVE  Good([o EXCEPT ![s][p] = x], Gone(n, k, i), b, ord, tr)
<1> DEFINE n2 == Gone(n, k, i)
           o2 == [o EXCEPT ![s][p] = x]
<1>1. /\ n \in Nets /\ Sorted(n) /\ SavesIn(n, AtStart)
      /\ o \in [Servers -> [Players -> Objects \union {None}]]
  BY GoodType
<1>2. n2 \in Nets /\ Sorted(n2) /\ SavesIn(n2, AtStart) /\ Count(n2, Moving) <= Count(n, Moving)
  BY <1>1, GoneFact, SortedGone, SavesGone, CountGone
<1>3. \A q : n[k][i] \notin Save(q)
  BY <1>1, NetFact, SaveFact
<1>4. \A q \in Players \ {p} : Less(n, n2, o, ord, q)
  BY <1>1, LessGone
<1>5. \A q \in Players \ {p} : \A R : Worth(o, n, b, q, R) => Worth(o, n2, b, q, R)
  BY <1>1, <1>3, WorthGone
<1>6. /\ o2 \in [Servers -> [Players -> Objects \union {None}]]
      /\ \A t \in Servers : \A q \in Players \ {p} : o2[t][q] = o[t][q]
  BY <1>1, ObjFact
<1>7. Control(o2, n2, ord, p) /\ \A R : Worth(o, n, b, p, R) => Worth(o2, n2, b, p, R)
  OBVIOUS
<1> HIDE DEF n2, o2
<1>8. Good(o2, n2, b, ord, tr)
  BY <1>2, <1>4, <1>5, <1>6, <1>7, GoodPlayer
<1> QED BY <1>8 DEF n2, o2

\* A step that sends a message about a player and changes one object of his.
LEMMA GoodSent ==
    ASSUME NEW o, NEW n, NEW b, NEW ord, NEW tr \in Nat, Good(o, n, b, ord, tr),
           NEW k \in Queues, NEW p \in Players, NEW m \in Mails, m.p = p, m.type \in Carried(k),
           m.type \notin SaveTypes, m \notin Moving,
           NEW s \in Servers, NEW x \in Objects \union {None},
           Control([o EXCEPT ![s][p] = x], Put(n, k, m), ord, p),
           \A R : Worth(o, n, b, p, R) => Worth([o EXCEPT ![s][p] = x], Put(n, k, m), b, p, R)
    PROVE  Good([o EXCEPT ![s][p] = x], Put(n, k, m), b, ord, tr)
<1> DEFINE n2 == Put(n, k, m)
           o2 == [o EXCEPT ![s][p] = x]
<1>1. /\ n \in Nets /\ Sorted(n) /\ SavesIn(n, AtStart)
      /\ o \in [Servers -> [Players -> Objects \union {None}]]
  BY GoodType
<1>2. n2 \in Nets /\ Sorted(n2) /\ SavesIn(n2, AtStart) /\ Count(n2, Moving) <= Count(n, Moving)
  BY <1>1, PutFact, SortedPut, SavesPut, CountPut
<1>3. /\ \A q : m \notin Save(q)
      /\ \A q \in Players \ {p} : m \notin Carries(q) /\ Others(m, q)
  BY SaveFact DEF Carries, Of, Others
<1>4. \A q \in Players \ {p} : Less(n, n2, o, ord, q)
  BY <1>1, <1>3, LessPut
<1>5. \A q \in Players \ {p} : \A R : Worth(o, n, b, q, R) => Worth(o, n2, b, q, R)
  BY <1>1, <1>3, WorthPut
<1>6. /\ o2 \in [Servers -> [Players -> Objects \union {None}]]
      /\ \A t \in Servers : \A q \in Players \ {p} : o2[t][q] = o[t][q]
  BY <1>1, ObjFact
<1>7. Control(o2, n2, ord, p) /\ \A R : Worth(o, n, b, p, R) => Worth(o2, n2, b, p, R)
  OBVIOUS
<1> HIDE DEF n2, o2
<1>8. Good(o2, n2, b, ord, tr)
  BY <1>2, <1>4, <1>5, <1>6, <1>7, GoodPlayer
<1> QED BY <1>8 DEF n2, o2

\* The object of a player is dropped.
LEMMA GoodDrop ==
    ASSUME NEW o, NEW n, NEW b, NEW ord, NEW tr \in Nat, Good(o, n, b, ord, tr),
           NEW s \in Servers, NEW p \in Players, o[s][p] # None, ~o[s][p].dirty
    PROVE  /\ Good([o EXCEPT ![s][p] = None], n, b, ord, tr)
           /\ Absent([o EXCEPT ![s][p] = None], p)
<1> DEFINE o2 == [o EXCEPT ![s][p] = None]
<1>1. /\ n \in Nets /\ Sorted(n) /\ SavesIn(n, AtStart)
      /\ o \in [Servers -> [Players -> Objects \union {None}]] /\ Control(o, n, ord, p)
  BY GoodType
<1>2. /\ o2 \in [Servers -> [Players -> Objects \union {None}]]
      /\ \A t \in Servers : \A q \in Players \ {p} : o2[t][q] = o[t][q]
      /\ o2[s][p] = None /\ \A t \in Servers \ {s} : o2[t][p] = o[t][p]
  BY <1>1, ObjFact
<1>3. \A t \in Servers : o[t][p] # None => t = s
  BY <1>1 DEF Control
<1> HIDE DEF o2
<1>4. \A t \in Servers : o2[t][p] = None
  BY <1>2, <1>3
<1>5. Control(o2, n, ord, p)
  BY <1>1, <1>4 DEF Control, Absent
<1>6. ASSUME NEW R, Worth(o, n, b, p, R) PROVE Worth(o2, n, b, p, R)
  <2>1. \A t \in Servers : o[t][p] # None => ~o[t][p].dirty
    BY <1>3
  <2> QED BY <1>4, <1>6, <2>1, WorthParts
<1>7. \A q : Less(n, n, o, ord, q)
  BY <1>1, LessSame
<1>8. Count(n, Moving) <= Count(n, Moving)
  <2>1. Count(n, Moving) \in Nat
    BY <1>1, CountFact
  <2> QED BY <2>1
<1>9. Good(o2, n, b, ord, tr)
  BY <1>1, <1>2, <1>5, <1>6, <1>7, <1>8, GoodPlayer
<1> QED BY <1>4, <1>9 DEF o2, Absent

-----------------------------------------------------------------------------
(* Coming, going, loading *)

LEMMA FreeFact ==
    ASSUME NEW n \in Nets, NEW k \in Queues, NEW i \in 1..Len(n[k]), NEW C
    PROVE  /\ Free(n, C) => n[k][i] \notin C
           /\ Free(n, C) => Free(Gone(n, k, i), C)
           /\ n[k][i] \in C /\ Count(n, C) <= 1 => Free(Gone(n, k, i), C)
<1>1. Gone(n, k, i) \in Nets
  BY GoneFact
<1>2. /\ Free(n, C) <=> Count(n, C) = 0
      /\ Free(n, C) <=> \A j \in Queues : \A h \in 1..Len(n[j]) : n[j][h] \notin C
      /\ Count(n, C) \in Nat
  BY CountFact
<1>3. /\ Free(Gone(n, k, i), C) <=> Count(Gone(n, k, i), C) = 0
      /\ Count(Gone(n, k, i), C) \in Nat
  BY <1>1, CountFact
<1>4. /\ Count(Gone(n, k, i), C) <= Count(n, C)
      /\ n[k][i] \in C => Count(Gone(n, k, i), C) <= Count(n, C) - 1
  BY CountGone
<1> QED BY <1>2, <1>3, <1>4

LEMMA FreeSub ==
    ASSUME NEW n \in Nets, NEW C, NEW D, D \subseteq C, Free(n, C)
    PROVE  Free(n, D)
BY CountFact

LEMMA KindFact ==
    ASSUME NEW p
    PROVE  /\ Between(p) \subseteq Change(p) /\ Unread(p) \subseteq Load(p) /\ Mark(p) \subseteq Load(p)
BY DEF Between, Change, Unread, Load, Mark, Of

LEMMA FreeCount ==
    ASSUME NEW n \in Nets, NEW C, Free(n, C)
    PROVE  Count(n, C) = 0 /\ Count(n, C) <= 1
<1>1. Count(n, C) = 0
  BY CountFact
<1> QED BY <1>1

LEMMA LinkAll ==
    ASSUME NEW n \in Nets, NEW p, Free(n, Save(p))
    PROVE  \A s \in Servers : LinkFree(n, s, p)
<1>1. \A s \in Servers : <<s, Db>> \in Queues
  BY LinkFact, QueueFact
<1>2. \A k \in Queues : \A i \in 1..Len(n[k]) : n[k][i] \notin Save(p)
  BY CountFact
<1> QED BY <1>1, <1>2 DEF LinkFree

\* The first object of a session: LS_LoginNotify, or SS_ChangeGame at the next server.
LEMMA GoodEnter ==
    ASSUME NEW o, NEW n, NEW b, NEW ord, NEW tr \in Nat, Good(o, n, b, ord, tr),
           NEW s \in Servers, NEW p \in Players,
           NEW k \in Queues, NEW i \in 1..Len(n[k]), n[k][i] \in Note(p) \union Between(p),
           Free(n, Load(p)), Free(n, Save(p)), NEW x \in Objects, ~x.dirty,
           \A R : Worth(o, n, b, p, R) => x.bank \in R \union {NotLoaded}
    PROVE  Good([o EXCEPT ![s][p] = x], Gone(n, k, i), b, ord, tr)
<1> DEFINE n2 == Gone(n, k, i)
           o2 == [o EXCEPT ![s][p] = x]
<1>1. /\ n \in Nets /\ Control(o, n, ord, p)
      /\ o \in [Servers -> [Players -> Objects \union {None}]]
  BY GoodType
<1>2. n2 \in Nets
  BY <1>1, GoneFact
<1>3. Between(p) \subseteq Change(p) /\ Unread(p) \subseteq Load(p) /\ Mark(p) \subseteq Load(p)
  BY KindFact
<1>4. /\ \A C : Free(n, C) => n[k][i] \notin C
      /\ \A C : Free(n, C) => Free(n2, C)
      /\ \A C : n[k][i] \in C /\ Count(n, C) <= 1 => Free(n2, C)
  BY <1>1, FreeFact
<1>5. Absent(o, p)
  BY <1>1, <1>4 DEF Control
<1>6. Free(n2, Note(p)) /\ Free(n2, Change(p))
  BY <1>1, <1>3, <1>4 DEF Control
<1>7. Free(n2, Load(p)) /\ Free(n2, Save(p))
  BY <1>4
<1>8. /\ o2[s][p] = x /\ \A t \in Servers \ {s} : o2[t][p] = None
      /\ x # None
  BY <1>1, <1>5, ObjFact, NoneFact DEF Absent
<1>9. n[k][i].type \notin SaveTypes
  BY DEF Note, Between, Of, SaveTypes
<1> HIDE DEF n2, o2
<1>10. Free(n2, Between(p)) /\ Free(n2, Unread(p)) /\ Free(n2, Mark(p))
  BY <1>2, <1>3, <1>6, <1>7, FreeSub
<1>11. Count(n2, Note(p)) <= 1 /\ Count(n2, Change(p)) <= 1 /\ Count(n2, Load(p)) <= 1
  BY <1>2, <1>6, <1>7, FreeCount
<1>12. \A t \in Servers : LinkFree(n2, t, p)
  BY <1>2, <1>7, LinkAll
<1>13. \A t \in Servers : o2[t][p] # None => t = s
  BY <1>8
<1>14. Control(o2, n2, ord, p)
  BY <1>6, <1>7, <1>8, <1>10, <1>11, <1>12, <1>13 DEF Control
<1>15. ASSUME NEW R, Worth(o, n, b, p, R) PROVE Worth(o2, n2, b, p, R)
  <2>1. n[k][i] \notin Save(p)
    BY <1>1, <1>9, NetFact, SaveFact
  <2>2. Worth(o, n2, b, p, R)
    BY <1>1, <1>15, <2>1, WorthGone DEF n2
  <2>3. FinalIn(n2, b, p, R) /\ CarriedIn(n2, p, R)
    BY <1>5, <2>2, WorthParts DEF Absent
  <2>4. \A t \in Servers : o2[t][p] # None => o2[t][p].bank \in R \union {NotLoaded}
    BY <1>8, <1>13, <1>15
  <2> QED BY <2>3, <2>4, WorthParts
<1> QED BY <1>9, <1>14, <1>15, GoodTaken DEF n2, o2

\* What was loaded arrives.
LEMMA GoodLoaded ==
    ASSUME NEW o, NEW n, NEW b, NEW ord, NEW tr \in Nat, Good(o, n, b, ord, tr),
           NEW s \in Servers, NEW p \in Players, o[s][p] # None,
           NEW k \in Queues, NEW i \in 1..Len(n[k]),
           n[k][i].type = "DS_LoadPlayerData", n[k][i].p = p
    PROVE  Good([o EXCEPT ![s][p] = [@ EXCEPT !.bank = n[k][i].bank, !.asked = FALSE]],
                Gone(n, k, i), b, ord, tr)
<1> DEFINE n2 == Gone(n, k, i)
           m == n[k][i]
           x == [o[s][p] EXCEPT !.bank = m.bank, !.asked = FALSE]
           o2 == [o EXCEPT ![s][p] = x]
<1>1. /\ n \in Nets /\ Control(o, n, ord, p)
      /\ o \in [Servers -> [Players -> Objects \union {None}]]
  BY GoodType
<1>2. n2 \in Nets /\ m \in Mails
  BY <1>1, GoneFact, NetFact
<1>3. m.bank \in Nat /\ m \in Load(p) /\ m \in Carries(p) /\ m.type \notin SaveTypes
  BY <1>2, HeldFact DEF Values, Load, Carries, Of, SaveTypes
<1>4. o[s][p] \in Objects
  BY <1>1
<1>5. x \in Objects /\ x.bank = m.bank /\ x.dirty = o[s][p].dirty /\ ~x.asked
  BY <1>3, <1>4 DEF Objects
<1> HIDE DEF x
<1>6. Between(p) \subseteq Change(p) /\ Unread(p) \subseteq Load(p) /\ Mark(p) \subseteq Load(p)
  BY KindFact
<1>7. /\ \A C : Free(n, C) => n[k][i] \notin C
      /\ \A C : Free(n, C) => Free(n2, C)
      /\ \A C : n[k][i] \in C /\ Count(n, C) <= 1 => Free(n2, C)
  BY <1>1, FreeFact
<1> HIDE DEF m
<1>8. Free(n2, Load(p)) /\ Free(n2, Change(p)) /\ Free(n2, Note(p))
  BY <1>1, <1>3, <1>7 DEF Control, m, Absent
<1>9. /\ o2[s][p] = x /\ \A t \in Servers \ {s} : o2[t][p] = None
      /\ x # None
  <2>1. \A t \in Servers \ {s} : o[t][p] = None
    BY <1>1 DEF Control
  <2> QED BY <1>1, <1>5, <2>1, ObjFact, NoneFact
<1> HIDE DEF n2, o2
<1>10. Free(n2, Between(p)) /\ Free(n2, Unread(p)) /\ Free(n2, Mark(p))
  BY <1>2, <1>6, <1>8, FreeSub
<1>11. Count(n2, Note(p)) <= 1 /\ Count(n2, Change(p)) <= 1 /\ Count(n2, Load(p)) <= 1
  BY <1>2, <1>8, FreeCount
<1>12. \A t \in Servers \ {s} : LinkFree(n2, t, p)
  BY <1>1, LinkGone DEF Control, n2
<1>13. \A t \in Servers : o2[t][p] # None => t = s
  BY <1>9
<1>14. x.bank # NotLoaded
  BY <1>3, <1>5 DEF NotLoaded
<1>15. Control(o2, n2, ord, p)
  BY <1>8, <1>9, <1>10, <1>11, <1>12, <1>13, <1>14 DEF Control
<1>16. ASSUME NEW R, Worth(o, n, b, p, R) PROVE Worth(o2, n2, b, p, R)
  <2>1. n[k][i] \notin Save(p)
    BY <1>1, <1>3, NetFact, SaveFact DEF m
  <2>2. Worth(o, n2, b, p, R)
    BY <1>1, <1>16, <2>1, WorthGone DEF n2
  <2>3. CarriedIn(n, p, R)
    BY <1>16, WorthParts
  <2>4. x.bank \in R \union {NotLoaded}
    BY <1>3, <1>5, <2>3 DEF CarriedIn, m
  <2>5. \A t \in Servers : o2[t][p] # None => o2[t][p].bank \in R \union {NotLoaded}
    BY <1>9, <1>13, <2>4
  <2>6. (\A t \in Servers : o2[t][p] # None => ~o2[t][p].dirty)
          => \A t \in Servers : o[t][p] # None => ~o[t][p].dirty
    BY <1>1, <1>5, <1>9 DEF Control
  <2> QED BY <2>2, <2>5, <2>6, WorthParts
<1>17. Good(o2, n2, b, ord, tr)
  BY <1>3, <1>5, <1>15, <1>16, GoodTaken DEF n2, o2, m
<1> QED BY <1>17 DEF n2, o2, m, x

\* A message is sent: what there is of a player then.
LEMMA SentFact ==
    ASSUME NEW n \in Nets, NEW k \in Queues, NEW m \in Mails
    PROVE  /\ Put(n, k, m) \in Nets
           /\ \A C : Free(Put(n, k, m), C) <=> Free(n, C) /\ m \notin C
           /\ \A C : Free(n, C) => Count(Put(n, k, m), C) <= 1
           /\ \A C : m \notin C /\ Count(n, C) <= 1 => Count(Put(n, k, m), C) <= 1
<1>1. Put(n, k, m) \in Nets
  BY PutFact
<1>2. ASSUME NEW C PROVE /\ Free(n, C) => Count(Put(n, k, m), C) <= 1
                         /\ m \notin C /\ Count(n, C) <= 1 => Count(Put(n, k, m), C) <= 1
  <2>1. /\ Count(Put(n, k, m), C) <= Count(n, C) + 1
        /\ m \notin C => Count(Put(n, k, m), C) <= Count(n, C)
    BY CountPut
  <2>2. Count(Put(n, k, m), C) \in Nat /\ Count(n, C) \in Nat /\ (Free(n, C) <=> Count(n, C) = 0)
    BY <1>1, CountFact
  <2> QED BY <2>1, <2>2
<1> QED BY <1>1, <1>2, FreePut

\* LS_LoginNotify is sent.
LEMMA GoodLetIn ==
    ASSUME NEW o, NEW n, NEW b, NEW ord, NEW tr \in Nat, Good(o, n, b, ord, tr),
           NEW s \in Servers, NEW p \in Players,
           Absent(o, p), Free(n, Note(p)), Free(n, Change(p))
    PROVE  Good(o, Put(n, <<Login, s>>, LoginNotify(p)), b, ord, tr)
<1> DEFINE k == <<Login, s>>
           m == LoginNotify(p)
           n2 == Put(n, k, m)
           o2 == [o EXCEPT ![s][p] = o[s][p]]
<1>1. /\ n \in Nets /\ Control(o, n, ord, p)
      /\ o \in [Servers -> [Players -> Objects \union {None}]]
  BY GoodType
<1>2. k \in Queues /\ m \in Mails /\ m.p = p /\ m.type = "LS_LoginNotify"
  BY LinkFact, QueueFact, MadeFact, MailsFact
<1>3. m.type \in Carried(k)
  BY <1>2, LinkFact DEF Carried, Lookups, Found, Pool, Recharges, Login, Db, Redis
<1> HIDE DEF m, k
<1>4. /\ m.type \notin SaveTypes /\ m \notin Moving /\ m \notin Carries(p)
      /\ m \notin Change(p) /\ m \notin Load(p) /\ m \notin Between(p) /\ m \notin Unread(p)
      /\ m \notin Mark(p) /\ m \notin Save(p)
  BY <1>2 DEF SaveTypes, Moving, Carries, Change, Load, Between, Unread, Mark, Save, Of
<1>5. /\ n2 \in Nets
      /\ \A C : Free(n2, C) <=> Free(n, C) /\ m \notin C
      /\ \A C : Free(n, C) => Count(n2, C) <= 1
      /\ \A C : m \notin C /\ Count(n, C) <= 1 => Count(n2, C) <= 1
  BY <1>1, <1>2, SentFact
<1>6. o2 = o /\ o[s][p] \in Objects \union {None}
  BY <1>1
<1>7. \A t \in Servers : LinkFree(n, t, p) => LinkFree(n2, t, p)
  BY <1>1, <1>2, <1>4, LinkPut
<1> HIDE DEF n2
<1>8. Control(o, n2, ord, p)
  BY <1>1, <1>4, <1>5, <1>7 DEF Control, Absent
<1>9. \A R : Worth(o, n, b, p, R) => Worth(o, n2, b, p, R)
  BY <1>1, <1>2, <1>4, WorthPut DEF n2
<1>10. Good(o2, n2, b, ord, tr)
  BY <1>2, <1>3, <1>4, <1>6, <1>8, <1>9, GoodSent DEF n2
<1> QED BY <1>6, <1>10 DEF n2, k, m

\* A load is asked for.
LEMMA GoodRequest ==
    ASSUME NEW o, NEW n, NEW b, NEW ord, NEW tr \in Nat, Good(o, n, b, ord, tr),
           NEW s \in Servers, NEW p \in Players, o[s][p] # None, ~o[s][p].asked,
           o[s][p].bank = NotLoaded, Free(n, Change(p))
    PROVE  Good([o EXCEPT ![s][p] = [@ EXCEPT !.asked = TRUE]], Put(n, <<s, Db>>, QueryMsg(p)),
                b, ord, tr)
<1> DEFINE k == <<s, Db>>
           m == QueryMsg(p)
           n2 == Put(n, k, m)
           x == [o[s][p] EXCEPT !.asked = TRUE]
           o2 == [o EXCEPT ![s][p] = x]
<1>1. /\ n \in Nets /\ Control(o, n, ord, p)
      /\ o \in [Servers -> [Players -> Objects \union {None}]]
  BY GoodType
<1>2. k \in Queues /\ m \in Mails /\ m.p = p /\ m.type = "SD_QueryPlayerData"
  BY LinkFact, QueueFact, MadeFact, MailsFact
<1>3. m.type \in Carried(k)
  BY <1>2, LinkFact DEF Carried, Lookups, Found, Pool, Recharges, Login, Db, Redis
<1> HIDE DEF m, k
<1>4. /\ m.type \notin SaveTypes /\ m \notin Moving /\ m \notin Carries(p)
      /\ m \notin Change(p) /\ m \notin Note(p) /\ m \notin Between(p)
      /\ m \notin Mark(p) /\ m \notin Save(p)
  BY <1>2 DEF SaveTypes, Moving, Carries, Change, Note, Between, Mark, Save, Of
<1>5. /\ n2 \in Nets
      /\ \A C : Free(n2, C) <=> Free(n, C) /\ m \notin C
      /\ \A C : Free(n, C) => Count(n2, C) <= 1
      /\ \A C : m \notin C /\ Count(n, C) <= 1 => Count(n2, C) <= 1
  BY <1>1, <1>2, SentFact
<1>6. \A t \in Servers : LinkFree(n, t, p) => LinkFree(n2, t, p)
  BY <1>1, <1>2, <1>4, LinkPut
<1>7. x \in Objects /\ x.bank = NotLoaded /\ x.dirty = o[s][p].dirty /\ x.asked
  <2>1. o[s][p] \in Objects
    BY <1>1
  <2> QED BY <2>1 DEF Objects
<1> HIDE DEF x
<1>8. \A t \in Servers \ {s} : o[t][p] = None
  BY <1>1 DEF Control
<1>9. o2[s][p] = x /\ (\A t \in Servers \ {s} : o2[t][p] = None) /\ x # None
  BY <1>1, <1>7, <1>8, ObjFact, NoneFact
<1>10. Free(n, Note(p)) /\ Free(n, Load(p)) /\ Free(n, Save(p)) /\ Free(n, Between(p))
  <2>1. Free(n, Between(p))
    BY <1>1, KindFact, FreeSub
  <2> QED BY <1>1, <2>1 DEF Control, Absent
<1>11. Free(n, Mark(p)) /\ ~x.dirty
  <2>1. Free(n, Mark(p))
    BY <1>1, <1>10, KindFact, FreeSub
  <2> QED BY <1>1, <1>7, <2>1 DEF Control
<1>12. Free(n2, Note(p)) /\ Free(n2, Save(p)) /\ Free(n2, Between(p)) /\ Free(n2, Change(p))
       /\ Free(n2, Mark(p))
  BY <1>4, <1>5, <1>10, <1>11
<1>13. Count(n2, Note(p)) <= 1 /\ Count(n2, Change(p)) <= 1 /\ Count(n2, Load(p)) <= 1
  BY <1>5, <1>10
<1>14. \A t \in Servers : LinkFree(n2, t, p)
  BY <1>5, <1>12, LinkAll
<1> HIDE DEF n2, o2
<1>15. \A t \in Servers : o2[t][p] # None => t = s
  BY <1>9
<1>16. Control(o2, n2, ord, p)
  BY <1>7, <1>9, <1>11, <1>12, <1>13, <1>14, <1>15 DEF Control
<1>17. ASSUME NEW R, Worth(o, n, b, p, R) PROVE Worth(o2, n2, b, p, R)
  <2>1. Worth(o, n2, b, p, R)
    BY <1>1, <1>2, <1>4, <1>17, WorthPut DEF n2
  <2>2. \A t \in Servers : o2[t][p] # None => o2[t][p].bank \in R \union {NotLoaded}
    BY <1>7, <1>9, <1>15
  <2>3. \A t \in Servers : o[t][p] # None => ~o[t][p].dirty
    BY <1>7, <1>8, <1>11
  <2> QED BY <2>1, <2>2, <2>3, WorthParts
<1>18. Good(o2, n2, b, ord, tr)
  BY <1>2, <1>3, <1>4, <1>7, <1>16, <1>17, GoodSent DEF n2, o2
<1> QED BY <1>18 DEF n2, o2, k, m, x

\* A change of the game server is asked for.
LEMMA GoodChange ==
    ASSUME NEW o, NEW n, NEW b, NEW ord, NEW tr \in Nat, Good(o, n, b, ord, tr),
           NEW s \in Servers, NEW t \in Servers, NEW p \in Players, o[s][p] # None, ~o[s][p].asked,
           Free(n, Change(p))
    PROVE  Good(o, Put(n, <<s, Login>>, ChangeMsg("SS_ChangeGame", p, s, t, o[s][p].bank)), b, ord, tr)
<1> DEFINE k == <<s, Login>>
           m == ChangeMsg("SS_ChangeGame", p, s, t, o[s][p].bank)
           n2 == Put(n, k, m)
           o2 == [o EXCEPT ![s][p] = o[s][p]]
<1>1. /\ n \in Nets /\ Control(o, n, ord, p)
      /\ o \in [Servers -> [Players -> Objects \union {None}]]
  BY GoodType
<1>2. k \in Queues /\ m \in Mails /\ m.p = p /\ m.type = "SS_ChangeGame" /\ m.bank = o[s][p].bank
  <2>1. o[s][p].bank \in Nat \union {NotLoaded}
    BY <1>1 DEF Objects
  <2>2. m \in Changes
    BY <2>1 DEF ChangeMsg, Changes
  <2>3. m.p = p /\ m.type = "SS_ChangeGame" /\ m.bank = o[s][p].bank
    BY DEF ChangeMsg
  <2> QED BY <2>2, <2>3, LinkFact, QueueFact, MailsFact
<1>3. m.type \in Carried(k)
  BY <1>2, LinkFact DEF Carried, Lookups, Found, Pool, Recharges, Login, Db, Redis
<1> HIDE DEF m, k
<1>4. /\ m.type \notin SaveTypes /\ m \notin Moving
      /\ m \notin Load(p) /\ m \notin Note(p) /\ m \notin Between(p) /\ m \notin Unread(p)
      /\ m \notin Mark(p) /\ m \notin Save(p)
  BY <1>2 DEF SaveTypes, Moving, Load, Note, Between, Unread, Mark, Save, Of
<1>5. /\ n2 \in Nets
      /\ \A C : Free(n2, C) <=> Free(n, C) /\ m \notin C
      /\ \A C : Free(n, C) => Count(n2, C) <= 1
      /\ \A C : m \notin C /\ Count(n, C) <= 1 => Count(n2, C) <= 1
  BY <1>1, <1>2, SentFact
<1>6. \A u \in Servers : LinkFree(n, u, p) => LinkFree(n2, u, p)
  BY <1>1, <1>2, <1>4, LinkPut
<1>7. o2 = o /\ o[s][p] \in Objects \union {None}
  BY <1>1
<1>8. Free(n, Note(p)) /\ Free(n, Load(p)) /\ Free(n, Between(p))
  <2>1. Free(n, Between(p))
    BY <1>1, KindFact, FreeSub
  <2> QED BY <1>1, <2>1 DEF Control, Absent
<1>9. Free(n, Unread(p)) /\ Free(n, Mark(p))
  BY <1>1, <1>8, KindFact, FreeSub
<1>10. /\ Free(n2, Note(p)) /\ Free(n2, Load(p)) /\ Free(n2, Between(p)) /\ Free(n2, Unread(p))
       /\ Free(n2, Mark(p)) /\ (Free(n, Save(p)) => Free(n2, Save(p)))
       /\ Count(n2, Note(p)) <= 1 /\ Count(n2, Change(p)) <= 1 /\ Count(n2, Load(p)) <= 1
  BY <1>4, <1>5, <1>8, <1>9
<1> HIDE DEF n2
<1>11. Control(o, n2, ord, p)
  BY <1>1, <1>6, <1>10 DEF Control
<1>12. ASSUME NEW R, Worth(o, n, b, p, R) PROVE Worth(o, n2, b, p, R)
  <2>1. m.bank \in R \union {NotLoaded}
    BY <1>2, <1>12, WorthParts
  <2> QED BY <1>1, <1>2, <1>4, <1>12, <2>1, WorthPut DEF n2
<1>13. Good(o2, n2, b, ord, tr)
  BY <1>2, <1>3, <1>4, <1>7, <1>11, <1>12, GoodSent DEF n2
<1> QED BY <1>7, <1>13 DEF n2, k, m

-----------------------------------------------------------------------------
(* Saves that a game server sends *)

LEMMA BankFact ==
    ASSUME NEW o, NEW n, NEW b, NEW ord, NEW tr \in Nat, Good(o, n, b, ord, tr)
    PROVE  /\ \A s \in Servers : \A p \in Players :
                o[s][p] # None => o[s][p].bank = NotLoaded \/ o[s][p].bank \in 0..AtStart
           /\ \A k \in Queues : \A i \in 1..Len(n[k]) : \A p \in Players :
                n[k][i] \in Carries(p) => n[k][i].bank = NotLoaded \/ n[k][i].bank \in 0..AtStart
<1>1. PICK lo, hi \in [Players -> Nat] : Bounded(o, n, b, ord, tr, lo, hi)
  BY DEF Good
<1>2. n \in Nets /\ ord \subseteq Recharged
  BY GoodType
<1>3. Count(n, Moving) \in Nat /\ AtStart \in Nat /\ Total(hi) \in Nat /\ Cardinality(ord) \in Nat
  BY <1>2, CountFact, StartFact, SumType, OrdersFact
<1>4. Total(hi) + Cardinality(ord) + Count(n, Moving) <= AtStart
  BY <1>1 DEF Bounded
<1>5. Total(hi) <= AtStart
  BY <1>3, <1>4
<1>6. ASSUME NEW p \in Players PROVE lo[p] .. hi[p] \subseteq 0..AtStart
  <2>1. hi[p] <= Total(hi) /\ hi[p] \in Nat /\ lo[p] \in Nat
    BY SumPart
  <2> QED BY <1>3, <1>5, <2>1
<1>7. ASSUME NEW p \in Players
      PROVE  /\ \A s \in Servers : o[s][p] # None => o[s][p].bank \in (lo[p] .. hi[p]) \union {NotLoaded}
             /\ CarriedIn(n, p, lo[p] .. hi[p])
  <2>1. Worth(o, n, b, p, lo[p] .. hi[p])
    BY <1>1 DEF Bounded
  <2> QED BY <2>1, WorthParts
<1> QED BY <1>6, <1>7 DEF CarriedIn

LEMMA FreePutAll ==
    ASSUME NEW n \in Nets, NEW k \in Queues, NEW w \in Seq(Mails), NEW C,
           Free(PutAll(n, k, w), C)
    PROVE  Free(n, C)
<1> DEFINE new == PutAll(n, k, w)
<1>1. /\ new \in Nets /\ Len(new[k]) = Len(n[k]) + Len(w)
      /\ \A i \in 1..(Len(n[k]) + Len(w)) :
           new[k][i] = IF i <= Len(n[k]) THEN n[k][i] ELSE w[i - Len(n[k])]
      /\ \A j \in Queues : j # k => new[j] = n[j]
  BY PutAllFact
<1>2. Len(n[k]) \in Nat /\ Len(w) \in Nat
  BY NetFact, LenProperties
<1> HIDE DEF new
<1>3. \A j \in Queues : \A h \in 1..Len(new[j]) : new[j][h] \notin C
  BY <1>1, CountFact DEF new
<1>4. ASSUME NEW j \in Queues, NEW h \in 1..Len(n[j]) PROVE n[j][h] \notin C
  <2>1. h \in 1..Len(new[j]) /\ new[j][h] = n[j][h]
    <3>1. CASE j # k
      BY <1>1, <3>1
    <3>2. CASE j = k
      <4>1. h \in 1..(Len(n[k]) + Len(w)) /\ h <= Len(n[k])
        BY <1>2, <3>2
      <4> QED BY <1>1, <3>2, <4>1
    <3> QED BY <3>1, <3>2
  <2> QED BY <1>3, <2>1
<1> QED BY <1>4, CountFact

\* A link after some messages were sent on it.
LEMMA LinkPutAll ==
    ASSUME NEW n \in Nets, NEW l \in Queues, NEW w \in Seq(Mails), NEW t \in Servers, NEW p
    PROVE  /\ LinkFree(PutAll(n, l, w), t, p) => LinkFree(n, t, p)
           /\ LinkFree(n, t, p) /\ (l = <<t, Db>> => \A i \in 1..Len(w) : w[i] \notin Save(p))
                => LinkFree(PutAll(n, l, w), t, p)
           /\ LinkFree(PutAll(n, l, w), t, p) /\ l = <<t, Db>>
                => \A i \in 1..Len(w) : w[i] \notin Save(p)
<1> DEFINE new == PutAll(n, l, w)
           c == <<t, Db>>
<1>1. /\ Len(new[l]) = Len(n[l]) + Len(w)
      /\ \A i \in 1..(Len(n[l]) + Len(w)) :
           new[l][i] = IF i <= Len(n[l]) THEN n[l][i] ELSE w[i - Len(n[l])]
      /\ \A j \in Queues : j # l => new[j] = n[j]
  BY PutAllFact
<1>2. Len(n[l]) \in Nat /\ Len(w) \in Nat /\ c \in Queues
  BY NetFact, LenProperties, LinkFact, QueueFact
<1>3. LinkFree(new, t, p) <=> \A i \in 1..Len(new[c]) : new[c][i] \notin Save(p)
  BY DEF LinkFree
<1>4. LinkFree(n, t, p) <=> \A i \in 1..Len(n[c]) : n[c][i] \notin Save(p)
  BY DEF LinkFree
<1> HIDE DEF new, c
<1>5. CASE l # c
  BY <1>1, <1>2, <1>3, <1>4, <1>5 DEF new, c
<1>6. CASE l = c
  <2>1. \A i \in 1..Len(n[l]) : i \in 1..Len(new[l]) /\ new[l][i] = n[l][i]
    <3>1. \A i \in 1..Len(n[l]) : i \in 1..(Len(n[l]) + Len(w)) /\ i <= Len(n[l])
      BY <1>2
    <3> QED BY <1>1, <3>1
  <2>2. ASSUME NEW i \in 1..Len(w)
        PROVE  Len(n[l]) + i \in 1..Len(new[l]) /\ new[l][Len(n[l]) + i] = w[i]
    <3>1. PICK g \in 1..(Len(n[l]) + Len(w)) : g = Len(n[l]) + i
      <4>1. Len(n[l]) + i \in 1..(Len(n[l]) + Len(w))
        BY <1>2
      <4> QED BY <4>1
    <3>2. ~(g <= Len(n[l])) /\ g - Len(n[l]) = i
      BY <1>2, <3>1
    <3>3. new[l][g] = w[i]
      BY <1>1, <3>2
    <3> QED BY <1>1, <3>1, <3>3
  <2>3. \A i \in 1..Len(new[l]) :
          (i \in 1..Len(n[l]) /\ new[l][i] = n[l][i]) \/ \E j \in 1..Len(w) : new[l][i] = w[j]
    <3>1. ASSUME NEW i \in 1..Len(new[l])
          PROVE  i \in 1..Len(n[l]) \/ (i - Len(n[l]) \in 1..Len(w) /\ ~(i <= Len(n[l])))
      BY <1>1, <1>2
    <3> QED BY <1>1, <2>1, <3>1
  <2> QED BY <1>3, <1>4, <1>6, <2>1, <2>2, <2>3 DEF new, c
<1> QED BY <1>5, <1>6

LEMMA LastPutAll ==
    ASSUME NEW q \in Seq(Mails), NEW w \in Seq(Mails), NEW p, NEW R,
           \A i \in 1..Len(w) : w[i] \in Save(p) => w[i].bank \in R,
           LastIn(q, p, R) \/ \E i \in 1..Len(w) : w[i] \in Save(p)
    PROVE  LastIn(q \o w, p, R)
<1> DEFINE r == q \o w
<1>1. /\ Len(r) = Len(q) + Len(w)
      /\ \A i \in 1..(Len(q) + Len(w)) : r[i] = IF i <= Len(q) THEN q[i] ELSE w[i - Len(q)]
  BY ConcatProperties
<1>2. Len(q) \in Nat /\ Len(w) \in Nat
  BY LenProperties
<1> HIDE DEF r
<1>3. ASSUME NEW j \in 1..Len(r), r[j] \in Save(p), \A h \in (j + 1)..Len(r) : r[h] \notin Save(p)
      PROVE  r[j].bank \in R
  <2>1. CASE ~(j <= Len(q))
    <3>1. j - Len(q) \in 1..Len(w) /\ r[j] = w[j - Len(q)]
      BY <1>1, <1>2, <2>1
    <3> QED BY <1>3, <3>1
  <2>2. CASE j <= Len(q)
    <3>1. r[j] = q[j] /\ j \in 1..Len(q)
      BY <1>1, <1>2, <2>2
    <3>2. ASSUME NEW i \in 1..Len(w) PROVE w[i] \notin Save(p)
      <4>1. /\ Len(q) + i \in (j + 1)..Len(r) /\ Len(q) + i \in 1..(Len(q) + Len(w))
            /\ ~(Len(q) + i <= Len(q)) /\ Len(q) + i - Len(q) = i
        BY <1>1, <1>2, <2>2
      <4> QED BY <1>1, <1>3, <4>1
    <3>3. ASSUME NEW h \in (j + 1)..Len(q) PROVE q[h] \notin Save(p)
      <4>1. h \in (j + 1)..Len(r) /\ h \in 1..(Len(q) + Len(w)) /\ h <= Len(q)
        BY <1>1, <1>2
      <4> QED BY <1>1, <1>3, <4>1
    <3> QED BY <1>3, <3>1, <3>2, <3>3 DEF LastIn
  <2> QED BY <2>1, <2>2
<1> QED BY <1>3 DEF LastIn, r

LEMMA CarriedPutAll ==
    ASSUME NEW n \in Nets, NEW k \in Queues, NEW w \in Seq(Mails), NEW p, NEW R,
           CarriedIn(n, p, R), \A i \in 1..Len(w) : w[i] \notin Carries(p)
    PROVE  CarriedIn(PutAll(n, k, w), p, R)
<1> DEFINE new == PutAll(n, k, w)
<1>1. /\ Len(new[k]) = Len(n[k]) + Len(w)
      /\ \A i \in 1..(Len(n[k]) + Len(w)) :
           new[k][i] = IF i <= Len(n[k]) THEN n[k][i] ELSE w[i - Len(n[k])]
      /\ \A j \in Queues : j # k => new[j] = n[j]
  BY PutAllFact
<1>2. Len(n[k]) \in Nat /\ Len(w) \in Nat
  BY NetFact, LenProperties
<1> HIDE DEF new
<1>3. ASSUME NEW j \in Queues, NEW h \in 1..Len(new[j]), new[j][h] \in Carries(p)
      PROVE  new[j][h].bank \in R \union {NotLoaded}
  <2>1. CASE j # k
    BY <1>1, <1>3, <2>1 DEF CarriedIn
  <2>2. CASE j = k /\ h <= Len(n[k])
    <3>1. h \in 1..Len(n[k]) /\ new[k][h] = n[k][h]
      BY <1>1, <1>2, <2>2
    <3> QED BY <1>3, <2>2, <3>1 DEF CarriedIn
  <2>3. CASE j = k /\ ~(h <= Len(n[k]))
    <3>1. h - Len(n[k]) \in 1..Len(w) /\ new[k][h] = w[h - Len(n[k])]
      BY <1>1, <1>2, <2>3
    <3> QED BY <1>3, <2>3, <3>1
  <2> QED BY <2>1, <2>2, <2>3
<1> QED BY <1>3 DEF CarriedIn, new

LEMMA SavesPutAll ==
    ASSUME NEW n \in Nets, NEW k \in Queues, NEW w \in Seq(Mails), NEW v, SavesIn(n, v), Sorted(n),
           \A i \in 1..Len(w) : w[i].bank <= v /\ w[i].type \in Carried(k)
    PROVE  SavesIn(PutAll(n, k, w), v) /\ Sorted(PutAll(n, k, w))
<1> DEFINE new == PutAll(n, k, w)
<1>1. /\ Len(new[k]) = Len(n[k]) + Len(w)
      /\ \A i \in 1..(Len(n[k]) + Len(w)) :
           new[k][i] = IF i <= Len(n[k]) THEN n[k][i] ELSE w[i - Len(n[k])]
      /\ \A j \in Queues : j # k => new[j] = n[j]
  BY PutAllFact
<1>2. Len(n[k]) \in Nat /\ Len(w) \in Nat
  BY NetFact, LenProperties
<1> HIDE DEF new
<1>3. ASSUME NEW j \in Queues, NEW h \in 1..Len(new[j])
      PROVE  (new[j][h].type \in SaveTypes => new[j][h].bank <= v) /\ new[j][h].type \in Carried(j)
  <2>1. CASE j # k
    BY <1>1, <2>1 DEF SavesIn, Sorted
  <2>2. CASE j = k /\ h <= Len(n[k])
    <3>1. h \in 1..Len(n[k]) /\ new[k][h] = n[k][h]
      BY <1>1, <1>2, <2>2
    <3> QED BY <2>2, <3>1 DEF SavesIn, Sorted
  <2>3. CASE j = k /\ ~(h <= Len(n[k]))
    <3>1. h - Len(n[k]) \in 1..Len(w) /\ new[k][h] = w[h - Len(n[k])]
      BY <1>1, <1>2, <2>3
    <3> QED BY <2>3, <3>1
  <2> QED BY <2>1, <2>2, <2>3
<1> QED BY <1>3 DEF SavesIn, Sorted, new

\* The balances of some players are saved.
Saved(o, s, D) ==
    [o EXCEPT ![s] = [p \in Players |-> IF p \in D THEN [o[s][p] EXCEPT !.dirty = FALSE] ELSE o[s][p]]]

LEMMA SavedFact ==
    ASSUME NEW o \in [Servers -> [Players -> Objects \union {None}]], NEW s \in Servers, NEW D,
           \A p \in D : o[s][p] # None
    PROVE  /\ Saved(o, s, D) \in [Servers -> [Players -> Objects \union {None}]]
           /\ \A t \in Servers : \A p \in Players :
                t # s \/ p \notin D => Saved(o, s, D)[t][p] = o[t][p]
           /\ \A p \in Players \intersect D :
                /\ Saved(o, s, D)[s][p] # None /\ ~Saved(o, s, D)[s][p].dirty
                /\ Saved(o, s, D)[s][p].bank = o[s][p].bank
                /\ Saved(o, s, D)[s][p].asked = o[s][p].asked
<1> DEFINE row == [p \in Players |-> IF p \in D THEN [o[s][p] EXCEPT !.dirty = FALSE] ELSE o[s][p]]
           o2 == [o EXCEPT ![s] = row]
<1>1. ASSUME NEW p \in Players \intersect D
      PROVE  /\ row[p] \in Objects /\ ~row[p].dirty /\ row[p].bank = o[s][p].bank
             /\ row[p].asked = o[s][p].asked
  <2>1. o[s][p] \in Objects
    OBVIOUS
  <2> QED BY <2>1 DEF Objects
<1>2. \A p \in Players \ D : row[p] = o[s][p]
  OBVIOUS
<1>3. row \in [Players -> Objects \union {None}]
  <2>1. \A p \in Players : row[p] \in Objects \union {None}
    BY <1>1, <1>2
  <2>2. row = [p \in Players |-> row[p]]
    OBVIOUS
  <2> HIDE DEF row
  <2> QED BY <2>1, <2>2
<1> HIDE DEF row
<1>4. /\ o2 \in [Servers -> [Players -> Objects \union {None}]] /\ o2[s] = row
      /\ \A t \in Servers \ {s} : o2[t] = o[t]
  BY <1>3
<1> HIDE DEF o2
<1>5. Saved(o, s, D) = o2
  BY DEF Saved, o2, row
<1> QED BY <1>1, <1>2, <1>4, <1>5, NoneFact

LEMMA GoodSaves ==
    ASSUME NEW o, NEW n, NEW b, NEW ord, NEW tr \in Nat, Good(o, n, b, ord, tr),
           NEW s \in Servers, NEW D \in SUBSET {p \in Players : o[s][p] # None /\ o[s][p].dirty},
           NEW w \in Seq(Mails),
           \A i \in 1..Len(w) : \E p \in D : w[i] = SaveMsg(p, o[s][p].bank),
           \A p \in D : \E i \in 1..Len(w) : w[i] = SaveMsg(p, o[s][p].bank)
    PROVE  Good(Saved(o, s, D), PutAll(n, <<s, Db>>, w), b, ord, tr)
<1> DEFINE o2 == Saved(o, s, D)
           l == <<s, Db>>
           n2 == PutAll(n, l, w)
<1>1. /\ n \in Nets /\ Sorted(n) /\ SavesIn(n, AtStart) /\ Rows(n, b, tr)
      /\ o \in [Servers -> [Players -> Objects \union {None}]]
      /\ b \in [Players -> Nat] /\ ord \subseteq Recharged
      /\ \A p \in Players : Control(o, n, ord, p)
  BY GoodType
<1>2. l \in Queues /\ \A t \in Servers : <<t, Db>> \in Queues
  BY LinkFact, QueueFact
<1>3. \A p \in D : p \in Players /\ o[s][p] # None /\ o[s][p].dirty
  OBVIOUS
<1>4. /\ o2 \in [Servers -> [Players -> Objects \union {None}]]
      /\ \A t \in Servers : \A p \in Players : t # s \/ p \notin D => o2[t][p] = o[t][p]
      /\ \A p \in D : /\ o2[s][p] # None /\ ~o2[s][p].dirty /\ o2[s][p].bank = o[s][p].bank
                      /\ o2[s][p].asked = o[s][p].asked
  <2>1. /\ Saved(o, s, D) \in [Servers -> [Players -> Objects \union {None}]]
        /\ \A t \in Servers : \A p \in Players :
             t # s \/ p \notin D => Saved(o, s, D)[t][p] = o[t][p]
        /\ \A p \in Players \intersect D :
             /\ Saved(o, s, D)[s][p] # None /\ ~Saved(o, s, D)[s][p].dirty
             /\ Saved(o, s, D)[s][p].bank = o[s][p].bank
             /\ Saved(o, s, D)[s][p].asked = o[s][p].asked
    BY <1>1, <1>3, SavedFact
  <2>2. \A p \in D : p \in Players \intersect D
    BY <1>3
  <2> QED BY <2>1, <2>2
<1>5. ASSUME NEW p \in D PROVE o[s][p].bank \in 0..AtStart /\ o[s][p].bank # NotLoaded
  <2>1. o[s][p].bank # NotLoaded
    BY <1>1, <1>3 DEF Control
  <2> QED BY <1>3, <2>1, BankFact
<1>6. ASSUME NEW i \in 1..Len(w)
      PROVE  \E p \in D : /\ w[i].type = "SD_SavePlayerData" /\ w[i].p = p
                          /\ w[i].bank = o[s][p].bank
  <2>1. PICK p \in D : w[i] = SaveMsg(p, o[s][p].bank)
    OBVIOUS
  <2>2. w[i].type = "SD_SavePlayerData" /\ w[i].p = p /\ w[i].bank = o[s][p].bank
    BY <2>1 DEF SaveMsg
  <2> QED BY <2>2
<1>7. /\ \A i \in 1..Len(w) : w[i] \in Save(w[i].p) /\ w[i].p \in D /\ w[i].bank = o[s][w[i].p].bank
      /\ \A p \in D : \E i \in 1..Len(w) : w[i] \in Save(p)
  <2>1. \A i \in 1..Len(w) : w[i] \in Mails
    BY ElementOfSeq
  <2>2. \A i \in 1..Len(w) : w[i] \in Save(w[i].p) /\ w[i].p \in D /\ w[i].bank = o[s][w[i].p].bank
    <3>1. ASSUME NEW i \in 1..Len(w)
          PROVE  w[i] \in Save(w[i].p) /\ w[i].p \in D /\ w[i].bank = o[s][w[i].p].bank
      <4>1. PICK p \in D : w[i].type = "SD_SavePlayerData" /\ w[i].p = p /\ w[i].bank = o[s][p].bank
        BY <1>6
      <4>2. w[i].type \in SaveTypes /\ w[i] \in Mails
        BY <2>1, <4>1 DEF SaveTypes
      <4>3. w[i] \in Save(w[i].p)
        BY <4>2, SaveFact
      <4> QED BY <4>1, <4>3
    <3> QED BY <3>1
  <2>3. ASSUME NEW p \in D PROVE \E i \in 1..Len(w) : w[i] \in Save(p)
    <3>1. PICK i \in 1..Len(w) : w[i] = SaveMsg(p, o[s][p].bank)
      OBVIOUS
    <3>2. w[i].p = p
      BY <3>1 DEF SaveMsg
    <3> QED BY <2>2, <3>2
  <2> QED BY <2>2, <2>3
<1>8. \A i \in 1..Len(w) : w[i].type \in Carried(l)
  BY <1>6, LinkFact DEF Carried, Lookups, Found, Pool, Recharges, Login, Db, Redis
<1>9. \A i \in 1..Len(w) : /\ w[i] \notin Moving
                           /\ \A p : /\ w[i] \notin Note(p) /\ w[i] \notin Change(p)
                                     /\ w[i] \notin Between(p) /\ w[i] \notin Unread(p)
                                     /\ w[i] \notin Load(p) /\ w[i] \notin Mark(p)
                                     /\ w[i] \notin Carries(p)
  BY <1>6 DEF Moving, Note, Change, Between, Unread, Load, Mark, Carries, Of
<1>10. \A p : p \notin D => \A i \in 1..Len(w) : w[i] \notin Save(p)
  BY <1>7 DEF Save, Of
<1>11. n2 \in Nets /\ Sorted(n2) /\ SavesIn(n2, AtStart) /\ Count(n2, Moving) <= Count(n, Moving)
  <2>1. \A i \in 1..Len(w) : w[i].bank <= AtStart
    <3>1. AtStart \in Nat
      BY StartFact
    <3>2. ASSUME NEW i \in 1..Len(w) PROVE w[i].bank <= AtStart
      <4>1. PICK p \in D : w[i].bank = o[s][p].bank
        BY <1>6
      <4>2. o[s][p].bank \in 0..AtStart
        BY <1>5
      <4> QED BY <3>1, <4>1, <4>2
    <3> QED BY <3>2
  <2> HIDE DEF l
  <2> QED BY <1>1, <1>2, <1>8, <1>9, <2>1, PutAllFact, SavesPutAll, CountPutAll
<1>12. /\ n2[l] = n[l] \o w /\ n2[Pool] = n[Pool]
       /\ \A t \in Servers \ {s} : n2[<<t, Db>>] = n[<<t, Db>>]
  BY <1>1, LinkFact, QueueFact DEF PutAll, Nets
<1>13. \A C : (\A i \in 1..Len(w) : w[i] \notin C) => Count(n2, C) <= Count(n, C)
  BY <1>1, <1>2, CountPutAll
<1>14. \A C : Free(n2, C) => Free(n, C)
  BY <1>1, <1>2, FreePutAll
<1>15. \A t \in Servers : \A p :
         /\ LinkFree(n2, t, p) => LinkFree(n, t, p)
         /\ LinkFree(n, t, p) /\ (l = <<t, Db>> => \A i \in 1..Len(w) : w[i] \notin Save(p))
              => LinkFree(n2, t, p)
         /\ LinkFree(n2, t, p) /\ l = <<t, Db>> => \A i \in 1..Len(w) : w[i] \notin Save(p)
  BY <1>1, <1>2, LinkPutAll
<1>16. n[l] \in Seq(Mails)
  BY <1>1, <1>2, NetFact
<1>17. \A p : \A R : CarriedIn(n, p, R) => CarriedIn(n2, p, R)
  BY <1>1, <1>2, <1>9, CarriedPutAll
<1> HIDE DEF o2, n2
<1>18. ASSUME NEW C, \A i \in 1..Len(w) : w[i] \notin C
       PROVE  (Free(n, C) => Free(n2, C)) /\ (Count(n, C) <= 1 => Count(n2, C) <= 1)
  <2>1. Count(n, C) \in Nat /\ Count(n2, C) \in Nat /\ (Free(n, C) <=> Count(n, C) = 0)
        /\ (Free(n2, C) <=> Count(n2, C) = 0)
    BY <1>1, <1>11, CountFact
  <2>2. Count(n2, C) <= Count(n, C)
    BY <1>13, <1>18
  <2> QED BY <2>1, <2>2
<1>19. ASSUME NEW p \in Players PROVE Control(o2, n2, ord, p)
  <2>1. Control(o, n, ord, p)
    BY <1>1
  <2>2. CASE p \notin D
    <3>1. \A i \in 1..Len(w) : \A C \in Kinds(o, ord, p) : w[i] \notin C
      BY <1>9, <1>10, <2>2 DEF Kinds
    <3>2. Less(n, n2, o, ord, p)
      <4>1. \A C \in Kinds(o, ord, p) : Count(n2, C) <= Count(n, C)
        BY <1>13, <3>1
      <4> QED BY <1>10, <1>15, <2>2, <4>1 DEF Less
    <3>3. \A t \in Servers : o2[t][p] = o[t][p]
      BY <1>4, <2>2
    <3> QED BY <1>1, <1>11, <2>1, <3>2, <3>3, ControlLess
  <2>3. CASE p \in D
    <3>1. o[s][p] # None /\ o[s][p].bank # NotLoaded /\ o2[s][p] # None /\ ~o2[s][p].dirty
          /\ o2[s][p].bank # NotLoaded
      BY <1>3, <1>4, <1>5, <2>3
    <3>2. \A t \in Servers \ {s} : o[t][p] = None /\ o2[t][p] = None
      BY <1>4, <2>1, <3>1 DEF Control
    <3>3. Free(n, Load(p)) /\ Free(n, Note(p)) /\ Free(n, Between(p))
      BY <2>1, <3>1 DEF Control, Absent
    <3>4. Free(n, Unread(p)) /\ Free(n, Mark(p))
      BY <1>1, <3>3, KindFact, FreeSub
    <3>5. /\ Free(n2, Load(p)) /\ Free(n2, Note(p)) /\ Free(n2, Between(p))
          /\ Free(n2, Unread(p)) /\ Free(n2, Mark(p))
      BY <1>9, <1>18, <3>3, <3>4
    <3>6. Count(n2, Note(p)) <= 1 /\ Count(n2, Change(p)) <= 1 /\ Count(n2, Load(p)) <= 1
      BY <1>9, <1>18, <2>1 DEF Control
    <3>7. \A t \in Servers \ {s} : LinkFree(n2, t, p)
      <4>1. \A t \in Servers \ {s} : LinkFree(n, t, p) /\ l # <<t, Db>>
        BY <2>1, <3>1 DEF Control
      <4> QED BY <1>15, <4>1
    <3>8. \A t \in Servers : o2[t][p] # None => t = s
      BY <3>2
    <3> QED BY <3>1, <3>5, <3>6, <3>7, <3>8 DEF Control
  <2> QED BY <2>2, <2>3
<1>20. ASSUME NEW p \in Players, NEW R, Worth(o, n, b, p, R) PROVE Worth(o2, n2, b, p, R)
  <2>1. /\ \A t \in Servers : o[t][p] # None => o[t][p].bank \in R \union {NotLoaded}
        /\ CarriedIn(n2, p, R)
        /\ (\A t \in Servers : o[t][p] # None => ~o[t][p].dirty) => FinalIn(n, b, p, R)
    BY <1>17, <1>20, WorthParts
  <2>2. CASE p \notin D
    <3>1. \A i \in 1..Len(w) : w[i] \notin Save(p)
      BY <1>10, <2>2
    <3>2. LastIn(n[l], p, R) => LastIn(n2[l], p, R)
      BY <1>12, <1>16, <3>1, LastPutAll
    <3>3. FinalIn(n, b, p, R) => FinalIn(n2, b, p, R)
      BY <1>12, <1>14, <1>15, <3>2 DEF FinalIn, l
    <3>4. \A t \in Servers : o2[t][p] = o[t][p]
      BY <1>4, <2>2
    <3> QED BY <2>1, <3>3, <3>4, WorthParts
  <2>3. CASE p \in D
    <3>1. o[s][p].bank \in R
      BY <1>3, <1>5, <2>1, <2>3
    <3>2. \A i \in 1..Len(w) : w[i] \in Save(p) => w[i].bank \in R
      BY <1>7, <3>1 DEF Save, Of
    <3>3. LastIn(n2[l], p, R)
      BY <1>7, <1>12, <1>16, <2>3, <3>2, LastPutAll
    <3>4. ~LinkFree(n2, s, p) /\ ~Free(n2, Save(p))
      <4>1. ~LinkFree(n2, s, p)
        BY <1>7, <1>15, <2>3
      <4> QED BY <1>11, <4>1, LinkAll
    <3>5. \A t \in Servers \ {s} : LinkFree(n2, t, p)
      BY <1>19, <1>4, <2>3 DEF Control
    <3>6. \A t \in Servers \ {s} : LastIn(n2[<<t, Db>>], p, R)
      BY <3>5 DEF LinkFree, LastIn
    <3>7. FinalIn(n2, b, p, R)
      BY <3>3, <3>4, <3>6 DEF FinalIn, l
    <3>8. \A t \in Servers : o2[t][p] # None => o2[t][p].bank \in R \union {NotLoaded}
      BY <1>4, <2>1, <2>3
    <3> QED BY <2>1, <3>7, <3>8, WorthParts
  <2> QED BY <2>2, <2>3
<1>21. Typed(o2, n2, b, ord)
  BY <1>1, <1>4, <1>11 DEF Typed
<1>22. Rows(n2, b, tr)
  BY <1>1, <1>11, RowsKept
<1>23. Good(o2, n2, b, ord, tr)
  BY <1>11, <1>19, <1>20, <1>21, <1>22, GoodKept
<1> QED BY <1>23 DEF o2, n2, l

SavesOf(o, n, s, p) ==
    IF o[s][p].dirty THEN Put(n, <<s, Db>>, SaveMsg(p, o[s][p].bank)) ELSE n

\* The balance of a player is saved if it has to be, and his object dropped.
LEMMA GoodLeave ==
    ASSUME NEW o, NEW n, NEW b, NEW ord, NEW tr \in Nat, Good(o, n, b, ord, tr),
           NEW s \in Servers, NEW p \in Players, o[s][p] # None
    PROVE  /\ Good([o EXCEPT ![s][p] = None], SavesOf(o, n, s, p), b, ord, tr)
           /\ Absent([o EXCEPT ![s][p] = None], p)
<1>1. /\ n \in Nets /\ o \in [Servers -> [Players -> Objects \union {None}]]
      /\ Control(o, n, ord, p)
  BY GoodType
<1>2. CASE ~o[s][p].dirty
  BY <1>2, GoodDrop DEF SavesOf
<1>3. CASE o[s][p].dirty
  <2> DEFINE m == SaveMsg(p, o[s][p].bank)
             w == <<m>>
             l == <<s, Db>>
             o2 == Saved(o, s, {p})
  <2>1. o[s][p].bank \in Nat
    <3>1. o[s][p] \in Objects
      BY <1>1
    <3> QED BY <1>1, <1>3, <3>1 DEF Control, Objects
  <2>2. m \in Mails
    BY <2>1, MailsFact DEF SaveMsg, Values
  <2>3. w \in Seq(Mails) /\ Len(w) = 1 /\ w[1] = m
    <3> HIDE DEF m
    <3> QED BY <2>2
  <2>4. PutAll(n, l, w) = Put(n, l, m)
    <3>1. l \in Queues /\ n[l] \in Seq(Mails)
      BY <1>1, LinkFact, QueueFact, NetFact
    <3>2. n[l] \o w = Append(n[l], m)
      <4> DEFINE x == n[l]
      <4> HIDE DEF m, l, x
      <4>1. x \in Seq(Mails)
        BY <3>1 DEF x
      <4>2. x \o w = Append(x, m)
        BY <2>2, <4>1, AppendIsConcat
      <4> QED BY <4>2 DEF x
    <3> QED BY <3>2 DEF PutAll, Put
  <2>5. Good(o2, PutAll(n, l, w), b, ord, tr)
    <3>1. {p} \in SUBSET {q \in Players : o[s][q] # None /\ o[s][q].dirty}
      BY <1>3
    <3>2. \A i \in 1..Len(w) : \E q \in {p} : w[i] = SaveMsg(q, o[s][q].bank)
      BY <2>3
    <3>3. \A q \in {p} : \E i \in 1..Len(w) : w[i] = SaveMsg(q, o[s][q].bank)
      BY <2>3
    <3> HIDE DEF w, m
    <3> QED BY <2>3, <3>1, <3>2, <3>3, GoodSaves
  <2>6. /\ o2 \in [Servers -> [Players -> Objects \union {None}]]
        /\ \A t \in Servers : \A q \in Players : t # s \/ q # p => o2[t][q] = o[t][q]
        /\ o2[s][p] # None /\ ~o2[s][p].dirty
    BY <1>1, SavedFact
  <2>7. [o2 EXCEPT ![s][p] = None] = [o EXCEPT ![s][p] = None]
    <3> HIDE DEF o2
    <3>1. ASSUME NEW t \in Servers
          PROVE  [o2 EXCEPT ![s][p] = None][t] = [o EXCEPT ![s][p] = None][t]
      BY <1>1, <2>6
    <3> QED BY <1>1, <2>6, <3>1
  <2> HIDE DEF o2
  <2>8. /\ Good([o2 EXCEPT ![s][p] = None], PutAll(n, l, w), b, ord, tr)
        /\ Absent([o2 EXCEPT ![s][p] = None], p)
    BY <2>5, <2>6, GoodDrop
  <2>9. SavesOf(o, n, s, p) = Put(n, l, m)
    BY <1>3 DEF SavesOf
  <2> QED BY <2>4, <2>7, <2>8, <2>9
<1> QED BY <1>2, <1>3

LEMMA SwapFact ==
    ASSUME NEW n \in Nets, NEW k \in Queues, NEW i \in 1..Len(n[k]), NEW l \in Queues,
           NEW m \in Mails, l # k
    PROVE  /\ Put(Gone(n, k, i), l, m) = Gone(Put(n, l, m), k, i)
           /\ Put(n, l, m)[k] = n[k]
BY DEF Put, Gone, Nets

\* The old game server leaves the player to the next one.
LEMMA GoodHandOver ==
    ASSUME NEW o, NEW n, NEW b, NEW ord, NEW tr \in Nat, Good(o, n, b, ord, tr),
           NEW s \in Servers, NEW i \in 1..Len(n[<<Login, s>>]),
           n[<<Login, s>>][i].type = "LS_ChangeGameResult", NEW p \in Players,
           n[<<Login, s>>][i].p = p, o[s][p] # None
    PROVE  Good([o EXCEPT ![s][p] = None],
                Put(SavesOf(o, Gone(n, <<Login, s>>, i), s, p), <<s, Login>>,
                    [n[<<Login, s>>][i] EXCEPT !.type = "SL_ChangeGameResult"]), b, ord, tr)
<1> DEFINE k == <<Login, s>>
           l == <<s, Login>>
           c == n[k][i]
           m == [c EXCEPT !.type = "SL_ChangeGameResult"]
           n1 == SavesOf(o, n, s, p)
           o2 == [o EXCEPT ![s][p] = None]
<1>1. /\ n \in Nets /\ o \in [Servers -> [Players -> Objects \union {None}]]
      /\ Control(o, n, ord, p)
  BY GoodType
<1>2. k \in Queues /\ l \in Queues /\ <<s, Db>> \in Queues /\ <<s, Db>> # k
  BY LinkFact, QueueFact
<1>3. Good(o2, n1, b, ord, tr) /\ Absent(o2, p)
  BY GoodLeave
<1>4. SavesOf(o, Gone(n, k, i), s, p) = Gone(n1, k, i) /\ n1[k] = n[k]
  <2>1. CASE ~o[s][p].dirty
    BY <2>1 DEF SavesOf
  <2>2. CASE o[s][p].dirty
    <3>1. o[s][p].bank \in Nat
      <4>1. o[s][p] \in Objects
        BY <1>1
      <4> QED BY <1>1, <2>2, <4>1 DEF Control, Objects
    <3>2. SaveMsg(p, o[s][p].bank) \in Mails
      BY <3>1, MailsFact DEF SaveMsg, Values
    <3> QED BY <1>1, <1>2, <2>2, <3>2, SwapFact DEF SavesOf
  <2> QED BY <2>1, <2>2
<1>5. c \in Changes
  BY <1>1, <1>2, NetFact, HeldFact
<1>6. m \in Changes /\ m.type = "SL_ChangeGameResult" /\ m.p = p /\ m.bank = c.bank
  BY <1>5 DEF Changes
<1>7. m \in Mails /\ c \in Mails /\ c.type = "LS_ChangeGameResult" /\ c.p = p
  BY <1>5, <1>6, MailsFact
<1> HIDE DEF m
<1>8. m.type \in Carried(l) /\ m.type \notin SaveTypes /\ c.type \notin SaveTypes
  BY <1>6, <1>7, LinkFact
     DEF Carried, Lookups, Found, Pool, Recharges, Login, Db, Redis, SaveTypes
<1> HIDE DEF c
<1>9. m \notin Moving
  BY <1>6 DEF Moving
<1> HIDE DEF o2
<1>10. ASSUME NEW q \in Players, NEW C \in Kinds(o2, ord, q), m \in C PROVE c \in C
  <2>1. q = p
    BY <1>6, <1>10 DEF Kinds, Note, Change, Unread, Load, Save, Between, Mark, Of
  <2>2. C = Change(q)
    BY <1>3, <1>6, <1>10, <2>1 DEF Kinds, Note, Change, Unread, Load, Save, Between, Mark, Of
  <2> QED BY <1>7, <2>1, <2>2 DEF Change, Of
<1>11. ASSUME NEW q \in Players, NEW R, m \in Carries(q), Worth(o2, n1, b, q, R)
       PROVE  m.bank \in R \union {NotLoaded}
  <2>1. c \in Carries(q)
    BY <1>6, <1>7, <1>11 DEF Carries, Of
  <2>2. CarriedIn(n1, q, R)
    BY <1>11, WorthParts
  <2> QED BY <1>2, <1>4, <1>6, <2>1, <2>2 DEF CarriedIn, c
<1>12. n1[k][i] = c /\ i \in 1..Len(n1[k])
  BY <1>4 DEF c
<1> HIDE DEF n1, k, l
<1>13. Good(o2, Put(Gone(n1, k, i), l, m), b, ord, tr)
  BY <1>2, <1>3, <1>7, <1>8, <1>9, <1>10, <1>11, <1>12, GoodMove
<1> QED BY <1>4, <1>13 DEF o2, k, l, m, c

-----------------------------------------------------------------------------
(* Saves in the database *)

\* A save arrives at the database server.
LEMMA GoodPosted ==
    ASSUME NEW o, NEW n, NEW b, NEW ord, NEW tr \in Nat, Good(o, n, b, ord, tr),
           NEW s \in Servers, n[<<s, Db>>] # <<>>, n[<<s, Db>>][1].type = "SD_SavePlayerData"
    PROVE  Good(o, Put(Gone(n, <<s, Db>>, 1), Pool,
                       [type |-> "save", p |-> n[<<s, Db>>][1].p, bank |-> n[<<s, Db>>][1].bank]),
                b, ord, tr)
<1> DEFINE l == <<s, Db>>
           c == n[l][1]
           m == [type |-> "save", p |-> c.p, bank |-> c.bank]
           n1 == Gone(n, l, 1)
           n2 == Put(n1, Pool, m)
<1>1. /\ n \in Nets /\ Sorted(n) /\ SavesIn(n, AtStart) /\ Rows(n, b, tr)
      /\ o \in [Servers -> [Players -> Objects \union {None}]] /\ b \in [Players -> Nat]
      /\ \A p \in Players : Control(o, n, ord, p)
  BY GoodType
<1>2. l \in Queues /\ Pool \in Queues /\ Pool # l /\ \A t \in Servers : <<t, Db>> # Pool /\ <<t, Db>> \in Queues
  BY LinkFact, QueueFact
<1>3. 1 \in 1..Len(n[l]) /\ c \in Mails /\ n[l] \in Seq(Mails)
  BY <1>1, <1>2, NetFact
<1>4. c.p \in Players /\ c.bank \in Nat /\ c.type = "SD_SavePlayerData"
  BY <1>3, HeldFact DEF Values
<1>5. m \in Mails /\ m.type = "save" /\ m.p = c.p /\ m.bank = c.bank
  BY <1>4, MailsFact DEF Values
<1> HIDE DEF m
<1>6. m.type \in Carried(Pool) /\ m.bank <= AtStart
  <2>1. m.type \in Carried(Pool)
    BY <1>5, LinkFact DEF Carried
  <2>2. c.bank <= AtStart
    BY <1>1, <1>2, <1>3, <1>4 DEF SavesIn, SaveTypes
  <2> QED BY <1>5, <2>1, <2>2
<1>7. n1 \in Nets /\ Sorted(n1) /\ SavesIn(n1, AtStart)
  BY <1>1, <1>2, <1>3, GoneFact, SortedGone, SavesGone
<1>8. /\ n1[l] = RemoveAt(n[l], 1) /\ \A j \in Queues : j # l => n1[j] = n[j]
  BY <1>1, <1>2 DEF Gone, Nets
<1>9. n2[Pool] = Append(n1[Pool], m) /\ \A j \in Queues : j # Pool => n2[j] = n1[j]
  <2> HIDE DEF n1
  <2> QED BY <1>7, <1>2 DEF Put, Nets
<1>10. \A C : (m \in C => c \in C) => Count(n2, C) <= Count(n, C)
  BY <1>1, <1>2, <1>3, <1>5, CountMove
<1>11. (\A p : c \in Save(p) <=> p = c.p) /\ (\A p : m \in Save(p) <=> p = c.p)
       /\ c \notin Moving /\ m \notin Moving /\ \A p : m \notin Carries(p)
  BY <1>3, <1>4, <1>5 DEF Save, Of, Moving, Carries
<1>12. ASSUME NEW p PROVE Less(n, n2, o, ord, p)
  <2>1. \A C \in Kinds(o, ord, p) : m \in C => c \in C
    BY <1>3, <1>4, <1>5, <1>11 DEF Kinds, Note, Change, Unread, Load, Between, Mark, Of
  <2> HIDE DEF c, l
  <2> QED BY <1>1, <1>2, <1>3, <1>5, <2>1, LessMove DEF c
<1>13. \A p : \A t \in Servers : LinkFree(n, t, p) => LinkFree(n2, t, p)
  BY <1>12 DEF Less
<1> HIDE DEF n1
<1>14. n2 \in Nets /\ Sorted(n2) /\ SavesIn(n2, AtStart)
  BY <1>2, <1>5, <1>6, <1>7, PutFact, SortedPut, SavesPut
<1> HIDE DEF n2, c
<1>15. \A p \in Players : Control(o, n2, ord, p)
  BY <1>1, <1>12, <1>14, ControlLess
<1>16. ASSUME NEW p \in Players, NEW R, Worth(o, n, b, p, R) PROVE Worth(o, n2, b, p, R)
  <2>1. CarriedIn(n2, p, R)
    <3>1. CarriedIn(n1, p, R)
      BY <1>1, <1>2, <1>3, <1>16, WorthParts, CarriedGone DEF n1
    <3> QED BY <1>2, <1>5, <1>7, <1>11, <3>1, CarriedPut DEF n2
  <2>2. ASSUME FinalIn(n, b, p, R) PROVE FinalIn(n2, b, p, R)
    <3>1. CASE p # c.p
      <4>1. FinalIn(n1, b, p, R)
        BY <1>1, <1>2, <1>3, <1>11, <2>2, <3>1, FinalGone DEF n1, c
      <4> QED BY <1>2, <1>5, <1>7, <1>11, <3>1, <4>1, FinalPut DEF n2
    <3>2. CASE p = c.p
      <4>1. \A t \in Servers : LastIn(n2[<<t, Db>>], p, R)
        <5>1. LastIn(RemoveAt(n[l], 1), p, R)
          <6>1. LastIn(n[l], p, R)
            BY <2>2 DEF FinalIn
          <6>2. \A j \in 1..(1 - 1) : n[l][j] \notin Save(p)
            OBVIOUS
          <6> HIDE DEF l
          <6> QED BY <1>3, <6>1, <6>2, LastGone
        <5>2. \A t \in Servers : LastIn(n[<<t, Db>>], p, R)
          BY <2>2 DEF FinalIn
        <5> QED BY <1>2, <1>8, <1>9, <5>1, <5>2
      <4>2. ~Free(n2, Save(p))
        BY <1>2, <1>5, <1>7, <1>11, <3>2, FreePut DEF n2
      <4>3. ASSUME \A t \in Servers : LinkFree(n2, t, p) PROVE LastIn(n2[Pool], p, R)
        <5>1. \A j \in 2..Len(n[l]) : n[l][j] \notin Save(p)
          <6>1. LinkFree(n2, s, p)
            BY <4>3
          <6>2. n2[l] = RemoveAt(n[l], 1)
            BY <1>2, <1>8, <1>9
          <6>3. \A j \in 1..Len(n2[l]) : n2[l][j] \notin Save(p)
            BY <6>1 DEF LinkFree
          <6>4. /\ Len(RemoveAt(n[l], 1)) = Len(n[l]) - 1
                /\ \A j \in 1..(Len(n[l]) - 1) : RemoveAt(n[l], 1)[j] = n[l][IF j < 1 THEN j ELSE j + 1]
            BY <1>3, RemoveFact
          <6>5. ASSUME NEW j \in 2..Len(n[l]) PROVE n[l][j] \notin Save(p)
            <7>1. /\ j - 1 \in 1..(Len(n[l]) - 1) /\ ~(j - 1 < 1) /\ j - 1 + 1 = j
              <8>1. Len(n[l]) \in Nat
                BY <1>1, <1>2, NetFact
              <8> QED BY <8>1
            <7>2. RemoveAt(n[l], 1)[j - 1] = n[l][j]
              BY <6>4, <7>1
            <7> QED BY <6>2, <6>3, <6>4, <7>1, <7>2
          <6> QED BY <6>5
        <5>2. LastIn(n[l], p, R)
          BY <2>2 DEF FinalIn
        <5>3. n[l][1] \in Save(p)
          BY <1>11, <3>2 DEF c
        <5>4. c.bank \in R
          <6>1. \A j \in (1 + 1)..Len(n[l]) : n[l][j] \notin Save(p)
            BY <5>1
          <6> QED BY <1>3, <5>2, <5>3, <6>1 DEF LastIn, c
        <5>5. n1[Pool] \in Seq(Mails)
          BY <1>2, <1>7, NetFact
        <5> QED BY <1>5, <1>9, <1>11, <3>2, <5>4, <5>5, LastPut
      <4> QED BY <4>1, <4>2, <4>3 DEF FinalIn
    <3> QED BY <3>1, <3>2
  <2> QED BY <1>16, <2>1, <2>2, WorthParts
<1>17. Count(n2, Moving) <= Count(n, Moving)
  BY <1>10, <1>11
<1>18. Typed(o, n2, b, ord)
  BY <1>14, GoodType DEF Typed
<1>19. Rows(n2, b, tr)
  BY <1>1, <1>14, <1>17, RowsKept
<1>20. Good(o, n2, b, ord, tr)
  BY <1>14, <1>15, <1>16, <1>17, <1>18, <1>19, GoodKept
<1> QED BY <1>20 DEF n2, n1, m, c

\* A save is done, and no save of the same player was before it.
LEMMA GoodRunSave ==
    ASSUME NEW o, NEW n, NEW b, NEW ord, NEW tr \in Nat, Good(o, n, b, ord, tr),
           NEW i \in 1..Len(n[Pool]), n[Pool][i].type = "save", NEW p \in Players,
           n[Pool][i].p = p, \A j \in 1..(i - 1) : n[Pool][j] \notin Save(p)
    PROVE  Good(o, Gone(n, Pool, i), [b EXCEPT ![p] = n[Pool][i].bank], ord, tr)
<1> DEFINE c == n[Pool][i]
           n2 == Gone(n, Pool, i)
           b2 == [b EXCEPT ![p] = c.bank]
<1>1. /\ n \in Nets /\ Sorted(n) /\ SavesIn(n, AtStart) /\ Rows(n, b, tr)
      /\ o \in [Servers -> [Players -> Objects \union {None}]] /\ b \in [Players -> Nat]
      /\ \A q \in Players : Control(o, n, ord, q)
  BY GoodType
<1>2. Pool \in Queues /\ \A t \in Servers : <<t, Db>> # Pool /\ <<t, Db>> \in Queues
  BY LinkFact, QueueFact
<1>3. c \in Mails /\ n[Pool] \in Seq(Mails)
  BY <1>1, <1>2, NetFact
<1>4. c.bank \in Nat /\ c.bank <= AtStart /\ c \in Save(p) /\ \A q : q # p => c \notin Save(q)
  <2>1. c.bank \in Nat
    BY <1>3, HeldFact DEF Values
  <2>2. c.bank <= AtStart
    BY <1>1, <1>2 DEF SavesIn, SaveTypes
  <2> QED BY <1>3, <2>1, <2>2 DEF Save, Of
<1>5. n2 \in Nets /\ Sorted(n2) /\ SavesIn(n2, AtStart) /\ Count(n2, Moving) <= Count(n, Moving)
  BY <1>1, <1>2, GoneFact, SortedGone, SavesGone, CountGone
<1>6. n2[Pool] = RemoveAt(n[Pool], i) /\ \A j \in Queues : j # Pool => n2[j] = n[j]
  BY <1>1, <1>2 DEF Gone, Nets
<1>7. \A q : Less(n, n2, o, ord, q)
  BY <1>1, <1>2, LessGone
<1>8. b2 \in [Players -> Nat] /\ b2[p] = c.bank /\ \A q \in Players \ {p} : b2[q] = b[q]
  BY <1>1, <1>4
<1>9. /\ Len(n2[Pool]) = Len(n[Pool]) - 1
      /\ \A j \in 1..(Len(n[Pool]) - 1) : n2[Pool][j] = n[Pool][IF j < i THEN j ELSE j + 1]
  BY <1>1, <1>2, GoneFact
<1> HIDE DEF b2
<1>10. \A q : \A R : CarriedIn(n, q, R) => CarriedIn(n2, q, R)
  BY <1>1, <1>2, CarriedGone
<1>11. \A q : \A R : \A v : c \notin Save(q) /\ FinalIn(n, v, q, R) => FinalIn(n2, v, q, R)
  BY <1>1, <1>2, FinalGone
<1> HIDE DEF n2, c
<1>12. \A q \in Players : Control(o, n2, ord, q)
  BY <1>1, <1>5, <1>7, ControlLess
<1>13. ASSUME NEW R, FinalIn(n, b, p, R) PROVE FinalIn(n2, b2, p, R)
  <2>1. \A t \in Servers : n2[<<t, Db>>] = n[<<t, Db>>]
    BY <1>2, <1>6
  <2>2. ASSUME \A t \in Servers : LinkFree(n2, t, p) PROVE LastIn(n2[Pool], p, R)
    <3>1. LastIn(n[Pool], p, R)
      BY <1>13, <2>1, <2>2 DEF FinalIn, LinkFree
    <3> QED BY <1>3, <1>6, <3>1, LastGone
  <2>3. ASSUME Free(n2, Save(p)) PROVE b2[p] \in R
    <3>1. \A t \in Servers : LinkFree(n2, t, p)
      BY <1>5, <2>3, LinkAll
    <3>2. LastIn(n[Pool], p, R)
      BY <1>13, <2>1, <3>1 DEF FinalIn, LinkFree
    <3>3. ASSUME NEW j \in (i + 1)..Len(n[Pool]) PROVE n[Pool][j] \notin Save(p)
      <4>1. Len(n[Pool]) \in Nat
        BY <1>1, <1>2, NetFact
      <4>2. j - 1 \in 1..(Len(n[Pool]) - 1) /\ ~(j - 1 < i) /\ j - 1 + 1 = j
        BY <4>1
      <4>3. n2[Pool][j - 1] = n[Pool][j] /\ j - 1 \in 1..Len(n2[Pool])
        BY <1>9, <4>2
      <4> QED BY <1>2, <1>5, <2>3, <4>3, CountFact
    <3> QED BY <1>4, <1>8, <3>2, <3>3 DEF LastIn, c
  <2> QED BY <1>13, <2>1, <2>2, <2>3 DEF FinalIn
<1>14. ASSUME NEW q \in Players, NEW R, Worth(o, n, b, q, R) PROVE Worth(o, n2, b2, q, R)
  <2>1. FinalIn(n, b, q, R) => FinalIn(n2, b2, q, R)
    <3>1. CASE q = p
      BY <1>13, <3>1
    <3>2. CASE q # p
      <4>1. FinalIn(n, b, q, R) => FinalIn(n2, b, q, R)
        BY <1>4, <1>11, <3>2
      <4> QED BY <1>8, <3>2, <4>1, FinalWide
    <3> QED BY <3>1, <3>2
  <2> QED BY <1>10, <1>14, <2>1, WorthParts
<1>15. Rows(n2, b2, tr)
  <2>1. Rows(n2, b, tr)
    BY <1>1, <1>5, RowsKept
  <2>2. ASSUME NEW q \in Players PROVE b2[q] + Count(n2, Moving) <= AtStart + tr
    <3>1. CASE q # p
      BY <1>8, <2>1, <3>1, RowsParts
    <3>2. CASE q = p
      <4>1. Count(n2, Moving) \in Nat /\ Count(n2, Moving) <= tr /\ AtStart \in Nat
        BY <1>5, <2>1, CountFact, StartFact, RowsParts
      <4> QED BY <1>4, <1>8, <3>2, <4>1
    <3> QED BY <3>1, <3>2
  <2> QED BY <2>1, <2>2, RowsParts
<1>16. Typed(o, n2, b2, ord)
  BY <1>5, <1>8, GoodType DEF Typed
<1>17. Good(o, n2, b2, ord, tr)
  BY <1>5, <1>12, <1>14, <1>15, <1>16, GoodKept
<1> QED BY <1>17 DEF n2, b2, c

-----------------------------------------------------------------------------
(* Transfers: a coin is taken out of a place, and put into another one *)

Held(o, n, b, ord, tr) ==
    /\ Typed(o, n, b, ord) /\ (\A p \in Players : Control(o, n, ord, p))
    /\ Count(n, Moving) + 1 <= tr /\ SavesIn(n, AtStart)
    /\ \A p \in Players : b[p] + Count(n, Moving) + 1 <= AtStart + tr
    /\ \E lo, hi \in [Players -> Nat] :
         /\ Bounded(o, n, b, ord, tr, lo, hi)
         /\ Total(hi) + Cardinality(ord) + Count(n, Moving) + 1 <= AtStart

LEMMA HeldType ==
    ASSUME NEW o, NEW n, NEW b, NEW ord, NEW tr, Held(o, n, b, ord, tr)
    PROVE  /\ o \in [Servers -> [Players -> Objects \union {None}]] /\ n \in Nets /\ Sorted(n)
           /\ b \in [Players -> Nat] /\ ord \subseteq Recharged /\ SavesIn(n, AtStart)
           /\ \A p \in Players : Control(o, n, ord, p)
BY DEF Held, Typed

\* A coin in hand may be lost.
LEMMA HeldGood ==
    ASSUME NEW o, NEW n, NEW b, NEW ord, NEW tr \in Nat, Held(o, n, b, ord, tr)
    PROVE  Good(o, n, b, ord, tr)
<1>1. Count(n, Moving) \in Nat /\ AtStart \in Nat
  BY HeldType, CountFact, StartFact
<1>2. Rows(n, b, tr)
  <2>1. Count(n, Moving) <= tr
    BY <1>1 DEF Held
  <2>2. ASSUME NEW p \in Players PROVE b[p] + Count(n, Moving) <= AtStart + tr
    <3>1. b[p] \in Nat /\ b[p] + Count(n, Moving) + 1 <= AtStart + tr
      BY HeldType DEF Held
    <3> QED BY <1>1, <3>1
  <2> QED BY <2>1, <2>2, HeldType, RowsParts
<1> QED BY <1>2 DEF Held, Good

\* A transfer that was under way is taken.
LEMMA HeldGone ==
    ASSUME NEW o, NEW n, NEW b, NEW ord, NEW tr \in Nat, Good(o, n, b, ord, tr),
           NEW k \in Queues, NEW i \in 1..Len(n[k]), n[k][i] \in Moving
    PROVE  Held(o, Gone(n, k, i), b, ord, tr)
<1> DEFINE n2 == Gone(n, k, i)
<1>1. n \in Nets /\ b \in [Players -> Nat] /\ ord \subseteq Recharged /\ Rows(n, b, tr)
  BY GoodType
<1>2. n[k][i].type \notin SaveTypes
  BY DEF Moving, SaveTypes
<1>3. Good(o, n2, b, ord, tr)
  BY <1>2, GoodGone
<1>4. n2 \in Nets /\ Count(n2, Moving) <= Count(n, Moving) - 1
  BY <1>1, GoneFact, CountGone
<1>5. \A p : n[k][i] \notin Save(p)
  BY <1>1, <1>2, NetFact, SaveFact
<1>6. \A p : \A R : Worth(o, n, b, p, R) => Worth(o, n2, b, p, R)
  BY <1>1, <1>5, WorthGone
<1> HIDE DEF n2
<1>7. Count(n2, Moving) \in Nat /\ Count(n, Moving) \in Nat /\ AtStart \in Nat
      /\ Cardinality(ord) \in Nat
  BY <1>1, <1>4, CountFact, StartFact, OrdersFact
<1>8. Count(n2, Moving) + 1 <= tr
  <2>1. Count(n, Moving) <= tr
    BY <1>1, RowsParts
  <2> QED BY <1>4, <1>7, <2>1
<1>9. ASSUME NEW p \in Players PROVE b[p] + Count(n2, Moving) + 1 <= AtStart + tr
  <2>1. b[p] + Count(n, Moving) <= AtStart + tr /\ b[p] \in Nat
    BY <1>1, RowsParts
  <2> QED BY <1>4, <1>7, <2>1
<1>10. PICK lo, hi \in [Players -> Nat] : Bounded(o, n, b, ord, tr, lo, hi)
  BY DEF Good
<1>11. Total(hi) + Cardinality(ord) + Count(n2, Moving) + 1 <= AtStart
  <2>1. Total(hi) \in Nat /\ Total(hi) + Cardinality(ord) + Count(n, Moving) <= AtStart
    BY <1>10, SumType DEF Bounded
  <2> QED BY <1>4, <1>7, <2>1
<1>12. Total(hi) + Cardinality(ord) + Count(n2, Moving) <= AtStart
  <2>1. Total(hi) \in Nat
    BY SumType
  <2> QED BY <1>7, <1>11, <2>1
<1>13. Bounded(o, n2, b, ord, tr, lo, hi)
  BY <1>6, <1>10, <1>12 DEF Bounded
<1>14. Held(o, n2, b, ord, tr)
  BY <1>3, <1>8, <1>9, <1>11, <1>13, GoodType DEF Held, Good
<1> QED BY <1>14 DEF n2

\* It goes on in another message.
LEMMA HeldPut ==
    ASSUME NEW o, NEW n, NEW b, NEW ord, NEW tr \in Nat, Held(o, n, b, ord, tr),
           NEW k \in Queues, NEW m \in Moving, m.type \in Carried(k)
    PROVE  Good(o, Put(n, k, m), b, ord, tr)
<1> DEFINE n2 == Put(n, k, m)
<1>1. /\ n \in Nets /\ Sorted(n) /\ b \in [Players -> Nat] /\ SavesIn(n, AtStart)
      /\ ord \subseteq Recharged /\ \A p \in Players : Control(o, n, ord, p)
  BY HeldType
<1>2. /\ m \in Mails /\ m.type \notin SaveTypes
      /\ \A p : Others(m, p) /\ m \notin Carries(p) /\ m \notin Save(p)
  BY DEF Moving, SaveTypes, Others, Carries, Save, Of
<1>3. n2 \in Nets /\ Sorted(n2) /\ SavesIn(n2, AtStart) /\ Count(n2, Moving) <= Count(n, Moving) + 1
  BY <1>1, <1>2, PutFact, SortedPut, SavesPut, CountPut
<1>4. \A p : Less(n, n2, o, ord, p)
  BY <1>1, <1>2, LessPut
<1>5. \A p : \A R : Worth(o, n, b, p, R) => Worth(o, n2, b, p, R)
  BY <1>1, <1>2, WorthPut
<1> HIDE DEF n2
<1>6. \A p \in Players : Control(o, n2, ord, p)
  BY <1>1, <1>3, <1>4, ControlLess
<1>7. Count(n2, Moving) \in Nat /\ Count(n, Moving) \in Nat /\ AtStart \in Nat
      /\ Cardinality(ord) \in Nat
  BY <1>1, <1>3, CountFact, StartFact, OrdersFact
<1>8. Rows(n2, b, tr)
  <2>1. Count(n2, Moving) <= tr
    BY <1>3, <1>7 DEF Held
  <2>2. ASSUME NEW p \in Players PROVE b[p] + Count(n2, Moving) <= AtStart + tr
    <3>1. b[p] + Count(n, Moving) + 1 <= AtStart + tr /\ b[p] \in Nat
      BY <1>1 DEF Held
    <3> QED BY <1>3, <1>7, <3>1
  <2> QED BY <1>3, <2>1, <2>2, RowsParts
<1>9. PICK lo, hi \in [Players -> Nat] :
        /\ Bounded(o, n, b, ord, tr, lo, hi)
        /\ Total(hi) + Cardinality(ord) + Count(n, Moving) + 1 <= AtStart
  BY DEF Held
<1>10. Total(hi) + Cardinality(ord) + Count(n2, Moving) <= AtStart
  <2>1. Total(hi) \in Nat
    BY SumType
  <2> QED BY <1>3, <1>7, <1>9, <2>1
<1>11. Bounded(o, n2, b, ord, tr, lo, hi)
  BY <1>5, <1>9, <1>10 DEF Bounded
<1>12. Good(o, n2, b, ord, tr)
  BY <1>3, <1>6, <1>8, <1>11 DEF Good, Typed, Held
<1> QED BY <1>12 DEF n2

\* It becomes a part of what a player has.
LEMMA HeldUp ==
    ASSUME NEW o, NEW n, NEW b, NEW ord, NEW tr \in Nat, Held(o, n, b, ord, tr),
           NEW p \in Players, NEW o2, NEW b2, Typed(o2, n, b2, ord), Rows(n, b2, tr),
           \A q \in Players : Control(o2, n, ord, q),
           \A q \in Players \ {p} : \A R : Worth(o, n, b, q, R) => Worth(o2, n, b2, q, R),
           \A u, v \in Nat : Worth(o, n, b, p, u .. v) => Worth(o2, n, b2, p, u .. (v + 1))
    PROVE  Good(o2, n, b2, ord, tr)
<1>1. PICK lo, hi \in [Players -> Nat] :
        /\ Bounded(o, n, b, ord, tr, lo, hi)
        /\ Total(hi) + Cardinality(ord) + Count(n, Moving) + 1 <= AtStart
  BY DEF Held
<1> DEFINE h2 == [hi EXCEPT ![p] = @ + 1]
<1>2. h2 \in [Players -> Nat] /\ Total(h2) = Total(hi) + 1 /\ Total(hi) \in Nat
  BY SumUp, SumType
<1>3. h2[p] = hi[p] + 1 /\ \A q \in Players \ {p} : h2[q] = hi[q]
  OBVIOUS
<1> HIDE DEF h2
<1>4. ASSUME NEW q \in Players PROVE Worth(o2, n, b2, q, lo[q] .. h2[q])
  <2>1. Worth(o, n, b, q, lo[q] .. hi[q])
    BY <1>1 DEF Bounded
  <2>2. lo[q] \in Nat /\ hi[q] \in Nat
    OBVIOUS
  <2>3. CASE q = p
    BY <1>3, <2>1, <2>2, <2>3
  <2>4. CASE q # p
    BY <1>3, <2>1, <2>4
  <2> QED BY <2>3, <2>4
<1>5. Total(h2) + Cardinality(ord) + Count(n, Moving) <= AtStart
  <2>1. Count(n, Moving) \in Nat /\ Cardinality(ord) \in Nat /\ AtStart \in Nat
    BY HeldType, CountFact, OrdersFact, StartFact
  <2> QED BY <1>1, <1>2, <2>1
<1>6. Bounded(o2, n, b2, ord, tr, lo, h2)
  BY <1>1, <1>2, <1>4, <1>5 DEF Bounded
<1> QED BY <1>2, <1>6 DEF Good

LEMMA WideFact ==
    ASSUME NEW u \in Nat, NEW v \in Nat
    PROVE  u .. v \subseteq u .. (v + 1) /\ \A x \in u .. v : x + 1 \in u .. (v + 1)
OBVIOUS

\* A game server credits a player it has loaded.
LEMMA HeldObj ==
    ASSUME NEW o, NEW n, NEW b, NEW ord, NEW tr \in Nat, Held(o, n, b, ord, tr),
           NEW s \in Servers, NEW p \in Players, o[s][p] # None, o[s][p].bank # NotLoaded,
           NEW x \in Objects, x.bank = o[s][p].bank + 1, x.dirty, x.asked = o[s][p].asked
    PROVE  Good([o EXCEPT ![s][p] = x], n, b, ord, tr)
<1> DEFINE o2 == [o EXCEPT ![s][p] = x]
<1>1. /\ n \in Nets /\ o \in [Servers -> [Players -> Objects \union {None}]]
      /\ b \in [Players -> Nat]
      /\ \A q \in Players : Control(o, n, ord, q)
  BY HeldType
<1>2. o[s][p] \in Objects /\ o[s][p].bank \in Nat
  BY <1>1 DEF Objects
<1>3. x \in Objects /\ x.bank = o[s][p].bank + 1 /\ x.dirty /\ x.asked = o[s][p].asked
  OBVIOUS
<1>4. /\ o2 \in [Servers -> [Players -> Objects \union {None}]] /\ o2[s][p] = x /\ x # None
      /\ \A t \in Servers : \A q \in Players \ {p} : o2[t][q] = o[t][q]
      /\ \A t \in Servers \ {s} : o2[t][p] = o[t][p]
  BY <1>1, <1>3, ObjFact, NoneFact
<1>5. \A t \in Servers \ {s} : o[t][p] = None
  BY <1>1 DEF Control
<1> HIDE DEF o2
<1>6. x.bank # NotLoaded
  BY <1>2, <1>3 DEF NotLoaded
<1>7. ASSUME NEW q \in Players PROVE Control(o2, n, ord, q)
  <2>1. Control(o, n, ord, q)
    BY <1>1
  <2>2. CASE q # p
    <3>1. Less(n, n, o, ord, q) /\ \A t \in Servers : o2[t][q] = o[t][q]
      BY <1>1, <1>4, <2>2, LessSame
    <3> QED BY <1>1, <2>1, <3>1, ControlLess
  <2>3. CASE q = p
    <3>1. \A t \in Servers : o2[t][p] # None => t = s
      BY <1>4, <1>5
    <3>2. Free(n, Load(p)) /\ ~Absent(o, p)
      BY <2>1, <2>3 DEF Control, Absent
    <3>3. Control(o2, n, ord, p)
      BY <1>3, <1>4, <1>6, <2>1, <2>3, <3>1, <3>2 DEF Control
    <3> QED BY <2>3, <3>3
  <2> QED BY <2>2, <2>3
<1>8. ASSUME NEW q \in Players \ {p}, NEW R, Worth(o, n, b, q, R) PROVE Worth(o2, n, b, q, R)
  <2>1. \A t \in Servers : o2[t][q] = o[t][q]
    BY <1>4
  <2> QED BY <1>8, <2>1, WorthWide
<1>9. ASSUME NEW u \in Nat, NEW v \in Nat, Worth(o, n, b, p, u .. v)
      PROVE  Worth(o2, n, b, p, u .. (v + 1))
  <2>1. x.bank \in u .. (v + 1)
    <3>1. o[s][p].bank \in u .. v
      BY <1>2, <1>9, WorthParts
    <3> QED BY <1>3, <3>1, WideFact
  <2>2. CarriedIn(n, p, u .. (v + 1))
    BY <1>9, WorthParts, WideFact DEF CarriedIn
  <2>3. \A t \in Servers : o2[t][p] # None => o2[t][p].bank \in (u .. (v + 1)) \union {NotLoaded}
    BY <1>4, <1>5, <2>1
  <2>4. ~\A t \in Servers : o2[t][p] # None => ~o2[t][p].dirty
    BY <1>3, <1>4
  <2> QED BY <2>2, <2>3, <2>4, WorthParts
<1>10. Typed(o2, n, b, ord)
  BY <1>4, HeldType DEF Typed
<1>11. Rows(n, b, tr)
  BY HeldGood, GoodType
<1>12. Good(o2, n, b, ord, tr)
  BY <1>7, <1>8, <1>9, <1>10, <1>11, HeldUp
<1> QED BY <1>12 DEF o2

\* The database credits a row.
LEMMA HeldRow ==
    ASSUME NEW o, NEW n, NEW b, NEW ord, NEW tr \in Nat, Held(o, n, b, ord, tr), NEW p \in Players
    PROVE  Good(o, n, [b EXCEPT ![p] = @ + 1], ord, tr)
<1> DEFINE b2 == [b EXCEPT ![p] = @ + 1]
<1>1. /\ n \in Nets /\ b \in [Players -> Nat] /\ SavesIn(n, AtStart)
      /\ \A q \in Players : Control(o, n, ord, q)
  BY HeldType
<1>2. b2 \in [Players -> Nat] /\ b2[p] = b[p] + 1 /\ \A q \in Players \ {p} : b2[q] = b[q]
  BY <1>1
<1> HIDE DEF b2
<1>3. Typed(o, n, b2, ord)
  BY <1>2, HeldType DEF Typed
<1>4. Rows(n, b2, tr)
  <2>1. Count(n, Moving) \in Nat /\ AtStart \in Nat
    BY <1>1, CountFact, StartFact
  <2>2. Count(n, Moving) <= tr
    BY <2>1 DEF Held
  <2>3. ASSUME NEW q \in Players PROVE b2[q] + Count(n, Moving) <= AtStart + tr
    <3>1. b[q] \in Nat /\ b2[q] <= b[q] + 1 /\ b2[q] \in Nat
      BY <1>1, <1>2
    <3>2. b[q] + Count(n, Moving) + 1 <= AtStart + tr
      BY DEF Held
    <3> QED BY <2>1, <3>1, <3>2
  <2> QED BY <1>1, <2>2, <2>3, RowsParts
<1>5. ASSUME NEW q \in Players \ {p}, NEW R, Worth(o, n, b, q, R) PROVE Worth(o, n, b2, q, R)
  BY <1>2, <1>5, WorthWide
<1>6. ASSUME NEW u \in Nat, NEW v \in Nat, Worth(o, n, b, p, u .. v)
      PROVE  Worth(o, n, b2, p, u .. (v + 1))
  <2>1. ASSUME FinalIn(n, b, p, u .. v) PROVE FinalIn(n, b2, p, u .. (v + 1))
    <3>1. FinalIn(n, b, p, u .. (v + 1))
      BY <2>1, WideFact, FinalWide
    <3>2. Free(n, Save(p)) => b2[p] \in u .. (v + 1)
      BY <1>2, <2>1, WideFact DEF FinalIn
    <3> QED BY <3>1, <3>2 DEF FinalIn
  <2>2. CarriedIn(n, p, u .. (v + 1))
    BY <1>6, WorthParts, WideFact DEF CarriedIn
  <2>3. \A t \in Servers : o[t][p] # None => o[t][p].bank \in (u .. (v + 1)) \union {NotLoaded}
    BY <1>6, WorthParts, WideFact
  <2> QED BY <1>6, <2>1, <2>2, <2>3, WorthParts
<1>7. Good(o, n, b2, ord, tr)
  BY <1>1, <1>3, <1>4, <1>5, <1>6, HeldUp
<1> QED BY <1>7 DEF b2

\* A transfer debits its sender.
LEMMA GoodDebit ==
    ASSUME NEW o, NEW n, NEW b, NEW ord, NEW tr \in Nat, Good(o, n, b, ord, tr),
           NEW s \in Servers, NEW p \in Players, o[s][p] # None, o[s][p].bank \in Nat \ {0},
           ~o[s][p].asked, Free(n, Change(p)),
           NEW x \in Objects, x.bank = o[s][p].bank - 1, x.dirty
    PROVE  Held([o EXCEPT ![s][p] = x], n, b, ord, tr + 1)
<1> DEFINE o2 == [o EXCEPT ![s][p] = x]
<1>1. /\ n \in Nets /\ o \in [Servers -> [Players -> Objects \union {None}]]
      /\ b \in [Players -> Nat] /\ ord \subseteq Recharged /\ Rows(n, b, tr)
      /\ \A q \in Players : Control(o, n, ord, q)
  BY GoodType
<1>2. o[s][p] \in Objects
  BY <1>1
<1>3. x \in Objects /\ x.bank = o[s][p].bank - 1 /\ x.dirty /\ x.bank \in Nat
  OBVIOUS
<1>4. /\ o2 \in [Servers -> [Players -> Objects \union {None}]] /\ o2[s][p] = x /\ x # None
      /\ \A t \in Servers : \A q \in Players \ {p} : o2[t][q] = o[t][q]
      /\ \A t \in Servers \ {s} : o2[t][p] = o[t][p]
  BY <1>1, <1>3, ObjFact, NoneFact
<1>5. \A t \in Servers \ {s} : o[t][p] = None
  BY <1>1 DEF Control
<1> HIDE DEF o2
<1>6. x.bank # NotLoaded /\ o[s][p].bank # NotLoaded
  BY <1>3 DEF NotLoaded
<1>7. Free(n, Load(p))
  BY <1>1 DEF Control
<1>8. ASSUME NEW q \in Players PROVE Control(o2, n, ord, q)
  <2>1. Control(o, n, ord, q)
    BY <1>1
  <2>2. CASE q # p
    <3>1. Less(n, n, o, ord, q) /\ \A t \in Servers : o2[t][q] = o[t][q]
      BY <1>1, <1>4, <2>2, LessSame
    <3> QED BY <1>1, <2>1, <3>1, ControlLess
  <2>3. CASE q = p
    <3>1. \A t \in Servers : o2[t][p] # None => t = s
      BY <1>4, <1>5
    <3>2. ~Absent(o, p)
      BY DEF Absent
    <3>3. Control(o2, n, ord, p)
      BY <1>3, <1>4, <1>6, <1>7, <2>1, <2>3, <3>1, <3>2 DEF Control
    <3> QED BY <2>3, <3>3
  <2> QED BY <2>2, <2>3
<1>9. ASSUME NEW q \in Players \ {p}, NEW R, Worth(o, n, b, q, R) PROVE Worth(o2, n, b, q, R)
  <2>1. \A t \in Servers : o2[t][q] = o[t][q]
    BY <1>4
  <2> QED BY <1>9, <2>1, WorthWide
<1>10. \A R : CarriedIn(n, p, R)
  <2>1. /\ \A k \in Queues : \A i \in 1..Len(n[k]) : n[k][i] \notin Change(p)
        /\ \A k \in Queues : \A i \in 1..Len(n[k]) : n[k][i] \notin Load(p)
    BY <1>1, <1>7, CountFact
  <2>2. Carries(p) \subseteq Change(p) \union Load(p)
    BY DEF Carries, Change, Load, Of
  <2> QED BY <2>1, <2>2 DEF CarriedIn
<1>11. PICK lo, hi \in [Players -> Nat] : Bounded(o, n, b, ord, tr, lo, hi)
  BY DEF Good
<1>12. o[s][p].bank \in lo[p] .. hi[p]
  <2>1. Worth(o, n, b, p, lo[p] .. hi[p])
    BY <1>11 DEF Bounded
  <2> QED BY <1>6, <2>1, WorthParts
<1>13. hi[p] # 0 /\ hi[p] \in Nat /\ lo[p] \in Nat
  BY <1>12
<1>14. PICK h2 \in [Players -> Nat] : h2 = [hi EXCEPT ![p] = @ - 1] /\ Total(h2) = Total(hi) - 1
  BY <1>13, SumDown
<1>15. PICK l2 \in [Players -> Nat] :
         /\ \A q \in Players \ {p} : l2[q] = lo[q]
         /\ l2[p] = IF lo[p] = 0 THEN 0 ELSE lo[p] - 1
         /\ Total(l2) >= Total(lo) - 1
  <2>1. CASE lo[p] = 0
    <3>1. Total(lo) \in Nat
      BY SumType
    <3> QED BY <2>1, <3>1
  <2>2. CASE lo[p] # 0
    <3> DEFINE g == [lo EXCEPT ![p] = @ - 1]
    <3>1. g \in [Players -> Nat] /\ Total(g) = Total(lo) - 1
      BY <2>2, SumDown
    <3>2. Total(lo) \in Nat
      BY SumType
    <3>3. (\A q \in Players \ {p} : g[q] = lo[q]) /\ g[p] = lo[p] - 1
      OBVIOUS
    <3> HIDE DEF g
    <3>4. Total(g) >= Total(lo) - 1
      BY <3>1, <3>2
    <3> QED BY <2>2, <3>1, <3>3, <3>4
  <2> QED BY <2>1, <2>2
<1>16. ASSUME NEW q \in Players PROVE Worth(o2, n, b, q, l2[q] .. h2[q])
  <2>1. Worth(o, n, b, q, lo[q] .. hi[q])
    BY <1>11 DEF Bounded
  <2>2. CASE q # p
    <3>1. l2[q] = lo[q] /\ h2[q] = hi[q]
      BY <1>14, <1>15, <2>2
    <3> QED BY <1>9, <2>1, <2>2, <3>1
  <2>3. CASE q = p
    <3>1. x.bank \in l2[p] .. h2[p]
      <4>1. h2[p] = hi[p] - 1
        BY <1>14
      <4>2. l2[p] = IF lo[p] = 0 THEN 0 ELSE lo[p] - 1
        BY <1>15
      <4> QED BY <1>3, <1>12, <1>13, <4>1, <4>2
    <3>2. \A t \in Servers : o2[t][p] # None => o2[t][p].bank \in (l2[p] .. h2[p]) \union {NotLoaded}
      BY <1>4, <1>5, <3>1
    <3>3. ~\A t \in Servers : o2[t][p] # None => ~o2[t][p].dirty
      BY <1>3, <1>4
    <3> QED BY <1>10, <2>3, <3>2, <3>3, WorthParts
  <2> QED BY <2>2, <2>3
<1>17. Count(n, Moving) \in Nat /\ Cardinality(ord) \in Nat /\ AtStart \in Nat
       /\ Total(hi) \in Nat /\ Total(lo) \in Nat /\ Total(l2) \in Nat
  BY <1>1, CountFact, OrdersFact, StartFact, SumType
<1>18. Total(hi) + Cardinality(ord) + Count(n, Moving) <= AtStart
       /\ Total(lo) + Cardinality(ord) + tr >= AtStart
  BY <1>11 DEF Bounded
<1>19. /\ Total(h2) + Cardinality(ord) + Count(n, Moving) + 1 <= AtStart
       /\ Total(h2) + Cardinality(ord) + Count(n, Moving) <= AtStart
       /\ Total(l2) + Cardinality(ord) + (tr + 1) >= AtStart
  BY <1>14, <1>15, <1>17, <1>18
<1>20. Bounded(o2, n, b, ord, tr + 1, l2, h2)
  BY <1>16, <1>19 DEF Bounded
<1>21. Count(n, Moving) + 1 <= tr + 1
  <2>1. Count(n, Moving) <= tr
    BY <1>1, RowsParts
  <2> QED BY <1>17, <2>1
<1>22. ASSUME NEW q \in Players PROVE b[q] + Count(n, Moving) + 1 <= AtStart + (tr + 1)
  <2>1. b[q] + Count(n, Moving) <= AtStart + tr /\ b[q] \in Nat
    BY <1>1, RowsParts
  <2> QED BY <1>17, <2>1
<1>23. Typed(o2, n, b, ord) /\ SavesIn(n, AtStart)
  BY <1>4, GoodType DEF Typed
<1>24. Held(o2, n, b, ord, tr + 1)
  BY <1>8, <1>19, <1>20, <1>21, <1>22, <1>23 DEF Held
<1> QED BY <1>24 DEF o2

-----------------------------------------------------------------------------
(* A recharge becomes a part of what its player has *)

LEMMA GoodMark ==
    ASSUME NEW o, NEW n, NEW b, NEW ord, NEW tr \in Nat, Good(o, n, b, ord, tr),
           NEW i \in 1..Len(n[Recharges]), NEW p \in Players, NEW s \in Servers, NEW v \in Nat,
           n[Recharges][i].type = "mark", n[Recharges][i].p = p, n[Recharges][i].bank = v
    PROVE  Good(o, Put(Put(Gone(n, Recharges, i), Pool, [type |-> "save", p |-> p, bank |-> v + 1]),
                       <<Db, s>>, LoadedMsg(p, v + 1)), b, ord \ {p}, tr)
<1> DEFINE k == <<Db, s>>
           c == n[Recharges][i]
           sv == [type |-> "save", p |-> p, bank |-> v + 1]
           ld == LoadedMsg(p, v + 1)
           n1 == Gone(n, Recharges, i)
           n2 == Put(n1, Pool, sv)
           n3 == Put(n2, k, ld)
           ord2 == ord \ {p}
<1>1. /\ n \in Nets /\ Sorted(n) /\ SavesIn(n, AtStart) /\ Rows(n, b, tr)
      /\ o \in [Servers -> [Players -> Objects \union {None}]] /\ b \in [Players -> Nat]
      /\ ord \subseteq Recharged /\ \A q \in Players : Control(o, n, ord, q)
  BY GoodType
<1>2. /\ Recharges \in Queues /\ Pool \in Queues /\ k \in Queues /\ k # Pool
      /\ \A t \in Servers : <<t, Db>> # Pool /\ <<t, Db>> \in Queues /\ <<t, Db>> # k
  BY LinkFact, QueueFact DEF Pool, Db
<1>3. c \in Mails
  BY <1>1, <1>2, NetFact
<1>4. v + 1 \in Nat
  OBVIOUS
<1>5. /\ sv \in Mails /\ sv.type = "save" /\ sv.p = p /\ sv.bank = v + 1
      /\ ld \in Mails /\ ld.type = "DS_LoadPlayerData" /\ ld.p = p /\ ld.bank = v + 1
  <2>1. sv \in Values /\ ld \in Values
    BY <1>4 DEF Values, LoadedMsg
  <2>2. sv.type = "save" /\ sv.p = p /\ sv.bank = v + 1
    OBVIOUS
  <2>3. ld.type = "DS_LoadPlayerData" /\ ld.p = p /\ ld.bank = v + 1
    BY DEF LoadedMsg
  <2> HIDE DEF sv, ld
  <2> QED BY <2>1, <2>2, <2>3, MailsFact
<1> HIDE DEF sv, ld
<1>6. sv.type \in Carried(Pool) /\ ld.type \in Carried(k)
  BY <1>5, LinkFact DEF Carried, Lookups, Found, Pool, Recharges, Login, Db, Redis
<1>7. /\ c \in Mark(p) /\ c \in Load(p) /\ c \in Unread(p) /\ c \in Carries(p)
      /\ c \notin Moving /\ sv \notin Moving /\ ld \notin Moving
      /\ c.type \notin SaveTypes /\ ld.type \notin SaveTypes
      /\ sv \in Save(p) /\ ld \in Load(p) /\ ld \in Carries(p)
      /\ \A q : c \notin Save(q) /\ ld \notin Save(q) /\ sv \notin Carries(q)
      /\ \A C \in {Note(p), Change(p), Between(p), Unread(p), Mark(p)} : sv \notin C /\ ld \notin C
      /\ sv \notin Load(p)
  BY <1>3, <1>5 DEF Mark, Load, Unread, Carries, Moving, SaveTypes, Save, Note, Change, Between, Of
<1>8. \A q : q # p => /\ Others(sv, q) /\ Others(ld, q) /\ sv \notin Save(q) /\ ld \notin Carries(q)
  BY <1>5 DEF Others, Save, Carries, Of
\* What there was of p.
<1>9. /\ p \in ord /\ Free(n, Change(p)) /\ Free(n, Save(p)) /\ Free(n, Between(p))
      /\ Count(n, Load(p)) <= 1 /\ Count(n, Note(p)) <= 1
      /\ \A t \in Servers : o[t][p] # None => o[t][p].asked /\ o[t][p].bank = NotLoaded
  <2>1. ~Free(n, Mark(p)) /\ ~Free(n, Load(p)) /\ ~Free(n, Unread(p))
    BY <1>1, <1>2, <1>7, FreeFact
  <2>2. Free(n, Change(p))
    BY <1>1, <2>1 DEF Control
  <2>3. Free(n, Between(p))
    BY <1>1, <2>2, KindFact, FreeSub
  <2> QED BY <1>1, <2>1, <2>2, <2>3 DEF Control
\* The queues.
<1>10. n1 \in Nets /\ Sorted(n1) /\ SavesIn(n1, AtStart) /\ Count(n1, Moving) <= Count(n, Moving)
  BY <1>1, <1>2, GoneFact, SortedGone, SavesGone, CountGone
<1>11. /\ \A C : Free(n, C) => Free(n1, C)
       /\ \A C : c \in C /\ Count(n, C) <= 1 => Free(n1, C)
       /\ \A C : Count(n1, C) <= Count(n, C)
       /\ \A q : Less(n, n1, o, ord, q)
  BY <1>1, <1>2, FreeFact, CountGone, LessGone
<1>12. /\ \A j \in Queues : j # Recharges => n1[j] = n[j]
  BY <1>1, <1>2, GoneFact
<1>13. \A q : \A R : Worth(o, n, b, q, R) => Worth(o, n1, b, q, R)
  BY <1>1, <1>2, <1>7, WorthGone
<1> HIDE DEF n1
<1>14. n2 \in Nets /\ Sorted(n2) /\ Count(n2, Moving) <= Count(n1, Moving)
  BY <1>2, <1>5, <1>6, <1>7, <1>10, PutFact, SortedPut, CountPut
<1>15. /\ \A C : Free(n2, C) <=> Free(n1, C) /\ sv \notin C
       /\ \A q : q # p => Less(n1, n2, o, ord, q)
       /\ \A t \in Servers : LinkFree(n1, t, p) => LinkFree(n2, t, p)
       /\ \A C : sv \notin C => Count(n2, C) <= Count(n1, C)
  BY <1>2, <1>5, <1>8, <1>10, FreePut, LessPut, LinkPut, CountPut
<1>16. n2[Pool] = Append(n1[Pool], sv) /\ \A j \in Queues : j # Pool => n2[j] = n1[j]
  BY <1>2, <1>10 DEF Put, Nets
<1>17. \A q : \A R : q # p /\ Worth(o, n1, b, q, R) => Worth(o, n2, b, q, R)
  BY <1>2, <1>5, <1>7, <1>8, <1>10, WorthPut
<1> HIDE DEF n2
<1>18. n3 \in Nets /\ Sorted(n3) /\ Count(n3, Moving) <= Count(n2, Moving)
  BY <1>2, <1>5, <1>6, <1>7, <1>14, PutFact, SortedPut, CountPut
<1>19. /\ \A C : Free(n3, C) <=> Free(n2, C) /\ ld \notin C
       /\ \A C : Free(n2, C) => Count(n3, C) <= 1
       /\ \A C : ld \notin C => Count(n3, C) <= Count(n2, C)
       /\ \A q : q # p => Less(n2, n3, o, ord, q)
       /\ \A t \in Servers : LinkFree(n2, t, p) => LinkFree(n3, t, p)
  BY <1>2, <1>5, <1>7, <1>8, <1>14, SentFact, LessPut, LinkPut, CountPut
<1>20. n3[k] = Append(n2[k], ld) /\ \A j \in Queues : j # k => n3[j] = n2[j]
  BY <1>2, <1>14 DEF Put, Nets
<1>21. \A q : \A R : q # p /\ Worth(o, n2, b, q, R) => Worth(o, n3, b, q, R)
  BY <1>2, <1>5, <1>7, <1>8, <1>14, WorthPut
<1> HIDE DEF n3, c, k
<1>22. /\ Free(n3, Change(p)) /\ Free(n3, Between(p)) /\ Free(n3, Unread(p)) /\ Free(n3, Mark(p))
       /\ (Free(n, Note(p)) => Free(n3, Note(p)))
  <2>1. Free(n1, Load(p))
    BY <1>7, <1>9, <1>11
  <2>2. Free(n1, Unread(p)) /\ Free(n1, Mark(p))
    BY <1>10, <2>1, KindFact, FreeSub
  <2> QED BY <1>7, <1>9, <1>11, <1>15, <1>19, <2>2
<1>23. Count(n3, Note(p)) <= 1 /\ Count(n3, Change(p)) <= 1 /\ Count(n3, Load(p)) <= 1
  <2>1. Count(n3, Load(p)) <= 1
    BY <1>7, <1>9, <1>11, <1>15, <1>19
  <2>2. Count(n3, Change(p)) <= 1
    BY <1>18, <1>22, FreeCount
  <2>3. Count(n3, Note(p)) <= Count(n2, Note(p)) /\ Count(n2, Note(p)) <= Count(n1, Note(p))
        /\ Count(n1, Note(p)) <= Count(n, Note(p))
    BY <1>7, <1>11, <1>15, <1>19
  <2>4. /\ Count(n3, Note(p)) \in Nat /\ Count(n2, Note(p)) \in Nat /\ Count(n1, Note(p)) \in Nat
        /\ Count(n, Note(p)) \in Nat
    BY <1>1, <1>10, <1>14, <1>18, CountFact
  <2> QED BY <1>9, <2>1, <2>2, <2>3, <2>4
<1>24. \A t \in Servers : LinkFree(n3, t, p)
  <2>1. \A t \in Servers : LinkFree(n1, t, p)
    BY <1>9, <1>10, <1>11, LinkAll
  <2> QED BY <1>15, <1>19, <2>1
<1>25. ASSUME NEW q \in Players PROVE Control(o, n3, ord2, q)
  <2>1. Control(o, n, ord, q)
    BY <1>1
  <2>2. CASE q # p
    <3>1. Less(n, n3, o, ord, q)
      BY <1>1, <1>10, <1>11, <1>14, <1>15, <1>18, <1>19, <2>2, LessTrans
    <3>2. q \in ord => q \in ord2
      BY <2>2
    <3> QED BY <1>1, <1>18, <2>1, <3>1, <3>2, ControlLess
  <2>3. CASE q = p
    BY <1>9, <1>22, <1>23, <1>24, <2>1, <2>3 DEF Control
  <2> QED BY <2>2, <2>3
\* The balances.
<1>26. PICK lo, hi \in [Players -> Nat] : Bounded(o, n, b, ord, tr, lo, hi)
  BY DEF Good
<1>27. v \in lo[p] .. hi[p]
  <2>1. CarriedIn(n, p, lo[p] .. hi[p])
    BY <1>26, WorthParts DEF Bounded
  <2>2. c.bank \in (lo[p] .. hi[p]) \union {NotLoaded}
    BY <1>2, <1>7, <2>1 DEF CarriedIn, c
  <2> QED BY <2>2 DEF c, NotLoaded
<1>28. PICK h2 \in [Players -> Nat] : h2 = [hi EXCEPT ![p] = @ + 1] /\ Total(h2) = Total(hi) + 1
  BY SumUp
<1>29. PICK l2 \in [Players -> Nat] : l2 = [lo EXCEPT ![p] = @ + 1] /\ Total(l2) = Total(lo) + 1
  BY SumUp
<1>30. v + 1 \in l2[p] .. h2[p]
  <2>1. l2[p] = lo[p] + 1 /\ h2[p] = hi[p] + 1 /\ lo[p] \in Nat /\ hi[p] \in Nat
    BY <1>28, <1>29
  <2> QED BY <1>27, <2>1
<1>31. Worth(o, n3, b, p, l2[p] .. h2[p])
  <2> DEFINE R == l2[p] .. h2[p]
  <2> HIDE DEF R
  <2>0. v + 1 \in R
    BY <1>30 DEF R
  <2>1. CarriedIn(n1, p, R)
    <3>1. Free(n1, Change(p)) /\ Free(n1, Load(p))
      BY <1>7, <1>9, <1>11
    <3>2. /\ \A j \in Queues : \A h \in 1..Len(n1[j]) : n1[j][h] \notin Change(p)
          /\ \A j \in Queues : \A h \in 1..Len(n1[j]) : n1[j][h] \notin Load(p)
      BY <1>10, <3>1, CountFact
    <3>3. Carries(p) \subseteq Change(p) \union Load(p)
      BY DEF Carries, Change, Load, Of
    <3> QED BY <3>2, <3>3 DEF CarriedIn
  <2>2. CarriedIn(n2, p, R)
    BY <1>2, <1>5, <1>7, <1>10, <2>1, CarriedPut DEF n2
  <2>3. CarriedIn(n3, p, R)
    BY <1>2, <1>5, <1>14, <2>0, <2>2, CarriedPut DEF n3
  <2>4. FinalIn(n3, b, p, R)
    <3>1. \A t \in Servers : LastIn(n3[<<t, Db>>], p, R)
      BY <1>24 DEF LinkFree, LastIn
    <3>2. n3[Pool] = Append(n1[Pool], sv) /\ n1[Pool] \in Seq(Mails)
      BY <1>2, <1>10, <1>16, <1>20, NetFact
    <3>3. LastIn(n3[Pool], p, R)
      BY <1>5, <1>7, <2>0, <3>2, LastPut
    <3>4. ~Free(n3, Save(p))
      BY <1>7, <1>15, <1>19
    <3> QED BY <3>1, <3>3, <3>4 DEF FinalIn
  <2>5. \A t \in Servers : o[t][p] # None => o[t][p].bank \in R \union {NotLoaded}
    BY <1>9
  <2>6. Worth(o, n3, b, p, R)
    BY <2>3, <2>4, <2>5, WorthParts
  <2> QED BY <2>6 DEF R
<1>32. ASSUME NEW q \in Players PROVE Worth(o, n3, b, q, l2[q] .. h2[q])
  <2>1. CASE q = p
    BY <1>31, <2>1
  <2>2. CASE q # p
    <3>1. Worth(o, n, b, q, lo[q] .. hi[q])
      BY <1>26 DEF Bounded
    <3>2. l2[q] = lo[q] /\ h2[q] = hi[q]
      BY <1>28, <1>29, <2>2
    <3> QED BY <1>13, <1>17, <1>21, <2>2, <3>1, <3>2
  <2> QED BY <2>1, <2>2
<1>33. Cardinality(ord2) = Cardinality(ord) - 1 /\ Cardinality(ord) \in Nat
  <2>1. IsFiniteSet(ord) /\ Cardinality(ord) \in Nat
    BY <1>1, OrdersFact
  <2>2. Cardinality(ord \ {p}) = IF p \in ord THEN Cardinality(ord) - 1 ELSE Cardinality(ord)
    BY <2>1, FS_RemoveElement
  <2> QED BY <1>9, <2>1, <2>2
<1>34. /\ Count(n3, Moving) \in Nat /\ Count(n2, Moving) \in Nat /\ Count(n1, Moving) \in Nat
       /\ Count(n, Moving) \in Nat
  BY <1>1, <1>10, <1>14, <1>18, CountFact
<1>35. Count(n3, Moving) <= Count(n, Moving)
  BY <1>10, <1>14, <1>18, <1>34
<1>36. /\ Total(h2) + Cardinality(ord2) + Count(n3, Moving) <= AtStart
       /\ Total(l2) + Cardinality(ord2) + tr >= AtStart
  <2>1. Total(hi) \in Nat /\ Total(lo) \in Nat /\ AtStart \in Nat
    BY SumType, StartFact
  <2>2. Total(hi) + Cardinality(ord) + Count(n, Moving) <= AtStart
        /\ Total(lo) + Cardinality(ord) + tr >= AtStart
    BY <1>26 DEF Bounded
  <2>3. Total(h2) = Total(hi) + 1 /\ Total(l2) = Total(lo) + 1
    BY <1>28, <1>29
  <2>4. Cardinality(ord2) \in Nat /\ Cardinality(ord2) = Cardinality(ord) - 1
    BY <1>1, <1>33, OrdersFact
  <2> HIDE DEF ord2
  <2>5. Total(h2) + Cardinality(ord2) = Total(hi) + Cardinality(ord)
    BY <1>33, <2>1, <2>3, <2>4
  <2>6. Total(l2) + Cardinality(ord2) = Total(lo) + Cardinality(ord)
    BY <1>33, <2>1, <2>3, <2>4
  <2>7. Total(h2) + Cardinality(ord2) + Count(n3, Moving) <= AtStart
    BY <1>33, <1>34, <1>35, <2>1, <2>2, <2>5
  <2> QED BY <2>2, <2>6, <2>7
<1>37. Bounded(o, n3, b, ord2, tr, l2, h2)
  BY <1>32, <1>36 DEF Bounded
<1>38. SavesIn(n3, AtStart)
  <2>1. v + 1 <= AtStart
    <3>1. h2[p] <= Total(h2) /\ Total(h2) \in Nat /\ h2[p] \in Nat /\ l2[p] \in Nat
      BY SumPart, SumType
    <3>2. Cardinality(ord2) \in Nat /\ AtStart \in Nat
      BY <1>1, OrdersFact, StartFact
    <3> QED BY <1>30, <1>34, <1>36, <3>1, <3>2
  <2>2. SavesIn(n2, AtStart)
    BY <1>2, <1>5, <1>10, <2>1, SavesPut DEF n2
  <2> QED BY <1>2, <1>5, <1>7, <1>14, <2>2, SavesPut DEF n3
<1>39. Rows(n3, b, tr)
  BY <1>1, <1>18, <1>35, <1>38, RowsKept
<1>40. Typed(o, n3, b, ord2)
  BY <1>1, <1>18 DEF Typed
<1>41. Good(o, n3, b, ord2, tr)
  BY <1>25, <1>37, <1>39, <1>40 DEF Good
<1> QED BY <1>41 DEF n3, n2, n1, k, sv, ld

-----------------------------------------------------------------------------
(* The queues of a state *)

LEMMA CarriedFact ==
    /\ Carried(Lookups) = {"S_BankTransferByGuid"} /\ Carried(Found) = {"closure"}
    /\ Carried(Pool) = {"save", "load", "add"} /\ Carried(Recharges) = {"select", "mark"}
    /\ Carried(<<Login, Db>>) = {"S_BankTransferByGuid"}
    /\ \A s \in Servers :
         /\ Carried(<<s, Login>>) = {"SS_ChangeGame", "SL_ChangeGameResult", "S_BankTransferByGuid"}
         /\ Carried(<<Login, s>>) = {"LS_LoginNotify", "LS_ChangeGameResult", "SL_ChangeGameResult",
                                     "LS_BankTransferByGuid"}
         /\ Carried(<<s, Db>>) = {"SD_QueryPlayerData", "SD_SavePlayerData"}
         /\ Carried(<<Db, s>>) = {"DS_LoadPlayerData", "DS_BankTransferByGuid"}
         /\ Carried(<<s, Redis>>) = {"redis"}
BY LinkFact DEF Carried, Lookups, Found, Pool, Recharges, Login, Db, Redis

LEMMA QueueSplit ==
    ASSUME NEW k \in Queues
    PROVE  \/ k \in {Lookups, Found, Pool, Recharges, <<Login, Db>>}
           \/ \E s \in Servers :
                k \in {<<s, Login>>, <<Login, s>>, <<s, Db>>, <<Db, s>>, <<s, Redis>>}
BY DEF Queues, Links

LEMMA MailFact ==
    ASSUME NEW n, NEW l, NEW f, NEW q, NEW r
    PROVE  /\ \A k \in Links : MailOf(n, l, f, q, r)[k] = n[k]
           /\ MailOf(n, l, f, q, r)[Lookups] = l /\ MailOf(n, l, f, q, r)[Found] = f
           /\ MailOf(n, l, f, q, r)[Pool] = q /\ MailOf(n, l, f, q, r)[Recharges] = r
           /\ MailOf(n, l, f, q, r) = [k \in Queues |-> MailOf(n, l, f, q, r)[k]]
BY LinkFact, QueueFact DEF MailOf

LEMMA MailPut ==
    ASSUME NEW n, DOMAIN n = Links, NEW l, NEW f, NEW q, NEW r, NEW k \in Links, NEW m
    PROVE  /\ MailOf(Put(n, k, m), l, f, q, r) = Put(MailOf(n, l, f, q, r), k, m)
           /\ DOMAIN Put(n, k, m) = Links
<1>1. DOMAIN Put(n, k, m) = Links
  BY DEF Put
<1>2. Put(n, k, m)[k] = Append(n[k], m) /\ \A j \in Links \ {k} : Put(n, k, m)[j] = n[j]
  BY DEF Put
<1>3. k \in Queues /\ k # Lookups /\ k # Found /\ k # Pool /\ k # Recharges
  BY LinkFact, QueueFact
<1>4. ASSUME NEW j \in Queues
      PROVE  MailOf(Put(n, k, m), l, f, q, r)[j] = Put(MailOf(n, l, f, q, r), k, m)[j]
  <2>1. j \in Links \/ j \in {Lookups, Found, Pool, Recharges}
    BY DEF Queues
  <2>2. Put(MailOf(n, l, f, q, r), k, m)[j]
          = IF j = k THEN Append(MailOf(n, l, f, q, r)[k], m) ELSE MailOf(n, l, f, q, r)[j]
    BY <1>3, MailFact DEF Put
  <2>3. CASE j = k
    BY <1>2, <2>2, <2>3, MailFact
  <2>4. CASE j # k /\ j \in Links
    BY <1>2, <2>2, <2>4, MailFact
  <2>5. CASE j # k /\ j \in {Lookups, Found, Pool, Recharges}
    BY <2>2, <2>5, MailFact
  <2> QED BY <2>1, <2>3, <2>4, <2>5
<1>5. /\ MailOf(Put(n, k, m), l, f, q, r) = [j \in Queues |-> MailOf(Put(n, k, m), l, f, q, r)[j]]
      /\ Put(MailOf(n, l, f, q, r), k, m) = [j \in Queues |-> Put(MailOf(n, l, f, q, r), k, m)[j]]
  <2> DEFINE M == MailOf(n, l, f, q, r)
  <2>1. M = [j \in Queues |-> M[j]]
    BY MailFact
  <2> HIDE DEF M
  <2>2. DOMAIN M = Queues
    BY <2>1
  <2>3. Put(M, k, m) = [j \in DOMAIN M |-> Put(M, k, m)[j]]
    BY DEF Put
  <2> QED BY <2>2, <2>3, MailFact DEF M
<1> QED BY <1>1, <1>4, <1>5

LEMMA MailPost ==
    ASSUME NEW n, NEW l, NEW f, NEW q, NEW r, NEW m
    PROVE  /\ MailOf(n, Append(l, m), f, q, r) = Put(MailOf(n, l, f, q, r), Lookups, m)
           /\ MailOf(n, l, Append(f, m), q, r) = Put(MailOf(n, l, f, q, r), Found, m)
           /\ MailOf(n, l, f, Append(q, m), r) = Put(MailOf(n, l, f, q, r), Pool, m)
           /\ MailOf(n, l, f, q, Append(r, m)) = Put(MailOf(n, l, f, q, r), Recharges, m)
BY LinkFact, QueueFact DEF MailOf, Put

LEMMA MailGone ==
    ASSUME NEW n, DOMAIN n = Links, NEW l, NEW f, NEW q, NEW r, MailOf(n, l, f, q, r) \in Nets
    PROVE  /\ \A k \in Links : n[k] # <<>> =>
                /\ MailOf([n EXCEPT ![k] = Tail(@)], l, f, q, r) = Gone(MailOf(n, l, f, q, r), k, 1)
                /\ DOMAIN [n EXCEPT ![k] = Tail(@)] = Links
                /\ Head(n[k]) = MailOf(n, l, f, q, r)[k][1]
                /\ 1 \in 1..Len(MailOf(n, l, f, q, r)[k])
           /\ l # <<>> => /\ MailOf(n, Tail(l), f, q, r) = Gone(MailOf(n, l, f, q, r), Lookups, 1)
                          /\ Head(l) = MailOf(n, l, f, q, r)[Lookups][1] /\ 1 \in 1..Len(l)
           /\ f # <<>> => /\ MailOf(n, l, Tail(f), q, r) = Gone(MailOf(n, l, f, q, r), Found, 1)
                          /\ Head(f) = MailOf(n, l, f, q, r)[Found][1] /\ 1 \in 1..Len(f)
           /\ r # <<>> => /\ MailOf(n, l, f, q, Tail(r)) = Gone(MailOf(n, l, f, q, r), Recharges, 1)
                          /\ Head(r) = MailOf(n, l, f, q, r)[Recharges][1] /\ 1 \in 1..Len(r)
           /\ \A i : MailOf(n, l, f, RemoveAt(q, i), r) = Gone(MailOf(n, l, f, q, r), Pool, i)
<1>1. /\ \A k \in Links : n[k] \in Seq(Mails)
      /\ l \in Seq(Mails) /\ f \in Seq(Mails) /\ q \in Seq(Mails) /\ r \in Seq(Mails)
  BY MailFact, QueueFact, NetFact
<1>2. \A x \in Seq(Mails) : x # <<>> => Tail(x) = RemoveAt(x, 1) /\ Head(x) = x[1] /\ 1 \in 1..Len(x)
  BY TailRemove
<1>3. ASSUME NEW k \in Links, n[k] # <<>>
      PROVE  /\ MailOf([n EXCEPT ![k] = Tail(@)], l, f, q, r) = Gone(MailOf(n, l, f, q, r), k, 1)
             /\ DOMAIN [n EXCEPT ![k] = Tail(@)] = Links
             /\ Head(n[k]) = MailOf(n, l, f, q, r)[k][1]
             /\ 1 \in 1..Len(MailOf(n, l, f, q, r)[k])
  <2>1. Tail(n[k]) = RemoveAt(n[k], 1) /\ Head(n[k]) = n[k][1] /\ 1 \in 1..Len(n[k])
    BY <1>1, <1>2, <1>3
  <2>2. MailOf(n, l, f, q, r)[k] = n[k]
    BY MailFact
  <2>3. MailOf([n EXCEPT ![k] = RemoveAt(n[k], 1)], l, f, q, r)
          = [MailOf(n, l, f, q, r) EXCEPT ![k] = RemoveAt(n[k], 1)]
    BY LinkFact, QueueFact DEF MailOf
  <2> QED BY <2>1, <2>2, <2>3 DEF Gone
<1>4. ASSUME NEW v
      PROVE  /\ MailOf(n, v, f, q, r) = [MailOf(n, l, f, q, r) EXCEPT ![Lookups] = v]
             /\ MailOf(n, l, v, q, r) = [MailOf(n, l, f, q, r) EXCEPT ![Found] = v]
             /\ MailOf(n, l, f, v, r) = [MailOf(n, l, f, q, r) EXCEPT ![Pool] = v]
             /\ MailOf(n, l, f, q, v) = [MailOf(n, l, f, q, r) EXCEPT ![Recharges] = v]
  BY LinkFact, QueueFact DEF MailOf
<1>5. /\ MailOf(n, l, f, q, r)[Lookups] = l /\ MailOf(n, l, f, q, r)[Found] = f
      /\ MailOf(n, l, f, q, r)[Pool] = q /\ MailOf(n, l, f, q, r)[Recharges] = r
  BY MailFact
<1>6. ASSUME l # <<>>
      PROVE  /\ MailOf(n, Tail(l), f, q, r) = Gone(MailOf(n, l, f, q, r), Lookups, 1)
             /\ Head(l) = MailOf(n, l, f, q, r)[Lookups][1] /\ 1 \in 1..Len(l)
  BY <1>1, <1>2, <1>4, <1>5, <1>6 DEF Gone
<1>7. ASSUME f # <<>>
      PROVE  /\ MailOf(n, l, Tail(f), q, r) = Gone(MailOf(n, l, f, q, r), Found, 1)
             /\ Head(f) = MailOf(n, l, f, q, r)[Found][1] /\ 1 \in 1..Len(f)
  BY <1>1, <1>2, <1>4, <1>5, <1>7 DEF Gone
<1>8. ASSUME r # <<>>
      PROVE  /\ MailOf(n, l, f, q, Tail(r)) = Gone(MailOf(n, l, f, q, r), Recharges, 1)
             /\ Head(r) = MailOf(n, l, f, q, r)[Recharges][1] /\ 1 \in 1..Len(r)
  BY <1>1, <1>2, <1>4, <1>5, <1>8 DEF Gone
<1>9. \A i : MailOf(n, l, f, RemoveAt(q, i), r) = Gone(MailOf(n, l, f, q, r), Pool, i)
  BY <1>4, <1>5 DEF Gone
<1> QED BY <1>3, <1>6, <1>7, <1>8, <1>9

\* Where the messages of a type are.
LEMMA PlaceFact ==
    ASSUME NEW n \in Nets, Sorted(n), NEW k \in Queues, NEW i \in 1..Len(n[k])
    PROVE  /\ n[k][i].type = "LS_LoginNotify" => \E s \in Servers : k = <<Login, s>>
           /\ n[k][i].type \in {"SS_ChangeGame", "LS_ChangeGameResult", "SL_ChangeGameResult"} =>
                k \in Links
           /\ n[k][i].type \in {"SD_QueryPlayerData", "SD_SavePlayerData"} =>
                \E s \in Servers : k = <<s, Db>>
           /\ n[k][i].type \in {"save", "load"} => k = Pool
           /\ n[k][i].type \in {"select", "mark"} => k = Recharges
           /\ n[k][i].type = "DS_LoadPlayerData" => \E s \in Servers : k = <<Db, s>>
<1>1. n[k][i].type \in Carried(k)
  BY DEF Sorted
<1>2. CASE k \in {Lookups, Found, Pool, Recharges, <<Login, Db>>}
  BY <1>1, <1>2, CarriedFact
<1>3. CASE \E s \in Servers : k \in {<<s, Login>>, <<Login, s>>, <<s, Db>>, <<Db, s>>, <<s, Redis>>}
  <2>1. PICK s \in Servers : k \in {<<s, Login>>, <<Login, s>>, <<s, Db>>, <<Db, s>>, <<s, Redis>>}
    BY <1>3
  <2>2. k \in Links
    BY <2>1, LinkFact
  <2>3. CASE k = <<s, Login>>
    <3>1. n[k][i].type \in {"SS_ChangeGame", "SL_ChangeGameResult", "S_BankTransferByGuid"}
      BY <1>1, <2>3, CarriedFact
    <3> QED BY <2>2, <2>3, <3>1
  <2>4. CASE k = <<Login, s>>
    <3>1. n[k][i].type \in {"LS_LoginNotify", "LS_ChangeGameResult", "SL_ChangeGameResult",
                           "LS_BankTransferByGuid"}
      BY <1>1, <2>4, CarriedFact
    <3> QED BY <2>2, <2>4, <3>1
  <2>5. CASE k = <<s, Db>>
    <3>1. n[k][i].type \in {"SD_QueryPlayerData", "SD_SavePlayerData"}
      BY <1>1, <2>5, CarriedFact
    <3> QED BY <2>2, <2>5, <3>1
  <2>6. CASE k = <<Db, s>>
    <3>1. n[k][i].type \in {"DS_LoadPlayerData", "DS_BankTransferByGuid"}
      BY <1>1, <2>6, CarriedFact
    <3> QED BY <2>2, <2>6, <3>1
  <2>7. CASE k = <<s, Redis>>
    <3>1. n[k][i].type \in {"redis"}
      BY <1>1, <2>7, CarriedFact
    <3> QED BY <2>2, <2>7, <3>1
  <2> QED BY <2>1, <2>3, <2>4, <2>5, <2>6, <2>7
<1> QED BY <1>2, <1>3, QueueSplit

LEMMA ChangingFact ==
    ASSUME NEW p, DOMAIN net = Links, Mail \in Nets, Sorted(Mail), ~Changing(p)
    PROVE  Free(Mail, Change(p))
<1>1. ASSUME NEW k \in Queues, NEW i \in 1..Len(Mail[k]), Mail[k][i] \in Change(p) PROVE FALSE
  <2>1. Mail[k][i].type \in {"SS_ChangeGame", "LS_ChangeGameResult", "SL_ChangeGameResult"}
        /\ Mail[k][i].p = p
    BY <1>1 DEF Change, Of
  <2>2. k \in Links
    BY <2>1, PlaceFact
  <2>3. Mail[k] = net[k] /\ net[k] \in Seq(Mails)
    BY <2>2, MailFact, NetFact DEF Mail
  <2>4. i \in DOMAIN net[k]
    BY <2>3, LenProperties
  <2> QED BY <2>1, <2>2, <2>3, <2>4 DEF Changing
<1> QED BY <1>1, CountFact

LEMMA SettledFact ==
    ASSUME NEW p, DOMAIN net = Links, Mail \in Nets, Sorted(Mail), Settled(p)
    PROVE  Free(Mail, Load(p)) /\ Free(Mail, Save(p))
<1>1. /\ \A k \in Links : Mail[k] = net[k] /\ DOMAIN net[k] = 1..Len(Mail[k])
      /\ Mail[Pool] = pool /\ DOMAIN pool = 1..Len(pool)
      /\ Mail[Recharges] = recharges /\ DOMAIN recharges = 1..Len(recharges)
  <2>1. \A k \in Queues : Mail[k] \in Seq(Mails)
    BY NetFact
  <2> QED BY <2>1, MailFact, QueueFact, LenProperties DEF Mail
<1>2. ASSUME NEW k \in Queues, NEW i \in 1..Len(Mail[k])
      PROVE  Mail[k][i] \notin Load(p) /\ Mail[k][i] \notin Save(p)
  <2> DEFINE m == Mail[k][i]
  <2>1. ASSUME m.type \in {"SD_QueryPlayerData", "SD_SavePlayerData"} PROVE m.p # p
    <3>1. PICK s \in Servers : k = <<s, Db>>
      BY <2>1, PlaceFact
    <3>2. k \in Links
      BY <3>1, LinkFact
    <3>3. i \in DOMAIN net[<<s, Db>>] /\ m = net[<<s, Db>>][i]
      BY <1>1, <3>1, <3>2
    <3> QED BY <3>3 DEF Settled
  <2>2. ASSUME m.type \in {"save", "load"} PROVE m.p # p
    <3>1. k = Pool
      BY <2>2, PlaceFact
    <3>2. i \in DOMAIN pool /\ m = pool[i]
      BY <1>1, <3>1
    <3> QED BY <2>2, <3>2 DEF Settled
  <2>3. ASSUME m.type \in {"select", "mark"} PROVE m.p # p
    <3>1. k = Recharges
      BY <2>3, PlaceFact
    <3>2. i \in DOMAIN recharges /\ m = recharges[i]
      BY <1>1, <3>1
    <3> QED BY <3>2 DEF Settled
  <2>4. ASSUME m.type = "DS_LoadPlayerData" PROVE m.p # p
    <3>1. PICK s \in Servers : k = <<Db, s>>
      BY <2>4, PlaceFact
    <3>2. k \in Links
      BY <3>1, LinkFact
    <3>3. i \in DOMAIN net[<<Db, s>>] /\ m = net[<<Db, s>>][i]
      BY <1>1, <3>1, <3>2
    <3> QED BY <2>4, <3>3 DEF Settled
  <2> QED BY <2>1, <2>2, <2>3, <2>4 DEF Load, Save, Of
<1> QED BY <1>2, CountFact

-----------------------------------------------------------------------------
(* The actions *)

LEMMA StateFact ==
    ASSUME IInv
    PROVE  /\ DOMAIN net = Links /\ transfers \in Nat /\ Good(obj, Mail, bank, orders, transfers)
           /\ Mail \in Nets /\ Sorted(Mail)
           /\ obj \in [Servers -> [Players -> Objects \union {None}]] /\ bank \in [Players -> Nat]
           /\ orders \subseteq Recharged
           /\ \A p \in Players : Control(obj, Mail, orders, p)
           /\ \A k \in Links : k \in Queues /\ Mail[k] = net[k]
           /\ Mail[Lookups] = lookups /\ Mail[Found] = found
           /\ Mail[Pool] = pool /\ Mail[Recharges] = recharges
<1>1. DOMAIN net = Links /\ transfers \in Nat /\ Good(obj, Mail, bank, orders, transfers)
  BY MoneyAssumption DEF IInv, MoneyAssumption
<1>2. /\ Mail \in Nets /\ Sorted(Mail)
      /\ obj \in [Servers -> [Players -> Objects \union {None}]] /\ bank \in [Players -> Nat]
      /\ orders \subseteq Recharged
      /\ \A p \in Players : Control(obj, Mail, orders, p)
  BY <1>1, GoodType
<1>3. /\ \A k \in Links : k \in Queues /\ Mail[k] = net[k]
      /\ Mail[Lookups] = lookups /\ Mail[Found] = found
      /\ Mail[Pool] = pool /\ Mail[Recharges] = recharges
  BY MailFact, QueueFact DEF Mail
<1> QED BY <1>1, <1>2, <1>3

LEMMA ArriveFact ==
    ASSUME IInv, NEW k \in Links, net[k] # <<>>
    PROVE  /\ k \in Queues /\ 1 \in 1..Len(Mail[k])
           /\ Head(net[k]) = Mail[k][1] /\ Head(net[k]) \in Mails /\ Mail[k][1] \in Mails
           /\ Mail[k][1].type \in Carried(k)
           /\ MailOf(Took(k), lookups, found, pool, recharges) = Gone(Mail, k, 1)
           /\ DOMAIN Took(k) = Links /\ Gone(Mail, k, 1) \in Nets
<1>1. DOMAIN net = Links /\ Mail \in Nets /\ Sorted(Mail) /\ k \in Queues
  BY StateFact
<1>2. /\ MailOf([net EXCEPT ![k] = Tail(@)], lookups, found, pool, recharges) = Gone(Mail, k, 1)
      /\ DOMAIN [net EXCEPT ![k] = Tail(@)] = Links
      /\ Head(net[k]) = Mail[k][1] /\ 1 \in 1..Len(Mail[k])
  BY <1>1, MailGone DEF Mail
<1>3. Mail[k][1] \in Mails /\ Mail[k][1].type \in Carried(k)
  BY <1>1, <1>2, NetFact DEF Sorted
<1>4. Gone(Mail, k, 1) \in Nets
  BY <1>1, <1>2, GoneFact
<1> QED BY <1>1, <1>2, <1>3, <1>4 DEF Took

LEMMA SendFact ==
    ASSUME IInv, NEW k \in Links, NEW m
    PROVE  /\ MailOf(Put(net, k, m), lookups, found, pool, recharges) = Put(Mail, k, m)
           /\ DOMAIN Put(net, k, m) = Links
<1>1. DOMAIN net = Links
  BY StateFact
<1> QED BY <1>1, MailPut DEF Mail

LEMMA LetInStep ==
    ASSUME IInv, Patient, DbKeepsUp, NEW s \in Servers, NEW p \in Players, LetIn(p, s)
    PROVE  Good(obj', Mail', bank', orders', transfers') /\ DOMAIN net' = Links
<1>1. /\ DOMAIN net = Links /\ transfers \in Nat /\ Good(obj, Mail, bank, orders, transfers)
      /\ Mail \in Nets /\ Sorted(Mail) /\ \A k \in Links : Mail[k] = net[k]
  BY StateFact
<1>2. /\ \A t \in Servers : obj[t][p] = None
      /\ \A t \in Servers : \A i \in DOMAIN net[<<Login, t>>] : net[<<Login, t>>][i] # LoginNotify(p)
      /\ ~Changing(p)
  BY Zenon DEF LetIn, Present
<1>3. Absent(obj, p)
  BY <1>2 DEF Absent
<1>4. Free(Mail, Change(p))
  BY <1>1, <1>2, ChangingFact
<1>5. Free(Mail, Note(p))
  <2>1. ASSUME NEW k \in Queues, NEW i \in 1..Len(Mail[k]), Mail[k][i] \in Note(p) PROVE FALSE
    <3>1. Mail[k][i].type = "LS_LoginNotify" /\ Mail[k][i].p = p /\ Mail[k][i] \in Mails
      BY <2>1 DEF Note, Of
    <3>2. PICK t \in Servers : k = <<Login, t>>
      BY <1>1, <3>1, PlaceFact
    <3>3. k \in Links /\ Mail[k] = net[k] /\ Mail[k] \in Seq(Mails)
      BY <1>1, <3>2, LinkFact, NetFact
    <3>4. i \in DOMAIN net[<<Login, t>>] /\ Mail[k][i] = net[<<Login, t>>][i]
      BY <3>2, <3>3, LenProperties
    <3>5. Mail[k][i] = LoginNotify(p)
      <4>1. Mail[k][i] \in Notes
        BY <3>1 DEF Mails, Notes, Changes, Transfers, Closures, Credits, Queries, Loads, Reads, Values,
                    Notices
      <4> QED BY <3>1, <4>1 DEF Notes, LoginNotify
    <3> QED BY <1>2, <3>4, <3>5
  <2> QED BY <1>1, <2>1, CountFact
<1>6. Good(obj, Put(Mail, <<Login, s>>, LoginNotify(p)), bank, orders, transfers)
  BY <1>1, <1>3, <1>4, <1>5, GoodLetIn
<1>7. /\ MailOf(Put(net, <<Login, s>>, LoginNotify(p)), lookups, found, pool, recharges)
           = Put(Mail, <<Login, s>>, LoginNotify(p))
      /\ DOMAIN Put(net, <<Login, s>>, LoginNotify(p)) = Links
  BY LinkFact, SendFact
<1>8. /\ net' = Put(net, <<Login, s>>, LoginNotify(p))
      /\ UNCHANGED <<obj, lookups, found, pool, recharges, bank, orders, transfers>>
  BY DEF LetIn, login_vars, db_vars
<1> QED BY <1>6, <1>7, <1>8 DEF Mail

LEMMA OnLsLoginNotifyStep ==
    ASSUME IInv, Patient, DbKeepsUp, NEW s \in Servers, OnLsLoginNotify(s)
    PROVE  Good(obj', Mail', bank', orders', transfers') /\ DOMAIN net' = Links
<1> DEFINE k == <<Login, s>>
<1>1. /\ DOMAIN net = Links /\ transfers \in Nat /\ Good(obj, Mail, bank, orders, transfers)
      /\ Mail \in Nets /\ Sorted(Mail)
  BY StateFact
<1>2. k \in Links /\ net[k] # <<>>
  BY LinkFact DEF OnLsLoginNotify, Arrives
<1>3. /\ k \in Queues /\ 1 \in 1..Len(Mail[k]) /\ Head(net[k]) = Mail[k][1] /\ Mail[k][1] \in Mails
      /\ MailOf(Took(k), lookups, found, pool, recharges) = Gone(Mail, k, 1)
      /\ DOMAIN Took(k) = Links
  BY <1>2, ArriveFact
<1> DEFINE p == Mail[k][1].p
<1>4. /\ Mail[k][1].type = "LS_LoginNotify" /\ Settled(p)
      /\ obj' = [obj EXCEPT ![s][p] = Fresh(NotLoaded)] /\ net' = Took(k)
      /\ UNCHANGED <<lookups, found, pool, recharges, bank, orders, transfers>>
  BY <1>3 DEF OnLsLoginNotify, Arrives, login_vars, db_vars
<1>5. p \in Players
  BY <1>3, HeldFact
<1>6. Free(Mail, Load(p)) /\ Free(Mail, Save(p))
  BY <1>1, <1>4, SettledFact
<1>7. Mail[k][1] \in Note(p) \union Between(p)
  BY <1>3, <1>4 DEF Note, Of
<1>8. /\ Fresh(NotLoaded) \in Objects /\ ~Fresh(NotLoaded).dirty
      /\ \A R : Worth(obj, Mail, bank, p, R) => Fresh(NotLoaded).bank \in R \union {NotLoaded}
  BY DEF Fresh, Objects
<1>9. Good([obj EXCEPT ![s][p] = Fresh(NotLoaded)], Gone(Mail, k, 1), bank, orders, transfers)
  <2> HIDE DEF k, p
  <2> QED BY <1>1, <1>3, <1>5, <1>6, <1>7, <1>8, GoodEnter
<1> QED BY <1>3, <1>4, <1>9 DEF Mail

LEMMA RequestPlayerInfoStep ==
    ASSUME IInv, Patient, DbKeepsUp, NEW s \in Servers, NEW p \in Players, RequestPlayerInfo(s, p)
    PROVE  Good(obj', Mail', bank', orders', transfers') /\ DOMAIN net' = Links
<1>1. /\ DOMAIN net = Links /\ transfers \in Nat /\ Good(obj, Mail, bank, orders, transfers)
      /\ Mail \in Nets /\ Sorted(Mail)
  BY StateFact
<1>2. /\ obj[s][p] # None /\ ~obj[s][p].asked /\ ~Loaded(s, p) /\ ~Changing(p)
  BY Zenon DEF RequestPlayerInfo, Present
<1>3. obj[s][p].bank = NotLoaded
  BY <1>2 DEF Loaded, Present
<1>4. Free(Mail, Change(p))
  BY <1>1, <1>2, ChangingFact
<1>5. Good([obj EXCEPT ![s][p] = [@ EXCEPT !.asked = TRUE]], Put(Mail, <<s, Db>>, QueryMsg(p)),
           bank, orders, transfers)
  BY <1>1, <1>2, <1>3, <1>4, GoodRequest
<1>6. /\ MailOf(Put(net, <<s, Db>>, QueryMsg(p)), lookups, found, pool, recharges)
           = Put(Mail, <<s, Db>>, QueryMsg(p))
      /\ DOMAIN Put(net, <<s, Db>>, QueryMsg(p)) = Links
  BY LinkFact, SendFact
<1>7. /\ net' = Put(net, <<s, Db>>, QueryMsg(p))
      /\ obj' = [obj EXCEPT ![s][p].asked = TRUE]
      /\ UNCHANGED <<lookups, found, pool, recharges, bank, orders, transfers>>
  BY DEF RequestPlayerInfo, login_vars, db_vars
<1>8. obj' = [obj EXCEPT ![s][p] = [@ EXCEPT !.asked = TRUE]]
  BY <1>7
<1> QED BY <1>5, <1>6, <1>7, <1>8 DEF Mail

LEMMA OnDsLoadPlayerDataStep ==
    ASSUME IInv, Patient, DbKeepsUp, NEW s \in Servers, OnDsLoadPlayerData(s)
    PROVE  Good(obj', Mail', bank', orders', transfers') /\ DOMAIN net' = Links
<1> DEFINE k == <<Db, s>>
<1>1. /\ transfers \in Nat /\ Good(obj, Mail, bank, orders, transfers) /\ Mail \in Nets
      /\ obj \in [Servers -> [Players -> Objects \union {None}]]
  BY StateFact
<1>2. k \in Links /\ net[k] # <<>>
  BY LinkFact DEF OnDsLoadPlayerData, Arrives
<1>3. /\ k \in Queues /\ 1 \in 1..Len(Mail[k]) /\ Head(net[k]) = Mail[k][1] /\ Mail[k][1] \in Mails
      /\ MailOf(Took(k), lookups, found, pool, recharges) = Gone(Mail, k, 1)
      /\ DOMAIN Took(k) = Links
  BY <1>2, ArriveFact
<1> DEFINE m == Mail[k][1]
           p == m.p
<1>4. /\ m.type = "DS_LoadPlayerData" /\ net' = Took(k)
      /\ obj' = IF obj[s][p] # None THEN [obj EXCEPT ![s][p].bank = m.bank, ![s][p].asked = FALSE]
                ELSE obj
      /\ UNCHANGED <<lookups, found, pool, recharges, bank, orders, transfers>>
  BY <1>3 DEF OnDsLoadPlayerData, Arrives, Present, login_vars, db_vars
<1>5. p \in Players
  BY <1>3, HeldFact
<1> HIDE DEF k, p
<1>6. Good(obj', Gone(Mail, k, 1), bank, orders, transfers)
  <2>1. CASE obj[s][p] # None
    <3>1. obj' = [obj EXCEPT ![s][p] = [@ EXCEPT !.bank = m.bank, !.asked = FALSE]]
      BY <1>1, <1>4, <1>5, <2>1
    <3>2. Good([obj EXCEPT ![s][p] = [@ EXCEPT !.bank = m.bank, !.asked = FALSE]],
               Gone(Mail, k, 1), bank, orders, transfers)
      BY <1>1, <1>3, <1>4, <1>5, <2>1, GoodLoaded DEF p
    <3> QED BY <3>1, <3>2
  <2>2. CASE obj[s][p] = None
    <3>1. m.type \notin SaveTypes
      BY <1>4 DEF SaveTypes
    <3> QED BY <1>1, <1>3, <1>4, <2>2, <3>1, GoodGone
  <2> QED BY <2>1, <2>2
<1> QED BY <1>3, <1>4, <1>6 DEF Mail

LEMMA SavesFact ==
    ASSUME NEW n, DOMAIN n = Links, NEW l, NEW f, NEW q, NEW r, NEW s \in Servers, NEW p
    PROVE  /\ MailOf(Saves(n, s, p), l, f, q, r) = SavesOf(obj, MailOf(n, l, f, q, r), s, p)
           /\ DOMAIN Saves(n, s, p) = Links
<1>1. <<s, Db>> \in Links
  BY LinkFact
<1>2. CASE obj[s][p].dirty
  <2> DEFINE m == SaveMsg(p, obj[s][p].bank)
             k == <<s, Db>>
  <2>1. Saves(n, s, p) = Put(n, k, m) /\ SavesOf(obj, MailOf(n, l, f, q, r), s, p)
                                           = Put(MailOf(n, l, f, q, r), k, m)
    BY <1>2 DEF Saves, SavesOf
  <2> HIDE DEF m, k
  <2> QED BY <1>1, <2>1, MailPut DEF k
<1>3. CASE ~obj[s][p].dirty
  BY <1>3 DEF Saves, SavesOf
<1> QED BY <1>2, <1>3

LEMMA LogoutStep ==
    ASSUME IInv, Patient, DbKeepsUp, NEW s \in Servers, NEW p \in Players, Logout(s, p)
    PROVE  Good(obj', Mail', bank', orders', transfers') /\ DOMAIN net' = Links
<1> DEFINE o2 == [obj EXCEPT ![s][p] = None]
           n1 == Saves(net, s, p)
           m == RedisMsg(p, None)
           k == <<s, Redis>>
<1>1. /\ transfers \in Nat /\ Good(obj, Mail, bank, orders, transfers) /\ DOMAIN net = Links
  BY StateFact
<1>2. /\ obj[s][p] # None /\ obj' = o2 /\ net' = Put(n1, k, m)
      /\ UNCHANGED <<lookups, found, pool, recharges, bank, orders, transfers>>
  BY DEF Logout, Present, login_vars, db_vars
<1>3. MailOf(n1, lookups, found, pool, recharges) = SavesOf(obj, Mail, s, p) /\ DOMAIN n1 = Links
  BY <1>1, SavesFact DEF Mail
<1>4. Good(o2, SavesOf(obj, Mail, s, p), bank, orders, transfers)
  BY <1>1, <1>2, GoodLeave
<1>5. k \in Links /\ k \in Queues /\ m \in Notices /\ m.type \in Carried(k)
  <2>1. m \in Notices /\ m.type = "redis"
    BY DEF RedisMsg, Notices
  <2> QED BY <2>1, LinkFact, QueueFact, CarriedFact
<1> HIDE DEF o2, n1, m, k
<1>6. Good(o2, Put(SavesOf(obj, Mail, s, p), k, m), bank, orders, transfers)
  BY <1>1, <1>4, <1>5, GoodNotice
<1>7. /\ MailOf(Put(n1, k, m), lookups, found, pool, recharges)
           = Put(MailOf(n1, lookups, found, pool, recharges), k, m)
      /\ DOMAIN Put(n1, k, m) = Links
  BY <1>3, <1>5, MailPut
<1> QED BY <1>2, <1>3, <1>6, <1>7 DEF Mail

LEMMA SeqFact ==
    ASSUME NEW S, IsFiniteSet(S)
    PROVE  /\ SetToSeq(S) \in Seq(S) /\ \A i \in 1..Len(SetToSeq(S)) : SetToSeq(S)[i] \in S
           /\ \A x \in S : \E i \in 1..Len(SetToSeq(S)) : SetToSeq(S)[i] = x
<1> DEFINE c == Cardinality(S)
           w == SetToSeq(S)
<1>1. c \in Nat /\ ExistsBijection(1..c, S)
  BY FS_CardinalityType
<1>2. \E f \in [1..c -> S] : IsInjective(f)
  BY <1>1 DEF ExistsBijection, Bijection, Injection
<1>3. w \in [1..c -> S] /\ IsInjective(w)
  BY <1>2 DEF SetToSeq
<1>4. w \in Injection(1..c, S)
  BY <1>3 DEF Injection
<1>5. Cardinality(1..c) = c
  BY <1>1, FS_Interval
<1>6. w \in Surjection(1..c, S)
  <2> HIDE DEF w
  <2> QED BY <1>4, <1>5, FS_Injection
<1>7. w \in Seq(S) /\ Len(w) = c
  <2> HIDE DEF w, c
  <2> QED BY <1>1, <1>3
<1>8. \A x \in S : \E i \in 1..c : w[i] = x
  BY <1>6 DEF Surjection
<1> QED BY <1>3, <1>7, <1>8

LEMMA SaveAllStep ==
    ASSUME IInv, Patient, DbKeepsUp, NEW s \in Servers, SaveAll(s)
    PROVE  Good(obj', Mail', bank', orders', transfers') /\ DOMAIN net' = Links
<1> DEFINE k == <<s, Db>>
           D == {p \in Players : obj[s][p] # None /\ obj[s][p].dirty}
           msg(p) == SaveMsg(p, obj[s][p].bank)
           S == {msg(p) : p \in D}
           w == SetToSeq(S)
<1>1. /\ transfers \in Nat /\ Good(obj, Mail, bank, orders, transfers) /\ DOMAIN net = Links
      /\ obj \in [Servers -> [Players -> Objects \union {None}]] /\ Mail \in Nets
      /\ \A p \in Players : Control(obj, Mail, orders, p)
  BY StateFact
<1>2. /\ net' = [net EXCEPT ![k] = @ \o w] /\ obj' = Saved(obj, s, D)
      /\ UNCHANGED <<lookups, found, pool, recharges, bank, orders, transfers>>
  BY DEF SaveAll, Saved, Present, login_vars, db_vars
<1>3. k \in Links /\ k \in Queues /\ k # Lookups /\ k # Found /\ k # Pool /\ k # Recharges
  BY LinkFact, QueueFact
<1>4. IsFiniteSet(S)
  <2>1. IsFiniteSet(D)
    BY MoneyAssumption, FS_Subset DEF MoneyAssumption
  <2>2. [p \in D |-> msg(p)] \in Surjection(D, S)
    BY DEF Surjection
  <2> HIDE DEF S, D, msg
  <2> QED BY <2>1, <2>2, FS_Surjection
<1>5. S \subseteq Mails
  <2>1. ASSUME NEW p \in D PROVE msg(p) \in Mails
    <3>1. Control(obj, Mail, orders, p)
      BY <1>1
    <3>2. obj[s][p].bank \in Nat
      BY <1>1, <3>1 DEF Control, Objects
    <3> QED BY <3>2, MailsFact DEF SaveMsg, Values
  <2> QED BY <2>1
<1>6. /\ w \in Seq(S) /\ \A i \in 1..Len(w) : w[i] \in S
      /\ \A x \in S : \E i \in 1..Len(w) : w[i] = x
  <2> HIDE DEF S
  <2> QED BY <1>4, SeqFact
<1>7. /\ w \in Seq(Mails)
      /\ \A i \in 1..Len(w) : \E p \in D : w[i] = msg(p)
      /\ \A p \in D : \E i \in 1..Len(w) : w[i] = msg(p)
  <2>1. w \in Seq(Mails)
    <3> HIDE DEF w, S
    <3> QED BY <1>5, <1>6, LenProperties
  <2> HIDE DEF w
  <2> QED BY <1>6, <2>1
<1>8. D \in SUBSET {p \in Players : obj[s][p] # None /\ obj[s][p].dirty}
  OBVIOUS
<1> HIDE DEF w, S, D
<1>9. Good(Saved(obj, s, D), PutAll(Mail, k, w), bank, orders, transfers)
  BY <1>1, <1>7, <1>8, GoodSaves
<1>10. MailOf([net EXCEPT ![k] = @ \o w], lookups, found, pool, recharges) = PutAll(Mail, k, w)
  <2>1. \A v : MailOf([net EXCEPT ![k] = v], lookups, found, pool, recharges) = [Mail EXCEPT ![k] = v]
    BY <1>1, <1>3 DEF MailOf, Mail
  <2>2. Mail[k] = net[k]
    BY <1>3, MailFact DEF Mail
  <2>3. /\ [net EXCEPT ![k] = @ \o w] = [net EXCEPT ![k] = net[k] \o w]
        /\ PutAll(Mail, k, w) = [Mail EXCEPT ![k] = Mail[k] \o w]
    BY DEF PutAll
  <2> QED BY <2>1, <2>2, <2>3
<1> QED BY <1>1, <1>2, <1>9, <1>10 DEF Mail

LEMMA RunRedisStep ==
    ASSUME IInv, Patient, DbKeepsUp, NEW s \in Servers, RunRedis(s)
    PROVE  Good(obj', Mail', bank', orders', transfers') /\ DOMAIN net' = Links
           /\ gameid' \in [Players -> Servers \union {None}]
<1> DEFINE k == <<s, Redis>>
<1>1. /\ transfers \in Nat /\ Good(obj, Mail, bank, orders, transfers)
      /\ gameid \in [Players -> Servers \union {None}]
  BY StateFact DEF IInv
<1>2. k \in Links /\ net[k] # <<>>
  BY LinkFact DEF RunRedis
<1>3. /\ k \in Queues /\ 1 \in 1..Len(Mail[k]) /\ Head(net[k]) = Mail[k][1] /\ Mail[k][1] \in Mails
      /\ Mail[k][1].type \in Carried(k)
      /\ MailOf(Took(k), lookups, found, pool, recharges) = Gone(Mail, k, 1)
      /\ DOMAIN Took(k) = Links
  BY <1>2, ArriveFact
<1> DEFINE m == Mail[k][1]
<1>4. /\ net' = Took(k) /\ gameid' = [gameid EXCEPT ![m.p] = m.s]
      /\ UNCHANGED <<obj, lookups, found, pool, recharges, bank, orders, transfers>>
  BY <1>3 DEF RunRedis, login_vars, db_vars
<1>5. m.type = "redis"
  BY <1>3, CarriedFact
<1>6. m \in Notices
  BY <1>3, <1>5, HeldFact
<1> HIDE DEF k
<1>7. m.type \notin SaveTypes
  BY <1>5 DEF SaveTypes
<1>8. Good(obj, Gone(Mail, k, 1), bank, orders, transfers)
  BY <1>1, <1>3, <1>7, GoodGone
<1>9. gameid' \in [Players -> Servers \union {None}]
  BY <1>1, <1>4, <1>6 DEF Notices
<1> QED BY <1>3, <1>4, <1>8, <1>9 DEF Mail

LEMMA ChangeGameStep ==
    ASSUME IInv, Patient, DbKeepsUp, NEW s \in Servers, NEW p \in Players, NEW t \in Servers,
           ChangeGame(s, p, t)
    PROVE  Good(obj', Mail', bank', orders', transfers') /\ DOMAIN net' = Links
<1> DEFINE k == <<s, Login>>
           m == ChangeMsg("SS_ChangeGame", p, s, t, obj[s][p].bank)
<1>1. /\ DOMAIN net = Links /\ transfers \in Nat /\ Good(obj, Mail, bank, orders, transfers)
      /\ Mail \in Nets /\ Sorted(Mail)
  BY StateFact
<1>2. obj[s][p] # None /\ ~Waits(s, p)
  BY Zenon DEF ChangeGame, Present
<1>3. ~obj[s][p].asked /\ ~Changing(p)
  BY <1>2, Zenon DEF Waits
<1>4. Free(Mail, Change(p))
  BY <1>1, <1>3, ChangingFact
<1>5. Good(obj, Put(Mail, k, m), bank, orders, transfers)
  BY <1>1, <1>2, <1>3, <1>4, GoodChange
<1>6. /\ net' = Put(net, k, m)
      /\ UNCHANGED <<obj, lookups, found, pool, recharges, bank, orders, transfers>>
  BY DEF ChangeGame, login_vars, db_vars
<1>7. k \in Links
  BY LinkFact
<1> HIDE DEF k, m
<1>8. /\ MailOf(Put(net, k, m), lookups, found, pool, recharges) = Put(Mail, k, m)
      /\ DOMAIN Put(net, k, m) = Links
  BY <1>7, SendFact
<1> QED BY <1>5, <1>6, <1>8 DEF Mail

\* A change of server that goes on.
LEMMA ChangeMoved ==
    ASSUME NEW o, NEW n, NEW b, NEW ord, NEW tr \in Nat, Good(o, n, b, ord, tr),
           NEW k \in Queues, NEW i \in 1..Len(n[k]), NEW l \in Queues, NEW type,
           n[k][i].type \in {"SS_ChangeGame", "LS_ChangeGameResult", "SL_ChangeGameResult"},
           type \in {"LS_ChangeGameResult", n[k][i].type}, type \in Carried(l)
    PROVE  Good(o, Put(Gone(n, k, i), l, [n[k][i] EXCEPT !.type = type]), b, ord, tr)
<1> DEFINE c == n[k][i]
           m == [c EXCEPT !.type = type]
<1>1. c \in Mails
  BY GoodType, NetFact
<1>2. c \in Changes
  BY <1>1, HeldFact
<1>3. /\ m \in Mails /\ m.type = type /\ m.p = c.p /\ m.bank = c.bank
      /\ m.type \in {"SS_ChangeGame", "LS_ChangeGameResult", "SL_ChangeGameResult"}
      /\ m.type # "LS_ChangeGameResult" => m.type = c.type
  <2>1. m \in Changes
    BY <1>2 DEF Changes
  <2> QED BY <1>2, <2>1, MailsFact DEF Changes
<1> HIDE DEF m
<1>4. m.type \notin SaveTypes /\ c.type \notin SaveTypes /\ m \notin Moving
  BY <1>3 DEF SaveTypes, Moving
<1>5. ASSUME NEW q \in Players, NEW C \in Kinds(o, ord, q), m \in C PROVE c \in C
  <2>1. /\ m \notin Note(q) /\ m \notin Unread(q) /\ m \notin Load(q) /\ m \notin Save(q)
        /\ m \notin Mark(q)
    BY <1>3 DEF Note, Unread, Load, Save, Mark, Of
  <2>2. m \in Change(q) => c \in Change(q)
    BY <1>1, <1>3 DEF Change, Of
  <2>3. m \in Between(q) => c \in Between(q)
    BY <1>1, <1>3 DEF Between, Of
  <2> QED BY <1>5, <2>1, <2>2, <2>3 DEF Kinds
<1>6. ASSUME NEW q \in Players, NEW R, m \in Carries(q), Worth(o, n, b, q, R)
      PROVE  m.bank \in R \union {NotLoaded}
  <2>1. c \in Carries(q)
    BY <1>1, <1>3, <1>6 DEF Carries, Of
  <2> QED BY <1>3, <1>6, <2>1 DEF Worth
<1>7. Good(o, Put(Gone(n, k, i), l, m), b, ord, tr)
  BY <1>3, <1>4, <1>5, <1>6, GoodMove
<1> QED BY <1>7 DEF m

LEMMA OnSsChangeGameStep ==
    ASSUME IInv, Patient, DbKeepsUp, NEW s \in Servers, OnSsChangeGame(s)
    PROVE  Good(obj', Mail', bank', orders', transfers') /\ DOMAIN net' = Links
<1> DEFINE k == <<s, Login>>
           l == <<Login, s>>
<1>1. /\ transfers \in Nat /\ Good(obj, Mail, bank, orders, transfers)
  BY StateFact
<1>2. k \in Links /\ l \in Links /\ l \in Queues /\ net[k] # <<>>
  BY LinkFact, QueueFact DEF OnSsChangeGame, Arrives
<1>3. /\ k \in Queues /\ 1 \in 1..Len(Mail[k]) /\ Head(net[k]) = Mail[k][1]
      /\ MailOf(Took(k), lookups, found, pool, recharges) = Gone(Mail, k, 1)
      /\ DOMAIN Took(k) = Links
  BY <1>2, ArriveFact
<1> DEFINE m == [Mail[k][1] EXCEPT !.type = "LS_ChangeGameResult"]
<1>4. /\ Mail[k][1].type = "SS_ChangeGame"
      /\ net' = Put(Took(k), l, m) \/ net' = Took(k)
      /\ UNCHANGED <<obj, lookups, found, pool, recharges, bank, orders, transfers>>
  BY <1>3 DEF OnSsChangeGame, Arrives, login_vars, db_vars
<1>5. "LS_ChangeGameResult" \in Carried(l) /\ Mail[k][1].type \notin SaveTypes
  BY <1>4, CarriedFact DEF SaveTypes
<1> HIDE DEF k, l
<1>6. Good(obj, Put(Gone(Mail, k, 1), l, m), bank, orders, transfers)
  BY <1>1, <1>2, <1>3, <1>4, <1>5, ChangeMoved
<1>7. Good(obj, Gone(Mail, k, 1), bank, orders, transfers)
  BY <1>1, <1>3, <1>5, GoodGone
<1> HIDE DEF m
<1>8. /\ MailOf(Put(Took(k), l, m), lookups, found, pool, recharges) = Put(Gone(Mail, k, 1), l, m)
      /\ DOMAIN Put(Took(k), l, m) = Links
  BY <1>2, <1>3, MailPut
<1>9. CASE net' = Put(Took(k), l, m)
  BY <1>4, <1>6, <1>8, <1>9 DEF Mail
<1>10. CASE net' = Took(k)
  BY <1>3, <1>4, <1>7, <1>10 DEF Mail
<1> QED BY <1>4, <1>9, <1>10

LEMMA OnLsChangeGameResultStep ==
    ASSUME IInv, Patient, DbKeepsUp, NEW s \in Servers, OnLsChangeGameResult(s)
    PROVE  Good(obj', Mail', bank', orders', transfers') /\ DOMAIN net' = Links
<1> DEFINE k == <<Login, s>>
           l == <<s, Login>>
<1>1. /\ transfers \in Nat /\ Good(obj, Mail, bank, orders, transfers)
  BY StateFact
<1>2. k \in Links /\ l \in Links /\ l \in Queues /\ net[k] # <<>>
  BY LinkFact, QueueFact DEF OnLsChangeGameResult, Arrives
<1>3. /\ k \in Queues /\ 1 \in 1..Len(Mail[k]) /\ Head(net[k]) = Mail[k][1] /\ Mail[k][1] \in Mails
      /\ MailOf(Took(k), lookups, found, pool, recharges) = Gone(Mail, k, 1)
      /\ DOMAIN Took(k) = Links
  BY <1>2, ArriveFact
<1> DEFINE m == [Mail[k][1] EXCEPT !.type = "SL_ChangeGameResult"]
           p == Mail[k][1].p
           o2 == [obj EXCEPT ![s][p] = None]
           n1 == Saves(Took(k), s, p)
<1>4. /\ Mail[k][1].type = "LS_ChangeGameResult"
      /\ UNCHANGED <<lookups, found, pool, recharges, bank, orders, transfers>>
  BY <1>3 DEF OnLsChangeGameResult, Arrives, login_vars, db_vars
<1>5. p \in Players
  BY <1>3, HeldFact
<1>6. m.p = p
  <2>1. Mail[k][1] \in Changes
    BY <1>3, <1>4, HeldFact
  <2> QED BY <2>1 DEF Changes
<1>7. CASE obj[s][p] # None
  <2>1. net' = Put(n1, l, m) /\ obj' = o2
    BY <1>3, <1>6, <1>7 DEF OnLsChangeGameResult, Present
  <2>2. Good(o2, Put(SavesOf(obj, Gone(Mail, k, 1), s, p), l, m), bank, orders, transfers)
    <3>1. /\ 1 \in 1..Len(Mail[<<Login, s>>])
          /\ Mail[<<Login, s>>][1].type = "LS_ChangeGameResult" /\ Mail[<<Login, s>>][1].p = p
      BY <1>3, <1>4
    <3> HIDE DEF p
    <3> QED BY <1>1, <1>5, <1>7, <3>1, GoodHandOver
  <2> HIDE DEF p, k, l, o2
  <2>3. /\ MailOf(n1, lookups, found, pool, recharges) = SavesOf(obj, Gone(Mail, k, 1), s, p)
        /\ DOMAIN n1 = Links
    BY <1>3, SavesFact
  <2> HIDE DEF n1, m
  <2>4. /\ MailOf(Put(n1, l, m), lookups, found, pool, recharges)
             = Put(MailOf(n1, lookups, found, pool, recharges), l, m)
        /\ DOMAIN Put(n1, l, m) = Links
    BY <1>2, <2>3, MailPut
  <2> QED BY <1>4, <2>1, <2>2, <2>3, <2>4 DEF Mail
<1>8. CASE obj[s][p] = None
  <2>1. net' = Took(k) /\ obj' = obj
    BY <1>3, <1>6, <1>8 DEF OnLsChangeGameResult, Present
  <2>2. Mail[k][1].type \notin SaveTypes
    BY <1>4 DEF SaveTypes
  <2> HIDE DEF k, p
  <2>3. Good(obj, Gone(Mail, k, 1), bank, orders, transfers)
    BY <1>1, <1>3, <2>2, GoodGone
  <2> QED BY <1>3, <1>4, <2>1, <2>3 DEF Mail
<1> QED BY <1>7, <1>8

LEMMA OnSlChangeGameResultStep ==
    ASSUME IInv, Patient, DbKeepsUp, NEW s \in Servers, OnSlChangeGameResult(s)
    PROVE  Good(obj', Mail', bank', orders', transfers') /\ DOMAIN net' = Links
<1> DEFINE k == <<s, Login>>
<1>1. /\ transfers \in Nat /\ Good(obj, Mail, bank, orders, transfers)
  BY StateFact
<1>2. k \in Links /\ net[k] # <<>>
  BY LinkFact DEF OnSlChangeGameResult, Arrives
<1>3. /\ k \in Queues /\ 1 \in 1..Len(Mail[k]) /\ Head(net[k]) = Mail[k][1] /\ Mail[k][1] \in Mails
      /\ MailOf(Took(k), lookups, found, pool, recharges) = Gone(Mail, k, 1)
      /\ DOMAIN Took(k) = Links
  BY <1>2, ArriveFact
<1> DEFINE m == Mail[k][1]
           l == <<Login, m.to>>
<1>4. /\ m.type = "SL_ChangeGameResult" /\ net' = Put(Took(k), l, m)
      /\ UNCHANGED <<obj, lookups, found, pool, recharges, bank, orders, transfers>>
  BY <1>3 DEF OnSlChangeGameResult, Arrives, login_vars, db_vars
<1>5. m \in Changes
  BY <1>3, <1>4, HeldFact
<1>6. m.to \in Servers
  BY <1>5 DEF Changes
<1>7. l \in Links /\ l \in Queues /\ m.type \in Carried(l)
  <2> DEFINE t == m.to
  <2>1. t \in Servers
    BY <1>6
  <2> HIDE DEF t
  <2>2. <<Login, t>> \in Links /\ <<Login, t>> \in Queues
    BY <2>1, LinkFact, QueueFact
  <2>3. "SL_ChangeGameResult" \in Carried(<<Login, t>>)
    <3>1. Carried(<<Login, t>>) = {"LS_LoginNotify", "LS_ChangeGameResult", "SL_ChangeGameResult",
                                   "LS_BankTransferByGuid"}
      BY <2>1, CarriedFact
    <3> QED BY <3>1
  <2> QED BY <1>4, <2>2, <2>3 DEF t
<1>8. m = [m EXCEPT !.type = m.type]
  BY <1>5 DEF Changes
<1> HIDE DEF k, l
<1>9. Good(obj, Put(Gone(Mail, k, 1), l, [m EXCEPT !.type = m.type]), bank, orders, transfers)
  BY <1>1, <1>3, <1>4, <1>7, ChangeMoved
<1>10. /\ MailOf(Put(Took(k), l, m), lookups, found, pool, recharges) = Put(Gone(Mail, k, 1), l, m)
       /\ DOMAIN Put(Took(k), l, m) = Links
  BY <1>3, <1>7, MailPut
<1> QED BY <1>4, <1>8, <1>9, <1>10 DEF Mail

LEMMA EnterStep ==
    ASSUME IInv, Patient, DbKeepsUp, NEW s \in Servers, Enter(s)
    PROVE  Good(obj', Mail', bank', orders', transfers') /\ DOMAIN net' = Links
<1> DEFINE k == <<Login, s>>
           l == <<s, Redis>>
<1>1. /\ DOMAIN net = Links /\ transfers \in Nat /\ Good(obj, Mail, bank, orders, transfers)
      /\ Mail \in Nets /\ Sorted(Mail)
  BY StateFact
<1>2. k \in Links /\ l \in Links /\ l \in Queues /\ net[k] # <<>>
  BY LinkFact, QueueFact DEF Enter, Arrives
<1>3. /\ k \in Queues /\ 1 \in 1..Len(Mail[k]) /\ Head(net[k]) = Mail[k][1] /\ Mail[k][1] \in Mails
      /\ MailOf(Took(k), lookups, found, pool, recharges) = Gone(Mail, k, 1)
      /\ DOMAIN Took(k) = Links
  BY <1>2, ArriveFact
<1> DEFINE m == Mail[k][1]
           p == m.p
           x == Fresh(m.bank)
           r == RedisMsg(p, s)
           o2 == [obj EXCEPT ![s][p] = x]
<1>4. /\ m.type = "SL_ChangeGameResult" /\ Settled(p) /\ obj' = o2 /\ net' = Put(Took(k), l, r)
      /\ UNCHANGED <<lookups, found, pool, recharges, bank, orders, transfers>>
  BY <1>3 DEF Enter, Arrives, login_vars, db_vars
<1>5. m \in Changes
  BY <1>3, <1>4, HeldFact
<1>6. p \in Players /\ x \in Objects /\ ~x.dirty /\ x.bank = m.bank
  BY <1>5 DEF Changes, Fresh, Objects
<1>7. m \in Note(p) \union Between(p) /\ m \in Carries(p)
  BY <1>3, <1>4 DEF Between, Carries, Of
<1>8. r \in Notices /\ r.type \in Carried(l)
  <2>1. r \in Notices /\ r.type = "redis"
    BY <1>6 DEF RedisMsg, Notices
  <2> QED BY <2>1, CarriedFact
<1>9. Free(Mail, Load(p)) /\ Free(Mail, Save(p))
  <2> HIDE DEF p
  <2> QED BY <1>1, <1>4, SettledFact
<1>10. ASSUME NEW R, Worth(obj, Mail, bank, p, R) PROVE x.bank \in R \union {NotLoaded}
  BY <1>3, <1>6, <1>7, <1>10 DEF Worth
<1> HIDE DEF k, l, p, x, r
<1>11. Good(o2, Gone(Mail, k, 1), bank, orders, transfers)
  BY <1>1, <1>3, <1>6, <1>7, <1>9, <1>10, GoodEnter
<1> HIDE DEF o2
<1>12. Good(o2, Put(Gone(Mail, k, 1), l, r), bank, orders, transfers)
  BY <1>1, <1>2, <1>8, <1>11, GoodNotice
<1>13. /\ MailOf(Put(Took(k), l, r), lookups, found, pool, recharges) = Put(Gone(Mail, k, 1), l, r)
       /\ DOMAIN Put(Took(k), l, r) = Links
  BY <1>2, <1>3, MailPut
<1> QED BY <1>4, <1>12, <1>13 DEF Mail

\* A coin changes its place.
LEMMA CoinMoved ==
    ASSUME NEW o, NEW n, NEW b, NEW ord, NEW tr \in Nat, Good(o, n, b, ord, tr),
           NEW k \in Queues, NEW i \in 1..Len(n[k]), n[k][i] \in Moving,
           NEW l \in Queues, NEW m \in Moving, m.type \in Carried(l)
    PROVE  Good(o, Put(Gone(n, k, i), l, m), b, ord, tr)
<1>1. Held(o, Gone(n, k, i), b, ord, tr)
  BY HeldGone
<1> QED BY <1>1, HeldPut

LEMMA ObjectFact ==
    ASSUME NEW r \in Objects, NEW v \in Nat
    PROVE  /\ [r EXCEPT !.bank = v, !.dirty = TRUE] \in Objects
           /\ [r EXCEPT !.bank = v, !.dirty = TRUE].bank = v
           /\ [r EXCEPT !.bank = v, !.dirty = TRUE].dirty
           /\ [r EXCEPT !.bank = v, !.dirty = TRUE].asked = r.asked
BY DEF Objects

LEMMA CoinCredited ==
    ASSUME NEW o, NEW n, NEW b, NEW ord, NEW tr \in Nat, Held(o, n, b, ord, tr),
           NEW s \in Servers, NEW p \in Players, o[s][p] # None, o[s][p].bank # NotLoaded
    PROVE  Good(Credited(o, s, p), n, b, ord, tr)
<1> DEFINE x == [o[s][p] EXCEPT !.bank = o[s][p].bank + 1, !.dirty = TRUE]
<1>1. o \in [Servers -> [Players -> Objects \union {None}]]
  BY HeldType
<1>2. o[s][p] \in Objects
  BY <1>1
<1>3. x \in Objects /\ x.bank = o[s][p].bank + 1 /\ x.dirty /\ x.asked = o[s][p].asked
  <2>1. o[s][p].bank + 1 \in Nat
    BY <1>2 DEF Objects
  <2> QED BY <1>2, <2>1, ObjectFact
<1>4. Credited(o, s, p) = [o EXCEPT ![s][p] = x]
  BY <1>1, <1>2 DEF Credited, Objects
<1> HIDE DEF x
<1>5. Good([o EXCEPT ![s][p] = x], n, b, ord, tr)
  BY <1>3, HeldObj
<1> QED BY <1>4, <1>5

LEMMA TransferStep ==
    ASSUME IInv, Patient, DbKeepsUp, NEW s \in Servers, NEW p \in Players,
           NEW to \in Players \union {Nobody}, Transfer(s, p, to)
    PROVE  Good(obj', Mail', bank', orders', transfers') /\ DOMAIN net' = Links
<1> DEFINE x == [obj[s][p] EXCEPT !.bank = obj[s][p].bank - 1, !.dirty = TRUE]
           o1 == [obj EXCEPT ![s][p] = x]
           k == <<s, Login>>
           m == TransferMsg(p, s, to)
<1>1. /\ DOMAIN net = Links /\ transfers \in Nat /\ Good(obj, Mail, bank, orders, transfers)
      /\ Mail \in Nets /\ Sorted(Mail)
      /\ obj \in [Servers -> [Players -> Objects \union {None}]]
  BY StateFact
<1>2. /\ p # to /\ obj[s][p] # None /\ obj[s][p].bank # NotLoaded /\ obj[s][p].bank >= 1
      /\ transfers' = transfers + 1
      /\ UNCHANGED <<lookups, found, pool, recharges, bank, orders>>
  BY DEF Transfer, Loaded, Present, login_vars, db_vars
<1>3. ~obj[s][p].asked /\ ~Changing(p)
  <2>1. ~Waits(s, p)
    BY Zenon DEF Transfer
  <2> QED BY <2>1, Zenon DEF Waits
<1>4. Free(Mail, Change(p))
  BY <1>1, <1>3, ChangingFact
<1>5. obj[s][p] \in Objects /\ obj[s][p].bank \in Nat \ {0}
  BY <1>1, <1>2 DEF Objects
<1>6. x \in Objects /\ x.bank = obj[s][p].bank - 1 /\ x.dirty
  <2>1. obj[s][p].bank - 1 \in Nat
    BY <1>5
  <2> QED BY <1>5, <2>1, ObjectFact
<1>7. Debited(obj, s, p) = o1
  BY <1>1, <1>5 DEF Debited, Objects
<1> DEFINE tr == transfers + 1
<1>8. Held(o1, Mail, bank, orders, tr) /\ tr \in Nat
  <2> HIDE DEF x
  <2>1. Held([obj EXCEPT ![s][p] = x], Mail, bank, orders, transfers + 1)
    BY <1>1, <1>2, <1>3, <1>4, <1>5, <1>6, GoodDebit
  <2> QED BY <1>1, <2>1
<1>9. CASE to \in Players /\ Loaded(s, to) /\ obj' = Credited(o1, s, to) /\ UNCHANGED net
  <2>1. o1[s][to] = obj[s][to]
    BY <1>1, <1>2, <1>9
  <2>2. o1[s][to] # None /\ o1[s][to].bank # NotLoaded
    BY <1>9, <2>1 DEF Loaded, Present
  <2> HIDE DEF o1, tr
  <2>3. Good(Credited(o1, s, to), Mail, bank, orders, tr)
    BY <1>8, <1>9, <2>2, CoinCredited
  <2> QED BY <1>1, <1>2, <1>9, <2>3 DEF Mail, tr
<1>10. CASE obj' = o1 /\ UNCHANGED net
  <2> HIDE DEF o1, tr
  <2>1. Good(o1, Mail, bank, orders, tr)
    BY <1>8, HeldGood
  <2> QED BY <1>1, <1>2, <1>10, <2>1 DEF Mail, tr
<1>11. CASE obj' = o1 /\ net' = Put(net, k, m)
  <2>1. k \in Links /\ k \in Queues /\ m.type \in Carried(k)
    BY LinkFact, QueueFact, CarriedFact DEF TransferMsg
  <2>2. m \in Moving
    BY MailsFact DEF TransferMsg, Transfers, Moving
  <2> HIDE DEF o1, k, m, tr
  <2>3. Good(o1, Put(Mail, k, m), bank, orders, tr)
    BY <1>8, <2>1, <2>2, HeldPut
  <2>4. /\ MailOf(Put(net, k, m), lookups, found, pool, recharges) = Put(Mail, k, m)
        /\ DOMAIN Put(net, k, m) = Links
    BY <2>1, SendFact
  <2> QED BY <1>2, <1>11, <2>3, <2>4 DEF Mail, tr
<1>12. \/ to \in Players /\ Loaded(s, to) /\ obj' = Credited(o1, s, to) /\ UNCHANGED net
       \/ obj' = o1 /\ UNCHANGED net
       \/ obj' = o1 /\ net' = Put(net, k, m)
  <2> HIDE DEF o1
  <2> QED BY <1>7 DEF Transfer
<1> QED BY <1>9, <1>10, <1>11, <1>12

LEMMA OnSdBankTransferStep ==
    ASSUME IInv, Patient, DbKeepsUp, NEW s \in Servers, OnSdBankTransfer(s)
    PROVE  Good(obj', Mail', bank', orders', transfers') /\ DOMAIN net' = Links
<1> DEFINE k == <<s, Login>>
<1>1. /\ transfers \in Nat /\ Good(obj, Mail, bank, orders, transfers)
  BY StateFact
<1>2. k \in Links /\ net[k] # <<>>
  BY LinkFact DEF OnSdBankTransfer, Arrives
<1>3. /\ k \in Queues /\ 1 \in 1..Len(Mail[k]) /\ Head(net[k]) = Mail[k][1] /\ Mail[k][1] \in Mails
      /\ MailOf(Took(k), lookups, found, pool, recharges) = Gone(Mail, k, 1)
      /\ DOMAIN Took(k) = Links
  BY <1>2, ArriveFact
<1> DEFINE m == Mail[k][1]
<1>4. /\ m.type = "S_BankTransferByGuid" /\ net' = Took(k) /\ lookups' = Append(lookups, m)
      /\ UNCHANGED <<obj, found, pool, recharges, bank, orders, transfers>>
  BY <1>3 DEF OnSdBankTransfer, Arrives, db_vars
<1>5. m \in Moving /\ m.type \in Carried(Lookups) /\ Lookups \in Queues
  BY <1>3, <1>4, CarriedFact, QueueFact DEF Moving
<1> HIDE DEF k
<1>6. Good(obj, Put(Gone(Mail, k, 1), Lookups, m), bank, orders, transfers)
  BY <1>1, <1>3, <1>5, CoinMoved
<1>7. MailOf(Took(k), Append(lookups, m), found, pool, recharges) = Put(Gone(Mail, k, 1), Lookups, m)
  BY <1>3, MailPost
<1> QED BY <1>3, <1>4, <1>6, <1>7 DEF Mail

LEMMA RunLookupStep ==
    ASSUME IInv, Patient, DbKeepsUp, RunLookup
    PROVE  Good(obj', Mail', bank', orders', transfers') /\ DOMAIN net' = Links
<1>1. /\ DOMAIN net = Links /\ transfers \in Nat /\ Good(obj, Mail, bank, orders, transfers)
      /\ Mail \in Nets /\ Sorted(Mail) /\ Mail[Lookups] = lookups
      /\ gameid \in [Players -> Servers \union {None}]
  BY StateFact DEF IInv
<1>2. /\ MailOf(net, Tail(lookups), found, pool, recharges) = Gone(Mail, Lookups, 1)
      /\ Head(lookups) = Mail[Lookups][1] /\ 1 \in 1..Len(Mail[Lookups])
  <2>1. lookups # <<>>
    BY DEF RunLookup
  <2> QED BY <1>1, <2>1, MailGone DEF Mail
<1> DEFINE m == Mail[Lookups][1]
           at == GetGameidByGuid(m.to)
           c == Closure(m.p, m.s, m.to, at)
<1>3. m \in Mails /\ m.type = "S_BankTransferByGuid"
  BY <1>1, <1>2, QueueFact, NetFact, CarriedFact DEF Sorted
<1>4. m \in Transfers
  BY <1>3, HeldFact
<1>5. at \in Servers \union {None} /\ (at # None => m.to \in Players)
  BY <1>1 DEF GetGameidByGuid
<1>6. m \in Moving
  BY <1>3 DEF Moving
<1>7. c \in Moving /\ c.type \in Carried(Found)
  <2>1. c \in Closures
    <3> HIDE DEF at
    <3> QED BY <1>4, <1>5 DEF Closure, Closures, Transfers
  <2>2. c.type = "closure"
    BY DEF Closure
  <2> QED BY <2>1, <2>2, MailsFact, CarriedFact DEF Moving
<1>8. /\ found' = Append(found, c) /\ lookups' = Tail(lookups)
      /\ UNCHANGED <<obj, net, pool, recharges, bank, orders, transfers>>
  BY <1>2 DEF RunLookup, db_vars
<1>9. Found \in Queues /\ Lookups \in Queues
  BY QueueFact
<1> HIDE DEF c
<1>10. Good(obj, Put(Gone(Mail, Lookups, 1), Found, c), bank, orders, transfers)
  BY <1>1, <1>2, <1>6, <1>7, <1>9, CoinMoved
<1>11. MailOf(net, Tail(lookups), Append(found, c), pool, recharges)
         = Put(Gone(Mail, Lookups, 1), Found, c)
  BY <1>2, MailPost
<1> QED BY <1>1, <1>8, <1>10, <1>11 DEF Mail

LEMMA RunFoundStep ==
    ASSUME IInv, Patient, DbKeepsUp, RunFound
    PROVE  Good(obj', Mail', bank', orders', transfers') /\ DOMAIN net' = Links
<1>1. /\ DOMAIN net = Links /\ transfers \in Nat /\ Good(obj, Mail, bank, orders, transfers)
      /\ Mail \in Nets /\ Sorted(Mail) /\ Mail[Found] = found
  BY StateFact
<1>2. /\ MailOf(net, lookups, Tail(found), pool, recharges) = Gone(Mail, Found, 1)
      /\ Head(found) = Mail[Found][1] /\ 1 \in 1..Len(Mail[Found])
  <2>1. found # <<>>
    BY DEF RunFound
  <2> QED BY <1>1, <2>1, MailGone DEF Mail
<1> DEFINE c == Mail[Found][1]
<1>3. c \in Mails /\ c.type = "closure" /\ Found \in Queues
  BY <1>1, <1>2, QueueFact, NetFact, CarriedFact DEF Sorted
<1>4. c \in Closures /\ c \in Moving
  BY <1>3, HeldFact DEF Moving
<1>5. ASSUME NEW k \in Links, NEW m \in Moving, m.type \in Carried(k), net' = Put(net, k, m)
      PROVE  Good(obj', Mail', bank', orders', transfers') /\ DOMAIN net' = Links
  <2>1. k \in Queues
    BY QueueFact
  <2>2. Good(obj, Put(Gone(Mail, Found, 1), k, m), bank, orders, transfers)
    BY <1>1, <1>2, <1>3, <1>4, <1>5, <2>1, CoinMoved
  <2>3. /\ MailOf(Put(net, k, m), lookups, Tail(found), pool, recharges)
             = Put(MailOf(net, lookups, Tail(found), pool, recharges), k, m)
        /\ DOMAIN Put(net, k, m) = Links
    BY <1>1, MailPut
  <2>4. /\ found' = Tail(found)
        /\ UNCHANGED <<obj, lookups, pool, recharges, bank, orders, transfers>>
    BY DEF RunFound, db_vars
  <2> QED BY <1>2, <1>5, <2>2, <2>3, <2>4 DEF Mail
<1>6. net' = IF c.at = None THEN Put(net, <<Login, Db>>, TransferMsg(c.p, c.s, c.to))
             ELSE Put(net, <<Login, c.at>>, CreditMsg(c.to))
  BY <1>2 DEF RunFound
<1>7. CASE c.at = None
  <2> DEFINE m == TransferMsg(c.p, c.s, c.to)
  <2>1. m \in Transfers /\ m.type = "S_BankTransferByGuid"
    BY <1>4 DEF Closures, Transfers, TransferMsg
  <2>2. m \in Moving /\ m.type \in Carried(<<Login, Db>>)
    BY <2>1, MailsFact, CarriedFact DEF Moving
  <2>3. <<Login, Db>> \in Links
    BY LinkFact
  <2> HIDE DEF m
  <2>4. net' = Put(net, <<Login, Db>>, m)
    BY <1>6, <1>7 DEF m
  <2> QED BY <1>5, <2>2, <2>3, <2>4
<1>8. CASE c.at # None
  <2>1. PICK t \in Servers : t = c.at
    BY <1>4, <1>8 DEF Closures
  <2> DEFINE m == CreditMsg(c.to)
  <2>2. m \in Credits /\ m.type = "LS_BankTransferByGuid"
    BY <1>4, <1>8 DEF Closures, Credits, CreditMsg
  <2>3. m \in Moving
    BY <2>2, MailsFact DEF Moving
  <2>4. m.type \in Carried(<<Login, t>>)
    <3>1. Carried(<<Login, t>>) = {"LS_LoginNotify", "LS_ChangeGameResult", "SL_ChangeGameResult",
                                   "LS_BankTransferByGuid"}
      BY CarriedFact
    <3> QED BY <2>2, <3>1
  <2>5. <<Login, t>> \in Links
    BY LinkFact
  <2> HIDE DEF m
  <2>6. net' = Put(net, <<Login, t>>, m)
    BY <1>6, <1>8, <2>1 DEF m
  <2> QED BY <1>5, <2>3, <2>4, <2>5, <2>6
<1> QED BY <1>7, <1>8

\* A coin arrives at a game server.
LEMMA CoinArrives ==
    ASSUME IInv, NEW s \in Servers, NEW k \in Links, net[k] # <<>>,
           Mail[k][1].type \in {"LS_BankTransferByGuid", "DS_BankTransferByGuid"}, net' = Took(k),
           obj' = (IF Loaded(s, Mail[k][1].p) THEN Credited(obj, s, Mail[k][1].p) ELSE obj),
           UNCHANGED <<lookups, found, pool, recharges, bank, orders, transfers>>
    PROVE  Good(obj', Mail', bank', orders', transfers') /\ DOMAIN net' = Links
<1>1. /\ transfers \in Nat /\ Good(obj, Mail, bank, orders, transfers)
  BY StateFact
<1>2. /\ k \in Queues /\ 1 \in 1..Len(Mail[k]) /\ Head(net[k]) = Mail[k][1] /\ Mail[k][1] \in Mails
      /\ MailOf(Took(k), lookups, found, pool, recharges) = Gone(Mail, k, 1)
      /\ DOMAIN Took(k) = Links
  BY ArriveFact
<1> DEFINE p == Mail[k][1].p
<1>3. p \in Players /\ Mail[k][1] \in Moving
  BY <1>2, HeldFact DEF Moving
<1> HIDE DEF p
<1>4. Held(obj, Gone(Mail, k, 1), bank, orders, transfers)
  BY <1>1, <1>2, <1>3, HeldGone
<1>5. Good(obj', Gone(Mail, k, 1), bank, orders, transfers)
  <2>1. CASE Loaded(s, p)
    <3>1. obj[s][p] # None /\ obj[s][p].bank # NotLoaded /\ obj' = Credited(obj, s, p)
      BY <2>1 DEF Loaded, Present, p
    <3>2. Good(Credited(obj, s, p), Gone(Mail, k, 1), bank, orders, transfers)
      BY <1>1, <1>3, <1>4, <3>1, CoinCredited
    <3> QED BY <3>1, <3>2
  <2>2. CASE ~Loaded(s, p)
    <3>1. obj' = obj
      BY <2>2 DEF p
    <3>2. Good(obj, Gone(Mail, k, 1), bank, orders, transfers)
      BY <1>1, <1>4, HeldGood
    <3> QED BY <3>1, <3>2
  <2> QED BY <2>1, <2>2
<1> QED BY <1>2, <1>5 DEF Mail

LEMMA OnLsBankTransferStep ==
    ASSUME IInv, Patient, DbKeepsUp, NEW s \in Servers, OnLsBankTransfer(s)
    PROVE  Good(obj', Mail', bank', orders', transfers') /\ DOMAIN net' = Links
<1> DEFINE k == <<Login, s>>
<1>1. k \in Links /\ net[k] # <<>>
  BY LinkFact DEF OnLsBankTransfer, Arrives
<1>2. Head(net[k]) = Mail[k][1]
  BY <1>1, ArriveFact
<1>3. /\ Mail[k][1].type = "LS_BankTransferByGuid" /\ net' = Took(k)
      /\ obj' = IF Loaded(s, Mail[k][1].p) THEN Credited(obj, s, Mail[k][1].p) ELSE obj
      /\ UNCHANGED <<lookups, found, pool, recharges, bank, orders, transfers>>
  BY <1>2 DEF OnLsBankTransfer, Arrives, login_vars, db_vars
<1> HIDE DEF k
<1> QED BY <1>1, <1>3, CoinArrives

LEMMA OnDsBankTransferStep ==
    ASSUME IInv, Patient, DbKeepsUp, NEW s \in Servers, OnDsBankTransfer(s)
    PROVE  Good(obj', Mail', bank', orders', transfers') /\ DOMAIN net' = Links
<1> DEFINE k == <<Db, s>>
<1>1. k \in Links /\ net[k] # <<>>
  BY LinkFact DEF OnDsBankTransfer, Arrives
<1>2. Head(net[k]) = Mail[k][1]
  BY <1>1, ArriveFact
<1>3. /\ Mail[k][1].type = "DS_BankTransferByGuid" /\ net' = Took(k)
      /\ obj' = IF Loaded(s, Mail[k][1].p) THEN Credited(obj, s, Mail[k][1].p) ELSE obj
      /\ UNCHANGED <<lookups, found, pool, recharges, bank, orders, transfers>>
  BY <1>2 DEF OnDsBankTransfer, Arrives, login_vars, db_vars
<1> HIDE DEF k
<1> QED BY <1>1, <1>3, CoinArrives

LEMMA OnSdPlayerDataStep ==
    ASSUME IInv, Patient, DbKeepsUp, NEW s \in Servers, OnSdPlayerData(s)
    PROVE  Good(obj', Mail', bank', orders', transfers') /\ DOMAIN net' = Links
<1> DEFINE k == <<s, Db>>
<1>1. /\ transfers \in Nat /\ Good(obj, Mail, bank, orders, transfers)
      /\ Mail[k] = net[k]
  BY StateFact, LinkFact
<1>2. k \in Links /\ net[k] # <<>>
  BY LinkFact DEF OnSdPlayerData
<1>3. /\ k \in Queues /\ 1 \in 1..Len(Mail[k]) /\ Head(net[k]) = Mail[k][1] /\ Mail[k][1] \in Mails
      /\ Mail[k][1].type \in Carried(k)
      /\ MailOf(Took(k), lookups, found, pool, recharges) = Gone(Mail, k, 1)
      /\ DOMAIN Took(k) = Links
  BY <1>2, ArriveFact
<1> DEFINE c == Mail[k][1]
           p == c.p
           m == IF c.type = "SD_SavePlayerData" THEN [type |-> "save", p |-> p, bank |-> c.bank]
                ELSE [type |-> "load", p |-> p, s |-> s]
<1>4. /\ net' = Took(k) /\ pool' = Append(pool, m)
      /\ UNCHANGED <<obj, lookups, found, recharges, bank, orders, transfers>>
  BY <1>3 DEF OnSdPlayerData, login_vars
<1>5. c.type \in {"SD_QueryPlayerData", "SD_SavePlayerData"} /\ Pool \in Queues /\ p \in Players
  BY <1>3, CarriedFact, QueueFact, HeldFact
<1>6. Good(obj, Put(Gone(Mail, k, 1), Pool, m), bank, orders, transfers)
  <2>1. CASE c.type = "SD_SavePlayerData"
    BY <1>1, <1>2, <2>1, GoodPosted
  <2>2. CASE c.type = "SD_QueryPlayerData"
    <3>1. m = [type |-> "load", p |-> p, s |-> s]
      BY <2>2
    <3> HIDE DEF m, k
    <3>2. m \in Mails /\ m.type = "load" /\ m.p = p
      BY <1>5, <3>1, MailsFact DEF Loads
    <3>3. m.type \notin SaveTypes /\ c.type \notin SaveTypes /\ m \notin Moving
      BY <2>2, <3>2 DEF SaveTypes, Moving
    <3>4. m.type \in Carried(Pool)
      BY <3>2, CarriedFact
    <3>5. ASSUME NEW q \in Players, NEW C \in Kinds(obj, orders, q), m \in C PROVE c \in C
      <4>1. /\ m \notin Note(q) /\ m \notin Change(q) /\ m \notin Between(q) /\ m \notin Save(q)
            /\ m \notin Mark(q)
        BY <3>2 DEF Note, Change, Between, Save, Mark, Of
      <4>2. m \in Unread(q) => c \in Unread(q)
        BY <1>3, <2>2, <3>2 DEF Unread, Of
      <4>3. m \in Load(q) => c \in Load(q)
        BY <1>3, <2>2, <3>2 DEF Load, Of
      <4> QED BY <3>5, <4>1, <4>2, <4>3 DEF Kinds
    <3>6. \A q : m \notin Carries(q)
      BY <3>2 DEF Carries, Of
    <3> QED BY <1>1, <1>3, <1>5, <3>2, <3>3, <3>4, <3>5, <3>6, GoodMove
  <2> QED BY <1>5, <2>1, <2>2
<1> HIDE DEF k, m
<1>7. MailOf(Took(k), lookups, found, Append(pool, m), recharges) = Put(Gone(Mail, k, 1), Pool, m)
  BY <1>3, MailPost
<1> QED BY <1>3, <1>4, <1>6, <1>7 DEF Mail

LEMMA OnSBankTransferStep ==
    ASSUME IInv, Patient, DbKeepsUp, OnSBankTransfer
    PROVE  Good(obj', Mail', bank', orders', transfers') /\ DOMAIN net' = Links
<1> DEFINE k == <<Login, Db>>
<1>1. transfers \in Nat /\ Good(obj, Mail, bank, orders, transfers)
  BY StateFact
<1>2. k \in Links /\ net[k] # <<>>
  BY LinkFact DEF OnSBankTransfer
<1>3. /\ k \in Queues /\ 1 \in 1..Len(Mail[k]) /\ Head(net[k]) = Mail[k][1] /\ Mail[k][1] \in Mails
      /\ Mail[k][1].type \in Carried(k)
      /\ MailOf(Took(k), lookups, found, pool, recharges) = Gone(Mail, k, 1)
      /\ DOMAIN Took(k) = Links
  BY <1>2, ArriveFact
<1> DEFINE c == Mail[k][1]
           m == [type |-> "add", p |-> c.p, s |-> c.s, to |-> c.to]
<1>4. /\ net' = Took(k) /\ pool' = Append(pool, m)
      /\ UNCHANGED <<obj, lookups, found, recharges, bank, orders, transfers>>
  BY <1>3 DEF OnSBankTransfer, login_vars
<1>5. c.type = "S_BankTransferByGuid" /\ Pool \in Queues
  BY <1>3, CarriedFact, QueueFact
<1>6. c \in Transfers
  BY <1>3, <1>5, HeldFact
<1>7. c \in Moving
  BY <1>3, <1>5 DEF Moving
<1>8. m \in Moving /\ m.type \in Carried(Pool)
  <2>1. m \in Transfers
    BY <1>6 DEF Transfers
  <2> QED BY <2>1, MailsFact, CarriedFact DEF Moving
<1> HIDE DEF k, m
<1>9. Good(obj, Put(Gone(Mail, k, 1), Pool, m), bank, orders, transfers)
  BY <1>1, <1>3, <1>5, <1>7, <1>8, CoinMoved
<1>10. MailOf(Took(k), lookups, found, Append(pool, m), recharges) = Put(Gone(Mail, k, 1), Pool, m)
  BY <1>3, MailPost
<1> QED BY <1>3, <1>4, <1>9, <1>10 DEF Mail

\* A statement that a thread of the pool runs.
LEMMA RunsFact ==
    ASSUME IInv, DbKeepsUp, NEW i, Runs(i)
    PROVE  /\ Pool \in Queues /\ i \in 1..Len(Mail[Pool]) /\ Mail[Pool] = pool /\ pool[i] \in Mails
           /\ MailOf(net, lookups, found, RemoveAt(pool, i), recharges) = Gone(Mail, Pool, i)
           /\ \A p : pool[i].type # "add" /\ pool[i].p = p =>
                \A j \in 1..(i - 1) : Mail[Pool][j] \notin Save(p)
<1>1. Mail \in Nets /\ Mail[Pool] = pool /\ Pool \in Queues /\ DOMAIN net = Links
  BY StateFact, QueueFact
<1>2. pool \in Seq(Mails)
  BY <1>1, NetFact
<1>3. i \in 1..Len(pool)
  BY <1>2, LenProperties DEF Runs
<1>4. pool[i] \in Mails
  BY <1>1, <1>3, NetFact
<1>5. MailOf(net, lookups, found, RemoveAt(pool, i), recharges) = Gone(Mail, Pool, i)
  BY <1>1, MailGone DEF Mail
<1>6. ASSUME NEW p, pool[i].type # "add", pool[i].p = p, NEW j \in 1..(i - 1)
      PROVE  pool[j] \notin Save(p)
  <2>1. pool[j].type # "add" => pool[j].p # p
    BY <1>6 DEF Runs
  <2> QED BY <2>1 DEF Save, Of
<1> QED BY <1>1, <1>3, <1>4, <1>5, <1>6

LEMMA RunSaveStep ==
    ASSUME IInv, Patient, DbKeepsUp, NEW i \in 1..Threads, RunSave(i)
    PROVE  Good(obj', Mail', bank', orders', transfers') /\ DOMAIN net' = Links
<1>1. transfers \in Nat /\ Good(obj, Mail, bank, orders, transfers) /\ DOMAIN net = Links
  BY StateFact
<1>2. /\ i \in 1..Len(Mail[Pool]) /\ Mail[Pool] = pool /\ pool[i] \in Mails
      /\ MailOf(net, lookups, found, RemoveAt(pool, i), recharges) = Gone(Mail, Pool, i)
      /\ \A p : pool[i].type # "add" /\ pool[i].p = p =>
           \A j \in 1..(i - 1) : Mail[Pool][j] \notin Save(p)
  BY RunsFact DEF RunSave
<1> DEFINE p == pool[i].p
<1>3. /\ pool[i].type = "save" /\ bank' = [bank EXCEPT ![p] = pool[i].bank]
      /\ pool' = RemoveAt(pool, i)
      /\ UNCHANGED <<obj, net, lookups, found, recharges, orders, transfers>>
  BY DEF RunSave, login_vars
<1>4. p \in Players /\ \A j \in 1..(i - 1) : Mail[Pool][j] \notin Save(p)
  BY <1>2, <1>3, HeldFact
<1>5. Mail[Pool][i].type = "save" /\ Mail[Pool][i].p = p /\ Mail[Pool][i].bank = pool[i].bank
  BY <1>2, <1>3
<1> HIDE DEF p
<1>6. Good(obj, Gone(Mail, Pool, i), [bank EXCEPT ![p] = Mail[Pool][i].bank], orders, transfers)
  BY <1>1, <1>2, <1>4, <1>5, GoodRunSave
<1> QED BY <1>1, <1>2, <1>3, <1>5, <1>6 DEF Mail

LEMMA RunLoadStep ==
    ASSUME IInv, Patient, DbKeepsUp, NEW i \in 1..Threads, RunLoad(i)
    PROVE  Good(obj', Mail', bank', orders', transfers') /\ DOMAIN net' = Links
<1>1. /\ transfers \in Nat /\ Good(obj, Mail, bank, orders, transfers) /\ DOMAIN net = Links
      /\ Mail \in Nets /\ obj \in [Servers -> [Players -> Objects \union {None}]]
      /\ bank \in [Players -> Nat] /\ \A p \in Players : Control(obj, Mail, orders, p)
  BY StateFact
<1>2. /\ Pool \in Queues /\ i \in 1..Len(Mail[Pool]) /\ Mail[Pool] = pool /\ pool[i] \in Mails
      /\ MailOf(net, lookups, found, RemoveAt(pool, i), recharges) = Gone(Mail, Pool, i)
  BY RunsFact DEF RunLoad
<1> DEFINE c == pool[i]
           p == c.p
           m == [type |-> "select", p |-> p, s |-> c.s, bank |-> bank[p]]
<1>3. /\ c.type = "load" /\ recharges' = Append(recharges, m) /\ pool' = RemoveAt(pool, i)
      /\ UNCHANGED <<obj, net, lookups, found, bank, orders, transfers>>
  BY DEF RunLoad, login_vars
<1>4. c \in Loads /\ p \in Players /\ Recharges \in Queues
  BY <1>2, <1>3, HeldFact, QueueFact
<1>5. m \in Mails /\ m.type = "select" /\ m.p = p /\ m.bank = bank[p]
  BY <1>1, <1>4, MailsFact DEF Loads, Reads
<1>6. c \in Unread(p) /\ c \in Load(p)
  BY <1>2, <1>3 DEF Unread, Load, Of
<1>7. ~Free(Mail, Unread(p)) /\ ~Free(Mail, Load(p))
  BY <1>1, <1>2, <1>6, CountFact
<1>8. Free(Mail, Save(p)) /\ \A s \in Servers : obj[s][p] # None => ~obj[s][p].dirty
  <2>1. Control(obj, Mail, orders, p)
    BY <1>1, <1>4
  <2> HIDE DEF p
  <2>2. Free(Mail, Save(p)) /\ \A s \in Servers : obj[s][p] # None => obj[s][p].bank = NotLoaded
    BY <1>7, <2>1 DEF Control
  <2>3. \A s \in Servers : obj[s][p] # None /\ obj[s][p].dirty => obj[s][p].bank # NotLoaded
    BY <2>1 DEF Control
  <2> QED BY <2>2, <2>3
<1> HIDE DEF m
<1>9. m.type \notin SaveTypes /\ c.type \notin SaveTypes /\ m \notin Moving
  BY <1>3, <1>5 DEF SaveTypes, Moving
<1>10. ASSUME NEW q \in Players, NEW C \in Kinds(obj, orders, q), m \in C PROVE c \in C
  <2>1. /\ m \notin Note(q) /\ m \notin Change(q) /\ m \notin Between(q) /\ m \notin Save(q)
        /\ m \notin Mark(q)
    BY <1>5 DEF Note, Change, Between, Save, Mark, Of
  <2>2. m \in Unread(q) => c \in Unread(q)
    BY <1>2, <1>3, <1>5 DEF Unread, Of
  <2>3. m \in Load(q) => c \in Load(q)
    BY <1>2, <1>3, <1>5 DEF Load, Of
  <2> QED BY <1>10, <2>1, <2>2, <2>3 DEF Kinds
<1>11. ASSUME NEW q \in Players, NEW R, m \in Carries(q), Worth(obj, Mail, bank, q, R)
       PROVE  m.bank \in R \union {NotLoaded}
  <2>1. q = p
    BY <1>5, <1>11 DEF Carries, Of
  <2> HIDE DEF p
  <2>2. FinalIn(Mail, bank, p, R)
    BY <1>8, <1>11, <2>1 DEF Worth
  <2>3. bank[p] \in R
    BY <1>8, <2>2 DEF FinalIn
  <2> QED BY <1>5, <2>3
<1>12. m.type \in Carried(Recharges)
  BY <1>5, CarriedFact
<1> HIDE DEF p
<1>13. Good(obj, Put(Gone(Mail, Pool, i), Recharges, m), bank, orders, transfers)
  BY <1>1, <1>2, <1>4, <1>5, <1>9, <1>10, <1>11, <1>12, GoodMove
<1>14. MailOf(net, lookups, found, RemoveAt(pool, i), Append(recharges, m))
         = Put(Gone(Mail, Pool, i), Recharges, m)
  BY <1>2, MailPost
<1> QED BY <1>1, <1>3, <1>13, <1>14 DEF Mail

LEMMA RunAddStep ==
    ASSUME IInv, Patient, DbKeepsUp, NEW i \in 1..Threads, RunAdd(i)
    PROVE  Good(obj', Mail', bank', orders', transfers') /\ DOMAIN net' = Links
<1>1. transfers \in Nat /\ Good(obj, Mail, bank, orders, transfers) /\ DOMAIN net = Links
  BY StateFact
<1>2. /\ Pool \in Queues /\ i \in 1..Len(Mail[Pool]) /\ Mail[Pool] = pool /\ pool[i] \in Mails
      /\ MailOf(net, lookups, found, RemoveAt(pool, i), recharges) = Gone(Mail, Pool, i)
  BY RunsFact DEF RunAdd
<1> DEFINE c == pool[i]
<1>3. /\ c.type = "add" /\ pool' = RemoveAt(pool, i)
      /\ UNCHANGED <<obj, lookups, found, recharges, orders, transfers>>
  BY DEF RunAdd, login_vars
<1>4. c \in Transfers /\ c \in Moving
  BY <1>2, <1>3, HeldFact DEF Moving
<1>5. Held(obj, Gone(Mail, Pool, i), bank, orders, transfers)
  BY <1>1, <1>2, <1>4, HeldGone
<1>6. CASE c.to \in Players
  <2>1. bank' = [bank EXCEPT ![c.to] = @ + 1] /\ UNCHANGED net
    BY <1>6 DEF RunAdd
  <2>2. Good(obj, Gone(Mail, Pool, i), [bank EXCEPT ![c.to] = @ + 1], orders, transfers)
    BY <1>1, <1>5, <1>6, HeldRow
  <2> QED BY <1>1, <1>2, <1>3, <2>1, <2>2 DEF Mail
<1>7. CASE c.to \notin Players
  <2> DEFINE m == RefusedMsg(c.p)
             k == <<Db, c.s>>
  <2>1. net' = Put(net, k, m) /\ UNCHANGED bank
    BY <1>7 DEF RunAdd
  <2>2. PICK t \in Servers : t = c.s
    BY <1>4 DEF Transfers
  <2>3. k \in Links /\ k \in Queues
    BY <2>2, LinkFact, QueueFact
  <2>4. m \in Credits /\ m.type = "DS_BankTransferByGuid"
    BY <1>4 DEF Transfers, Credits, RefusedMsg
  <2>5. m \in Moving
    BY <2>4, MailsFact DEF Moving
  <2>6. m.type \in Carried(k)
    <3>1. Carried(<<Db, t>>) = {"DS_LoadPlayerData", "DS_BankTransferByGuid"}
      BY CarriedFact
    <3> QED BY <2>2, <2>4, <3>1
  <2> HIDE DEF m, k
  <2>7. Good(obj, Put(Gone(Mail, Pool, i), k, m), bank, orders, transfers)
    BY <1>1, <1>5, <2>3, <2>5, <2>6, HeldPut
  <2>8. /\ MailOf(Put(net, k, m), lookups, found, RemoveAt(pool, i), recharges)
             = Put(MailOf(net, lookups, found, RemoveAt(pool, i), recharges), k, m)
        /\ DOMAIN Put(net, k, m) = Links
    BY <1>1, <2>3, MailPut
  <2> QED BY <1>2, <1>3, <2>1, <2>7, <2>8 DEF Mail
<1> QED BY <1>6, <1>7

\* The next statement for the recharges.
LEMMA RechargeFact ==
    ASSUME IInv, recharges # <<>>
    PROVE  /\ Recharges \in Queues /\ 1 \in 1..Len(Mail[Recharges])
           /\ Head(recharges) = Mail[Recharges][1] /\ Mail[Recharges][1] \in Mails
           /\ MailOf(net, lookups, found, pool, Tail(recharges)) = Gone(Mail, Recharges, 1)
<1>1. /\ DOMAIN net = Links /\ Mail \in Nets /\ Mail[Recharges] = recharges /\ Recharges \in Queues
  BY StateFact, QueueFact
<1>2. /\ MailOf(net, lookups, found, pool, Tail(recharges)) = Gone(Mail, Recharges, 1)
      /\ Head(recharges) = Mail[Recharges][1] /\ 1 \in 1..Len(recharges)
  BY <1>1, MailGone DEF Mail
<1> QED BY <1>1, <1>2, NetFact

LEMMA SelectRechargeStep ==
    ASSUME IInv, Patient, DbKeepsUp, SelectRecharge
    PROVE  Good(obj', Mail', bank', orders', transfers') /\ DOMAIN net' = Links
<1>1. transfers \in Nat /\ Good(obj, Mail, bank, orders, transfers) /\ DOMAIN net = Links
  BY StateFact
<1>2. /\ Recharges \in Queues /\ 1 \in 1..Len(Mail[Recharges])
      /\ Head(recharges) = Mail[Recharges][1] /\ Mail[Recharges][1] \in Mails
      /\ MailOf(net, lookups, found, pool, Tail(recharges)) = Gone(Mail, Recharges, 1)
  BY RechargeFact DEF SelectRecharge
<1> DEFINE c == Mail[Recharges][1]
           p == c.p
<1>3. /\ c.type = "select"
      /\ UNCHANGED <<obj, lookups, found, bank, orders, pool, transfers>>
  BY <1>2 DEF SelectRecharge, login_vars
<1>4. c \in Reads /\ p \in Players /\ c.bank \in Nat /\ c.s \in Servers
  BY <1>2, <1>3, HeldFact DEF Reads
<1>5. c.type \notin SaveTypes /\ c \in Load(p) /\ c \in Unread(p) /\ c \in Carries(p)
  BY <1>2, <1>3 DEF SaveTypes, Load, Unread, Carries, Of
<1>6. ASSUME NEW l \in Queues, NEW m \in Mails, m.type \in Carried(l), m.p = p, m.bank = c.bank,
             m.type = "DS_LoadPlayerData" \/ (m.type = "mark" /\ p \in orders)
      PROVE  Good(obj, Put(Gone(Mail, Recharges, 1), l, m), bank, orders, transfers)
  <2>1. m.type \notin SaveTypes /\ m \notin Moving
    BY <1>6 DEF SaveTypes, Moving
  <2>2. ASSUME NEW q \in Players, NEW C \in Kinds(obj, orders, q), m \in C PROVE c \in C
    <3>1. /\ m \notin Note(q) /\ m \notin Change(q) /\ m \notin Between(q) /\ m \notin Save(q)
      BY <1>6 DEF Note, Change, Between, Save, Of
    <3>2. m \in Mark(q) => q \in orders
      BY <1>6 DEF Mark, Of
    <3>3. m \in Unread(q) => c \in Unread(q)
      BY <1>5, <1>6 DEF Unread, Of
    <3>4. m \in Load(q) => c \in Load(q)
      BY <1>5, <1>6 DEF Load, Of
    <3>5. C \in {Note(q), Change(q), Unread(q), Load(q), Save(q), Between(q)}
            \/ (C = Mark(q) /\ q \notin orders)
      BY <2>2 DEF Kinds
    <3> QED BY <2>2, <3>1, <3>2, <3>3, <3>4, <3>5
  <2>3. ASSUME NEW q \in Players, NEW R, m \in Carries(q), Worth(obj, Mail, bank, q, R)
        PROVE  m.bank \in R \union {NotLoaded}
    <3>1. q = p
      BY <1>6, <2>3 DEF Carries, Of
    <3> QED BY <1>2, <1>5, <1>6, <2>3, <3>1 DEF Worth
  <2> HIDE DEF p
  <2> QED BY <1>1, <1>2, <1>5, <1>6, <2>1, <2>2, <2>3, GoodMove
<1>7. CASE p \in orders
  <2> DEFINE m == [c EXCEPT !.type = "mark"]
  <2>1. recharges' = Append(Tail(recharges), m) /\ UNCHANGED net
    BY <1>2, <1>7 DEF SelectRecharge
  <2>2. m \in Reads /\ m.type = "mark" /\ m.p = p /\ m.bank = c.bank
    BY <1>4 DEF Reads
  <2> HIDE DEF m
  <2>3. m \in Mails /\ m.type \in Carried(Recharges)
    BY <2>2, MailsFact, CarriedFact
  <2>4. Good(obj, Put(Gone(Mail, Recharges, 1), Recharges, m), bank, orders, transfers)
    BY <1>2, <1>6, <1>7, <2>2, <2>3
  <2>5. MailOf(net, lookups, found, pool, Append(Tail(recharges), m))
          = Put(Gone(Mail, Recharges, 1), Recharges, m)
    BY <1>2, MailPost
  <2> QED BY <1>1, <1>3, <2>1, <2>4, <2>5 DEF Mail
<1>8. CASE p \notin orders
  <2> DEFINE m == LoadedMsg(p, c.bank)
             k == <<Db, c.s>>
  <2>1. recharges' = Tail(recharges) /\ net' = Put(net, k, m)
    BY <1>2, <1>8 DEF SelectRecharge
  <2>2. m \in Values /\ m.type = "DS_LoadPlayerData" /\ m.p = p /\ m.bank = c.bank
    BY <1>4 DEF LoadedMsg, Values
  <2>3. k \in Links /\ k \in Queues /\ Carried(k) = {"DS_LoadPlayerData", "DS_BankTransferByGuid"}
    <3>1. PICK t \in Servers : t = c.s
      BY <1>4
    <3>2. /\ <<Db, t>> \in Links /\ <<Db, t>> \in Queues
          /\ Carried(<<Db, t>>) = {"DS_LoadPlayerData", "DS_BankTransferByGuid"}
      BY LinkFact, QueueFact, CarriedFact
    <3> QED BY <3>1, <3>2
  <2> HIDE DEF m, k
  <2>4. m \in Mails /\ m.type \in Carried(k)
    BY <2>2, <2>3, MailsFact
  <2>5. Good(obj, Put(Gone(Mail, Recharges, 1), k, m), bank, orders, transfers)
    BY <1>6, <2>2, <2>3, <2>4
  <2>6. /\ MailOf(Put(net, k, m), lookups, found, pool, Tail(recharges))
             = Put(MailOf(net, lookups, found, pool, Tail(recharges)), k, m)
        /\ DOMAIN Put(net, k, m) = Links
    BY <1>1, <2>3, MailPut
  <2> QED BY <1>2, <1>3, <2>1, <2>5, <2>6 DEF Mail
<1> QED BY <1>7, <1>8

LEMMA MarkRechargeStep ==
    ASSUME IInv, Patient, DbKeepsUp, MarkRecharge
    PROVE  Good(obj', Mail', bank', orders', transfers') /\ DOMAIN net' = Links
<1>1. transfers \in Nat /\ Good(obj, Mail, bank, orders, transfers) /\ DOMAIN net = Links
  BY StateFact
<1>2. /\ Recharges \in Queues /\ 1 \in 1..Len(Mail[Recharges])
      /\ Head(recharges) = Mail[Recharges][1] /\ Mail[Recharges][1] \in Mails
      /\ MailOf(net, lookups, found, pool, Tail(recharges)) = Gone(Mail, Recharges, 1)
  BY RechargeFact DEF MarkRecharge
<1> DEFINE c == Mail[Recharges][1]
           p == c.p
           v == c.bank
           s == c.s
           sv == [type |-> "save", p |-> p, bank |-> v + 1]
           ld == LoadedMsg(p, v + 1)
           k == <<Db, s>>
<1>3. /\ c.type = "mark" /\ orders' = orders \ {p} /\ pool' = Append(pool, sv)
      /\ net' = Put(net, k, ld) /\ recharges' = Tail(recharges)
      /\ UNCHANGED <<obj, lookups, found, bank, transfers>>
  BY <1>2 DEF MarkRecharge, login_vars
<1>4. p \in Players /\ v \in Nat /\ s \in Servers
  <2>1. c \in Reads
    BY <1>2, <1>3, HeldFact
  <2> QED BY <2>1 DEF Reads
<1>5. Good(obj, Put(Put(Gone(Mail, Recharges, 1), Pool, sv), k, ld), bank, orders \ {p}, transfers)
  BY <1>1, <1>2, <1>3, <1>4, GoodMark
<1>6. k \in Links
  BY <1>4, LinkFact
<1> HIDE DEF sv, ld, k
<1>7. MailOf(net, lookups, found, Append(pool, sv), Tail(recharges))
        = Put(Gone(Mail, Recharges, 1), Pool, sv)
  BY <1>2, MailPost
<1>8. /\ MailOf(Put(net, k, ld), lookups, found, Append(pool, sv), Tail(recharges))
           = Put(MailOf(net, lookups, found, Append(pool, sv), Tail(recharges)), k, ld)
      /\ DOMAIN Put(net, k, ld) = Links
  BY <1>1, <1>6, MailPut
<1> QED BY <1>3, <1>5, <1>7, <1>8 DEF Mail

LEMMA NextStep ==
    ASSUME IInv, Patient, DbKeepsUp, Next
    PROVE  Good(obj', Mail', bank', orders', transfers') /\ DOMAIN net' = Links
<1>1. ASSUME NEW s \in Servers, NEW p \in Players,
             LetIn(p, s) \/ RequestPlayerInfo(s, p) \/ Logout(s, p)
      PROVE  Good(obj', Mail', bank', orders', transfers') /\ DOMAIN net' = Links
  BY <1>1, LetInStep, RequestPlayerInfoStep, LogoutStep
<1>2. ASSUME NEW s \in Servers, NEW p \in Players, NEW t \in Servers, ChangeGame(s, p, t)
      PROVE  Good(obj', Mail', bank', orders', transfers') /\ DOMAIN net' = Links
  BY <1>2, ChangeGameStep
<1>3. ASSUME NEW s \in Servers, NEW p \in Players, NEW to \in Players \union {Nobody},
             Transfer(s, p, to)
      PROVE  Good(obj', Mail', bank', orders', transfers') /\ DOMAIN net' = Links
  BY <1>3, TransferStep
<1>4. ASSUME NEW s \in Servers,
             \/ OnLsLoginNotify(s) \/ OnDsLoadPlayerData(s) \/ SaveAll(s) \/ RunRedis(s)
             \/ OnSsChangeGame(s) \/ OnLsChangeGameResult(s) \/ OnSlChangeGameResult(s) \/ Enter(s)
      PROVE  Good(obj', Mail', bank', orders', transfers') /\ DOMAIN net' = Links
  BY <1>4, OnLsLoginNotifyStep, OnDsLoadPlayerDataStep, SaveAllStep, RunRedisStep,
     OnSsChangeGameStep, OnLsChangeGameResultStep, OnSlChangeGameResultStep, EnterStep
<1>5. ASSUME NEW s \in Servers,
             \/ OnSdBankTransfer(s) \/ OnLsBankTransfer(s) \/ OnDsBankTransfer(s)
             \/ OnSdPlayerData(s)
      PROVE  Good(obj', Mail', bank', orders', transfers') /\ DOMAIN net' = Links
  BY <1>5, OnSdBankTransferStep, OnLsBankTransferStep, OnDsBankTransferStep, OnSdPlayerDataStep
<1>6. ASSUME NEW i \in 1..Threads, RunSave(i) \/ RunLoad(i) \/ RunAdd(i)
      PROVE  Good(obj', Mail', bank', orders', transfers') /\ DOMAIN net' = Links
  BY <1>6, RunSaveStep, RunLoadStep, RunAddStep
<1>7. ASSUME RunLookup \/ RunFound \/ OnSBankTransfer \/ SelectRecharge \/ MarkRecharge
      PROVE  Good(obj', Mail', bank', orders', transfers') /\ DOMAIN net' = Links
  BY <1>7, RunLookupStep, RunFoundStep, OnSBankTransferStep, SelectRechargeStep, MarkRechargeStep
<1> QED BY <1>1, <1>2, <1>3, <1>4, <1>5, <1>6, <1>7 DEF Next

\* The rest of the state.
LEMMA RestStep ==
    ASSUME IInv, Patient, DbKeepsUp, Next
    PROVE  /\ gameid' \in [Players -> Servers \union {None}]
           /\ transfers' \in 0..MaxTransfers /\ moves' \in 0..MaxMoves
<1>1. /\ gameid \in [Players -> Servers \union {None}]
      /\ transfers \in 0..MaxTransfers /\ moves \in 0..MaxMoves
      /\ MaxTransfers \in Nat /\ MaxMoves \in Nat
  BY MoneyAssumption DEF IInv, MoneyAssumption
<1>2. ASSUME NEW s \in Servers, NEW p \in Players, LetIn(p, s)
      PROVE  /\ gameid' \in [Players -> Servers \union {None}]
             /\ transfers' \in 0..MaxTransfers /\ moves' \in 0..MaxMoves
  <2>1. gameid' = [gameid EXCEPT ![p] = s] /\ transfers' = transfers /\ moves' = moves + 1
        /\ moves < MaxMoves
    BY <1>2 DEF LetIn
  <2> QED BY <1>1, <2>1
<1>3. ASSUME NEW s \in Servers, NEW p \in Players, NEW t \in Servers, ChangeGame(s, p, t)
      PROVE  /\ gameid' \in [Players -> Servers \union {None}]
             /\ transfers' \in 0..MaxTransfers /\ moves' \in 0..MaxMoves
  <2>1. gameid' = gameid /\ transfers' = transfers /\ moves' = moves + 1 /\ moves < MaxMoves
    BY <1>3 DEF ChangeGame
  <2> QED BY <1>1, <2>1
<1>4. ASSUME NEW s \in Servers, NEW p \in Players, NEW to \in Players \union {Nobody},
             Transfer(s, p, to)
      PROVE  /\ gameid' \in [Players -> Servers \union {None}]
             /\ transfers' \in 0..MaxTransfers /\ moves' \in 0..MaxMoves
  <2>1. gameid' = gameid /\ transfers' = transfers + 1 /\ moves' = moves /\ transfers < MaxTransfers
    BY <1>4 DEF Transfer
  <2> QED BY <1>1, <2>1
<1>5. ASSUME NEW s \in Servers, RunRedis(s)
      PROVE  /\ gameid' \in [Players -> Servers \union {None}]
             /\ transfers' \in 0..MaxTransfers /\ moves' \in 0..MaxMoves
  <2>1. transfers' = transfers /\ moves' = moves
    BY <1>5 DEF RunRedis
  <2> QED BY <1>1, <1>5, <2>1, RunRedisStep
<1>6. ASSUME \/ \E s \in Servers, p \in Players : RequestPlayerInfo(s, p) \/ Logout(s, p)
             \/ \E s \in Servers :
                  \/ OnLsLoginNotify(s) \/ OnDsLoadPlayerData(s) \/ SaveAll(s)
                  \/ OnSsChangeGame(s) \/ OnLsChangeGameResult(s) \/ OnSlChangeGameResult(s)
                  \/ Enter(s) \/ OnSdBankTransfer(s) \/ OnLsBankTransfer(s) \/ OnDsBankTransfer(s)
                  \/ OnSdPlayerData(s)
             \/ RunLookup \/ RunFound \/ OnSBankTransfer
             \/ \E i \in 1..Threads : RunSave(i) \/ RunLoad(i) \/ RunAdd(i)
             \/ SelectRecharge \/ MarkRecharge
      PROVE  UNCHANGED <<gameid, transfers, moves>>
  BY <1>6 DEF RequestPlayerInfo, Logout, OnLsLoginNotify, OnDsLoadPlayerData, SaveAll,
     OnSsChangeGame, OnLsChangeGameResult, OnSlChangeGameResult, Enter, OnSdBankTransfer,
     OnLsBankTransfer, OnDsBankTransfer, OnSdPlayerData, RunLookup, RunFound, OnSBankTransfer,
     RunSave, RunLoad, RunAdd, SelectRecharge, MarkRecharge
<1> QED BY <1>1, <1>2, <1>3, <1>4, <1>5, <1>6 DEF Next

LEMMA NextInv ==
    ASSUME IInv, Patient, DbKeepsUp, [Next]_vars
    PROVE  IInv'
<1>1. CASE Next
  BY <1>1, NextStep, RestStep DEF IInv
<1>2. CASE UNCHANGED vars
  <2>1. UNCHANGED <<gameid, obj, net, lookups, found, bank, orders, pool, recharges, transfers,
                    moves>>
    BY <1>2 DEF vars, login_vars, db_vars
  <2> QED BY <2>1 DEF IInv, Mail
<1> QED BY <1>1, <1>2

LEMMA InitInv == Init => IInv
<1> SUFFICES ASSUME Init PROVE IInv
  OBVIOUS
<1> DEFINE start == [p \in Players |-> Start]
<1>1. /\ gameid \in [Players -> Servers \union {None}] /\ DOMAIN net = Links
      /\ bank = start /\ orders = Recharged /\ transfers = 0 /\ moves = 0
      /\ 0 \in 0..MaxTransfers /\ 0 \in 0..MaxMoves /\ start \in [Players -> Nat] /\ Start \in Nat
  BY MoneyAssumption DEF Init, MoneyAssumption
<1>2. \A k \in Queues : Mail[k] = <<>>
  BY DEF Init, Mail, MailOf, Queues
<1>3. Mail \in Nets /\ Sorted(Mail)
  <2>1. Mail = [k \in Queues |-> Mail[k]]
    BY MailFact DEF Mail
  <2>2. \A k \in Queues : Mail[k] \in Seq(Mails) /\ Len(Mail[k]) = 0
    <3>1. <<>> \in Seq(Mails) /\ Len(<<>>) = 0
      OBVIOUS
    <3> QED BY <1>2, <3>1
  <2>3. Mail \in Nets
    BY <2>1, <2>2 DEF Nets
  <2> QED BY <2>2, <2>3 DEF Sorted
<1>4. \A C : Free(Mail, C) /\ Count(Mail, C) = 0
  <2>1. \A k \in Queues : Len(Mail[k]) = 0
    BY <1>2
  <2>2. \A C : Free(Mail, C)
    BY <1>3, <2>1, CountFact
  <2> QED BY <1>3, <2>2, CountFact
<1>5. \A s \in Servers : \A p \in Players :
        /\ obj[s][p] = IF gameid[p] = s THEN Fresh(Start) ELSE None
        /\ obj[s][p] # None => gameid[p] = s /\ obj[s][p].bank = Start /\ ~obj[s][p].dirty
  BY NoneFact DEF Init, Fresh
<1>6. Fresh(Start) \in Objects
  BY <1>1 DEF Fresh, Objects
<1>7. Typed(obj, Mail, bank, orders)
  <2>1. obj \in [Servers -> [Players -> Objects \union {None}]]
    BY <1>6 DEF Init
  <2> QED BY <1>1, <1>3, <2>1 DEF Typed
<1>8. \A s \in Servers : \A p : LinkFree(Mail, s, p)
  <2>1. \A s \in Servers : <<s, Db>> \in Queues
    BY LinkFact, QueueFact
  <2>2. \A k \in Queues : Len(Mail[k]) = 0
    BY <1>2
  <2>3. \A s \in Servers : Len(Mail[<<s, Db>>]) = 0
    BY <2>1, <2>2
  <2> QED BY <2>3 DEF LinkFree
<1>9. ASSUME NEW p \in Players PROVE Control(obj, Mail, orders, p)
  <2>1. Start # NotLoaded
    BY <1>1 DEF NotLoaded
  <2> QED BY <1>4, <1>5, <1>8, <2>1 DEF Control
<1>10. /\ Total(start) + Cardinality(Recharged) = AtStart
       /\ Total(start) \in Nat /\ Cardinality(Recharged) \in Nat /\ AtStart \in Nat
       /\ \A p \in Players : start[p] <= Total(start)
  BY <1>1, StartFact, SumType, SumPart, OrdersFact, MoneyAssumption DEF MoneyAssumption
<1> HIDE DEF start
<1>11. Rows(Mail, bank, transfers)
  <2>1. \A p \in Players : bank[p] + Count(Mail, Moving) <= AtStart + transfers
    <3> SUFFICES ASSUME NEW p \in Players
                 PROVE  bank[p] + Count(Mail, Moving) <= AtStart + transfers
      OBVIOUS
    <3>1. start[p] \in Nat /\ start[p] <= Total(start)
      BY <1>1, <1>10
    <3>2. start[p] <= AtStart
      BY <1>10, <3>1
    <3> QED BY <1>1, <1>4, <1>10, <3>1, <3>2
  <2>2. \A k \in Queues : Len(Mail[k]) = 0
    BY <1>2
  <2> QED BY <1>1, <1>4, <2>1, <2>2 DEF Rows
<1>12. ASSUME NEW p \in Players PROVE Worth(obj, Mail, bank, p, start[p]..start[p])
  <2>1. start[p] = Start /\ Start \in start[p]..start[p] /\ bank[p] \in start[p]..start[p]
    BY <1>1 DEF start
  <2>2. \A k \in Queues : Len(Mail[k]) = 0
    BY <1>2
  <2>3. FinalIn(Mail, bank, p, start[p]..start[p])
    <3>1. \A k \in Queues : LastIn(Mail[k], p, start[p]..start[p])
      BY <2>2 DEF LastIn
    <3>2. Pool \in Queues /\ \A s \in Servers : <<s, Db>> \in Queues
      BY LinkFact, QueueFact
    <3> QED BY <2>1, <3>1, <3>2 DEF FinalIn
  <2> QED BY <1>5, <2>1, <2>2, <2>3 DEF Worth
<1>13. Bounded(obj, Mail, bank, orders, transfers, start, start)
  BY <1>1, <1>4, <1>10, <1>12 DEF Bounded
<1>14. Good(obj, Mail, bank, orders, transfers)
  BY <1>1, <1>7, <1>9, <1>11, <1>13 DEF Good
<1> QED BY <1>1, <1>14 DEF IInv

-----------------------------------------------------------------------------
(* What follows *)

\* The inductive invariant: every message has its place and its type, a player has one object
\* at most, and what can become the balances adds up.
THEOREM Invariant == ASSUME Patient, DbKeepsUp PROVE Spec => []IInv
<1>1. IInv /\ [Next]_vars => IInv'
  BY NextInv
<1> QED BY InitInv, <1>1, PTL DEF Spec

\* No balance goes below zero or above what there is, in memory, under way or in the
\* database.
THEOREM TypeCorrect == ASSUME Patient, DbKeepsUp PROVE Spec => []TypeOK
<1>1. ASSUME IInv PROVE TypeOK
  <2>1. /\ Good(obj, Mail, bank, orders, transfers) /\ Mail \in Nets
        /\ obj \in [Servers -> [Players -> Objects \union {None}]] /\ bank \in [Players -> Nat]
        /\ orders \subseteq Recharged /\ DOMAIN net = Links /\ transfers \in Nat
        /\ \A k \in Links : k \in Queues /\ Mail[k] = net[k]
    BY <1>1, StateFact
  <2>2. /\ gameid \in [Players -> Servers \union {None}]
        /\ transfers \in 0..MaxTransfers /\ moves \in 0..MaxMoves /\ MaxTransfers \in Nat
    BY <1>1, MoneyAssumption DEF IInv, MoneyAssumption
  <2>3. AtStart \in Nat /\ 0..AtStart \subseteq Balance /\ 0..(AtStart + transfers) \subseteq Balance
    <3>1. /\ Cardinality(Players) \in Nat /\ Cardinality(Recharged) \in Nat
          /\ Cardinality(Recharged) <= Cardinality(Players) /\ Start \in Nat
      BY MoneyAssumption, FS_CardinalityType, FS_Subset DEF MoneyAssumption
    <3>2. Cardinality(Players) * (Start + 1) = Cardinality(Players) * Start + Cardinality(Players)
          /\ Cardinality(Players) * Start \in Nat
      BY <3>1
    <3> QED BY <2>1, <2>2, <3>1, <3>2 DEF AtStart, Balance
  <2>4. \A s \in Servers : \A p \in Players :
          Present(s, p) => obj[s][p] \in
            [bank : Balance \union {NotLoaded}, dirty : BOOLEAN, asked : BOOLEAN]
    <3> SUFFICES ASSUME NEW s \in Servers, NEW p \in Players, obj[s][p] # None
                 PROVE  obj[s][p] \in
                          [bank : Balance \union {NotLoaded}, dirty : BOOLEAN, asked : BOOLEAN]
      BY DEF Present
    <3>1. obj[s][p] \in Objects
      BY <2>1
    <3>2. obj[s][p].bank = NotLoaded \/ obj[s][p].bank \in 0..AtStart
      BY <2>1, BankFact
    <3>3. obj[s][p].bank \in Balance \union {NotLoaded}
      BY <2>3, <3>2
    <3> QED BY <3>1, <3>3 DEF Objects
  <2>5. \A k \in Links : \A i \in DOMAIN net[k] :
          LET m == net[k][i] IN
          /\ m.p \in Players
          /\ m.type \in {"SD_SavePlayerData", "DS_LoadPlayerData"} => m.bank \in Balance
    <3> SUFFICES ASSUME NEW k \in Links, NEW i \in DOMAIN net[k]
                 PROVE  /\ net[k][i].p \in Players
                        /\ net[k][i].type \in {"SD_SavePlayerData", "DS_LoadPlayerData"} =>
                             net[k][i].bank \in Balance
      OBVIOUS
    <3>1. /\ k \in Queues /\ Mail[k] = net[k] /\ i \in 1..Len(Mail[k]) /\ net[k] \in Seq(Mails)
      BY <2>1, NetFact, LenProperties
    <3> DEFINE m == Mail[k][i]
    <3>2. m \in Mails
      BY <2>1, <3>1, NetFact
    <3>3. m.p \in Players
      BY <3>2, HeldFact
    <3>4. ASSUME m.type = "SD_SavePlayerData" PROVE m.bank \in Balance
      <4>1. Rows(Mail, bank, transfers)
        BY <2>1, GoodType
      <4>2. m.bank <= AtStart
        BY <3>1, <3>4, <4>1 DEF Rows
      <4>3. m.bank \in Nat
        BY <3>2, <3>4, HeldFact DEF Values
      <4>4. m.bank \in 0..AtStart
        BY <2>3, <4>2, <4>3
      <4> QED BY <2>3, <4>4
    <3>5. ASSUME m.type = "DS_LoadPlayerData" PROVE m.bank \in Balance
      <4>1. m \in Carries(m.p)
        BY <3>2, <3>5 DEF Carries, Of
      <4>2. m.bank = NotLoaded \/ m.bank \in 0..AtStart
        BY <2>1, <3>1, <3>3, <4>1, BankFact
      <4>3. m.bank \in Nat
        BY <3>2, <3>5, HeldFact DEF Values
      <4>4. m.bank # NotLoaded
        BY <4>3 DEF NotLoaded
      <4> QED BY <2>3, <4>2, <4>4
    <3> QED BY <3>1, <3>3, <3>4, <3>5
  <2>6. bank \in [Players -> Balance]
    <3>1. ASSUME NEW p \in Players PROVE bank[p] \in Balance
      <4>1. /\ bank[p] + Count(Mail, Moving) <= AtStart + transfers /\ Count(Mail, Moving) \in Nat
            /\ bank[p] \in Nat
        BY <2>1, GoodType, CountFact DEF Rows
      <4>2. bank[p] \in 0..(AtStart + transfers)
        BY <2>1, <2>3, <4>1
      <4> QED BY <2>3, <4>2
    <3> QED BY <2>1, <3>1
  <2> QED BY <2>1, <2>2, <2>4, <2>5, <2>6 DEF TypeOK
<1>2. IInv => TypeOK
  BY <1>1
<1> QED BY <1>2, Invariant, PTL

\* The database adds up when everybody has gone.
THEOREM AddsUpSafe == ASSUME Patient, DbKeepsUp PROVE Spec => []AddsUp
<1>1. ASSUME IInv, Quiet PROVE InDatabase \in (AtStart - transfers) .. AtStart
  <2>1. /\ Good(obj, Mail, bank, orders, transfers) /\ Mail \in Nets
        /\ bank \in [Players -> Nat] /\ orders \subseteq Recharged /\ transfers \in Nat
        /\ \A k \in Links : k \in Queues /\ Mail[k] = net[k]
        /\ Mail[Lookups] = lookups /\ Mail[Found] = found
        /\ Mail[Pool] = pool /\ Mail[Recharges] = recharges
    BY <1>1, StateFact
  <2>2. \A k \in Queues : Len(Mail[k]) = 0
    BY <1>1, <2>1 DEF Quiet, Queues
  <2>3. Free(Mail, Moving) /\ \A p : Free(Mail, Save(p))
    BY <2>1, <2>2, CountFact
  <2>4. \A s \in Servers : \A p \in Players : obj[s][p] = None
    BY <1>1 DEF Quiet, Present
  <2>5. PICK lo \in [Players -> Nat] : \E hi \in [Players -> Nat] :
          Bounded(obj, Mail, bank, orders, transfers, lo, hi)
    BY <2>1 DEF Good
  <2>6. PICK hi \in [Players -> Nat] : Bounded(obj, Mail, bank, orders, transfers, lo, hi)
    BY <2>5
  <2>7. ASSUME NEW p \in Players PROVE lo[p] <= bank[p] /\ bank[p] <= hi[p]
    <3>1. Worth(obj, Mail, bank, p, lo[p]..hi[p])
      BY <2>6 DEF Bounded
    <3>2. FinalIn(Mail, bank, p, lo[p]..hi[p])
      BY <2>4, <3>1 DEF Worth
    <3>3. bank[p] \in lo[p]..hi[p]
      BY <2>3, <3>2 DEF FinalIn
    <3>4. bank[p] \in Nat /\ lo[p] \in Nat /\ hi[p] \in Nat
      BY <2>1, <2>5, <2>6
    <3> QED BY <3>3, <3>4
  <2>8. Total(lo) <= Total(bank) /\ Total(bank) <= Total(hi)
    BY <2>1, <2>5, <2>6, <2>7, SumMono
  <2>9. /\ Total(lo) \in Nat /\ Total(bank) \in Nat /\ Total(hi) \in Nat
        /\ Cardinality(orders) \in Nat /\ AtStart \in Nat /\ Count(Mail, Moving) = 0
    BY <2>1, <2>3, <2>5, <2>6, SumType, OrdersFact, StartFact, CountFact
  <2>10. /\ Total(hi) + Cardinality(orders) + Count(Mail, Moving) <= AtStart
         /\ Total(lo) + Cardinality(orders) + transfers >= AtStart
    BY <2>6 DEF Bounded
  <2>11. InDatabase = Total(bank) + Cardinality(orders)
    BY DEF InDatabase, Total
  <2>12. Total(bank) + Cardinality(orders) \in (AtStart - transfers) .. AtStart
    BY <2>1, <2>8, <2>9, <2>10
  <2> QED BY <2>11, <2>12
<1>2. IInv => AddsUp
  BY <1>1 DEF AddsUp
<1> QED BY <1>2, Invariant, PTL
=============================================================================
