--------------------------- MODULE TexasTable_proofs ---------------------------
(***************************************************************************)
(* Proofs about TexasTable, for any finite number of players and chairs    *)
(* and any blinds, stacks and raises: whatever the players and the room's  *)
(* tick do, and wherever a Lua error ends a handler, a table keeps its     *)
(* shape, nobody's chips go below zero, chips are made only by a           *)
(* settlement with side pots and by a blind that is not paid, and lost     *)
(* only where ChipsLost says.                                              *)
(*                                                                         *)
(* Every function of texas_table.lua is an operator from a table to a      *)
(* table, so that most of the proof is about operators: Sound, which is    *)
(* the invariant of one table, goes in and comes out, and next to it what  *)
(* the operator does to the chips and to the pot.  The actions are put     *)
(* together from these lemmas at the end.                                  *)
(***************************************************************************)
EXTENDS TexasTable, FiniteSetTheorems, WellFoundedInduction, TLAPS

-----------------------------------------------------------------------------
(* Sums: what SumFunction yields, for any function on a finite set.        *)
(*                                                                         *)
(* Induction is over the parts of the set, by a least one for which the    *)
(* statement fails.                                                        *)

\* What holds of a part of a finite set whenever it holds of all smaller parts holds of
\* every part.
LEMMA SubsetInduction ==
    ASSUME NEW D, IsFiniteSet(D), NEW T,
           ASSUME NEW s \in SUBSET D, \A r \in SUBSET D : r \subseteq s /\ r # s => r \in T
           PROVE  s \in T
    PROVE  \A s \in SUBSET D : s \in T
<1> DEFINE Bad == {s \in SUBSET D : s \notin T}
<1> SUFFICES ASSUME Bad # {} PROVE FALSE
  OBVIOUS
<1>0. Bad # {}
  OBVIOUS
<1>1. Bad \subseteq FiniteSubsetsOf(D)
  BY FS_Subset DEF FiniteSubsetsOf
<1>2. IsWellFoundedOn(StrictSubsetOrdering(D), FiniteSubsetsOf(D))
  BY FS_StrictSubsetOrderingWellFounded
<1>3. PICK s \in Bad : \A r \in Bad : ~(<<r, s>> \in StrictSubsetOrdering(D))
  <2> HIDE DEF Bad
  <2> QED BY <1>1, <1>2, <1>0, WFMin
<1>4. \A r \in SUBSET D : r \subseteq s /\ r # s => r \in T
  BY <1>3 DEF StrictSubsetOrdering
<1>5. s \in T
  BY <1>4
<1> QED BY <1>5

\* What holds of 0 and of n + 1 whenever of n holds of every n.
LEMMA CountInduction ==
    ASSUME NEW T, 0 \in T, \A n \in Nat : n \in T => n + 1 \in T
    PROVE  \A n \in Nat : n \in T
<1> DEFINE Bad == {n \in Nat : n \notin T}
<1> SUFFICES ASSUME Bad # {} PROVE FALSE
  OBVIOUS
<1>1. PICK n \in Bad : \A m \in Bad : ~(<<m, n>> \in OpToRel(<, Nat))
  BY NatLessThanWellFounded, WFMin
<1>2. \A m \in Nat : m < n => m \in T
  BY <1>1 DEF OpToRel
<1>3. n # 0 /\ n - 1 \in Nat /\ n - 1 < n
  OBVIOUS
<1>4. n - 1 \in T
  BY <1>2, <1>3
<1>5. (n - 1) + 1 \in T
  BY <1>3, <1>4
<1> QED BY <1>3, <1>5

\* What a fold over D has at each part of D, when it takes the elements in the order of ch.
Folded(G, D, base, ch, tab) ==
    G = [s \in SUBSET D |-> IF s = {} THEN base ELSE tab[<<G[s \ {ch[s]}], ch[s]>>]]

\* A fold over a finite set has a value at every part of it, whatever the order chosen.
LEMMA FoldExists ==
    ASSUME NEW D, IsFiniteSet(D), NEW A, NEW base \in A, NEW ch,
           \A s \in SUBSET D : s # {} => ch[s] \in s,
           NEW tab \in [A \X D -> A]
    PROVE  \E G \in [SUBSET D -> A] : Folded(G, D, base, ch, tab)
<1> DEFINE Upto(n) == {s \in SUBSET D : Cardinality(s) <= n}
           Part(G, n) == \A s \in Upto(n) : G[s] = IF s = {} THEN base ELSE tab[<<G[s \ {ch[s]}], ch[s]>>]
           T == {n \in Nat : \E G \in [SUBSET D -> A] : Part(G, n)}
<1>0. \A s \in SUBSET D : IsFiniteSet(s) /\ Cardinality(s) \in Nat /\ Cardinality(s) <= Cardinality(D)
  BY FS_Subset, FS_CardinalityType
<1>1. 0 \in T
  <2>1. \A s \in Upto(0) : s = {}
    BY <1>0, FS_EmptySet
  <2>2. Part([s \in SUBSET D |-> base], 0)
    BY <2>1
  <2> QED BY <2>2
<1>2. \A n \in Nat : n \in T => n + 1 \in T
  <2> SUFFICES ASSUME NEW n \in Nat, n \in T PROVE n + 1 \in T
    OBVIOUS
  <2>1. PICK G \in [SUBSET D -> A] : Part(G, n)
    OBVIOUS
  <2> DEFINE H == [s \in SUBSET D |-> IF s = {} THEN base ELSE tab[<<G[s \ {ch[s]}], ch[s]>>]]
  <2>2. H \in [SUBSET D -> A]
    <3> SUFFICES ASSUME NEW s \in SUBSET D, s # {} PROVE tab[<<G[s \ {ch[s]}], ch[s]>>] \in A
      OBVIOUS
    <3>1. ch[s] \in D /\ s \ {ch[s]} \in SUBSET D
      OBVIOUS
    <3>2. G[s \ {ch[s]}] \in A
      BY <3>1
    <3> QED BY <3>1, <3>2
  <2>3. \A s \in Upto(n) : H[s] = G[s]
    BY <2>1
  <2>4. ASSUME NEW s \in Upto(n + 1), s # {}
        PROVE  H[s \ {ch[s]}] = G[s \ {ch[s]}]
    <3>1. ch[s] \in s /\ s \ {ch[s]} \in SUBSET D
      BY <2>4
    <3>2. Cardinality(s \ {ch[s]}) = Cardinality(s) - 1
      BY <3>1, <1>0, FS_RemoveElement
    <3>3. s \ {ch[s]} \in Upto(n)
      BY <3>1, <3>2, <1>0
    <3> QED BY <3>3, <2>3
  <2>5. Part(H, n + 1)
    BY <2>4
  <2> HIDE DEF H, Part
  <2>6. \E F \in [SUBSET D -> A] : Part(F, n + 1)
    BY <2>2, <2>5
  <2> QED BY <2>6
<1>3. Cardinality(D) \in T
  <2> HIDE DEF T
  <2>1. \A n \in Nat : n \in T
    BY <1>1, <1>2, CountInduction
  <2> QED BY <2>1, FS_CardinalityType
<1>4. PICK G \in [SUBSET D -> A] : Part(G, Cardinality(D))
  BY <1>3
<1>5. \A s \in SUBSET D : s \in Upto(Cardinality(D))
  BY <1>0
<1>6. \A s \in SUBSET D : G[s] = IF s = {} THEN base ELSE tab[<<G[s \ {ch[s]}], ch[s]>>]
  BY <1>4, <1>5
<1>7. G = [s \in SUBSET D |-> G[s]]
  OBVIOUS
<1>8. G = [s \in SUBSET D |-> IF s = {} THEN base ELSE tab[<<G[s \ {ch[s]}], ch[s]>>]]
  BY <1>6, <1>7
<1> QED BY <1>8 DEF Folded

\* What SumFunction has at each part of the domain S of f.
Sums(G, f, S) ==
    \A s \in SUBSET S :
        G[s] = IF s = {} THEN 0 ELSE f[CHOOSE x \in s : TRUE] + G[s \ {CHOOSE x \in s : TRUE}]

\* SumFunction is the fold of +, so that it takes one element after another off the set.
LEMMA SumIs ==
    ASSUME NEW S, IsFiniteSet(S), NEW f \in [S -> Int]
    PROVE  \E G \in [SUBSET S -> Int] : Sums(G, f, S) /\ SumFunction(f) = G[S]
<1> DEFINE ch == [s \in SUBSET S |-> CHOOSE x \in s : TRUE]
           tab == [y \in Int \X S |-> f[y[2]] + y[1]]
           it == CHOOSE iter :
                   iter = [s \in SUBSET S |-> IF s = {} THEN 0
                             ELSE f[CHOOSE x \in s : TRUE] + iter[s \ {CHOOSE x \in s : TRUE}]]
<1>1. \A s \in SUBSET S : s # {} => ch[s] \in s
  OBVIOUS
<1>2. tab \in [Int \X S -> Int]
  OBVIOUS
<1>3. PICK G \in [SUBSET S -> Int] : Folded(G, S, 0, ch, tab)
  <2>1. 0 \in Int
    OBVIOUS
  <2> HIDE DEF ch, tab
  <2> QED BY <1>1, <1>2, <2>1, FoldExists
<1>4. \A s \in SUBSET S : s # {} =>
         /\ (CHOOSE x \in s : TRUE) \in s /\ G[s \ {CHOOSE x \in s : TRUE}] \in Int
         /\ G[s] = f[CHOOSE x \in s : TRUE] + G[s \ {CHOOSE x \in s : TRUE}]
  <2> SUFFICES ASSUME NEW s \in SUBSET S, s # {}
               PROVE  /\ (CHOOSE x \in s : TRUE) \in s /\ G[s \ {CHOOSE x \in s : TRUE}] \in Int
                      /\ G[s] = f[CHOOSE x \in s : TRUE] + G[s \ {CHOOSE x \in s : TRUE}]
    OBVIOUS
  <2> DEFINE x == CHOOSE x \in s : TRUE
  <2>1. x \in s
    OBVIOUS
  <2>2. ch[s] = x
    OBVIOUS
  <2> HIDE DEF x, ch
  <2>3. s \ {x} \in SUBSET S /\ x \in S
    BY <2>1
  <2>4. G[s \ {x}] \in Int
    BY <2>3
  <2>5. G[s] = tab[<<G[s \ {x}], x>>]
    BY <1>3, <2>2 DEF Folded
  <2>6. G[s] = f[x] + G[s \ {x}]
    BY <2>3, <2>4, <2>5
  <2> QED BY <2>1, <2>4, <2>6 DEF x
<1>5. G[{}] = 0
  BY <1>3 DEF Folded
<1>6. G = [s \in SUBSET S |-> IF s = {} THEN 0
                             ELSE f[CHOOSE x \in s : TRUE] + G[s \ {CHOOSE x \in s : TRUE}]]
  <2>1. G = [s \in SUBSET S |-> G[s]]
    OBVIOUS
  <2> QED BY <1>4, <1>5, <2>1
<1>7. it = [s \in SUBSET S |-> IF s = {} THEN 0
                             ELSE f[CHOOSE x \in s : TRUE] + it[s \ {CHOOSE x \in s : TRUE}]]
  <2>1. \E iter : iter = [s \in SUBSET S |-> IF s = {} THEN 0
                             ELSE f[CHOOSE x \in s : TRUE] + iter[s \ {CHOOSE x \in s : TRUE}]]
    BY <1>6
  <2> QED BY <2>1
<1>8. SumFunction(f) = it[S]
  <2>1. DOMAIN f = S
    OBVIOUS
  <2> QED BY <2>1, Zenon DEF SumFunction, SumFunctionOnSet, FoldFunctionOnSet, MapThenFoldSet
<1> HIDE DEF it
<1> DEFINE T == {s \in SUBSET S : it[s] = G[s]}
<1>9. \A s \in SUBSET S : s \in T
  <2>1. ASSUME NEW s \in SUBSET S, \A r \in SUBSET S : r \subseteq s /\ r # s => r \in T
        PROVE  s \in T
    <3>1. CASE s = {}
      BY <1>5, <1>7, <3>1
    <3>2. CASE s # {}
      <4> DEFINE x == CHOOSE x \in s : TRUE
      <4>1. x \in s /\ G[s] = f[x] + G[s \ {x}]
        BY <1>4, <3>2
      <4>2. it[s] = f[x] + it[s \ {x}]
        BY <1>7, <3>2
      <4> HIDE DEF x
      <4>3. it[s \ {x}] = G[s \ {x}]
        BY <2>1, <4>1
      <4> QED BY <4>1, <4>2, <4>3
    <3> QED BY <3>1, <3>2
  <2> HIDE DEF T
  <2> QED BY <2>1, SubsetInduction
<1>10. Sums(G, f, S)
  BY <1>4, <1>5 DEF Sums
<1> QED BY <1>8, <1>9, <1>10

\* The sum of integers is an integer.
LEMMA SumInt ==
    ASSUME NEW S, IsFiniteSet(S), NEW f \in [S -> Int]
    PROVE  SumFunction(f) \in Int
<1>1. PICK G \in [SUBSET S -> Int] : Sums(G, f, S) /\ SumFunction(f) = G[S]
  BY SumIs
<1> QED BY <1>1

\* A sum is the sum of its parts, as with what is won and what is there.
LEMMA SumAdd ==
    ASSUME NEW S, IsFiniteSet(S), NEW f \in [S -> Int], NEW g \in [S -> Int], NEW h \in [S -> Int],
           \A x \in S : h[x] = f[x] + g[x]
    PROVE  SumFunction(h) = SumFunction(f) + SumFunction(g)
<1>1. PICK F \in [SUBSET S -> Int] : Sums(F, f, S) /\ SumFunction(f) = F[S]
  BY SumIs
<1>2. PICK G \in [SUBSET S -> Int] : Sums(G, g, S) /\ SumFunction(g) = G[S]
  BY SumIs
<1>3. PICK H \in [SUBSET S -> Int] : Sums(H, h, S) /\ SumFunction(h) = H[S]
  BY SumIs
<1> DEFINE T == {s \in SUBSET S : H[s] = F[s] + G[s]}
<1>4. ASSUME NEW s \in SUBSET S, \A r \in SUBSET S : r \subseteq s /\ r # s => r \in T
      PROVE  s \in T
  <2>1. CASE s = {}
    BY <1>1, <1>2, <1>3, <2>1 DEF Sums
  <2>2. CASE s # {}
    <3> DEFINE x == CHOOSE y \in s : TRUE
    <3>0. x \in s
      BY <2>2
    <3>1. H[s] = h[x] + H[s \ {x}]
      BY <1>3, <2>2, Zenon DEF Sums
    <3>2. F[s] = f[x] + F[s \ {x}]
      BY <1>1, <2>2, Zenon DEF Sums
    <3>3. G[s] = g[x] + G[s \ {x}]
      BY <1>2, <2>2, Zenon DEF Sums
    <3> HIDE DEF x
    <3>4. H[s \ {x}] = F[s \ {x}] + G[s \ {x}] /\ s \ {x} \in SUBSET S
      BY <1>4, <3>0
    <3>5. H[s] = F[s] + G[s]
      <4>1. F[s \ {x}] \in Int /\ G[s \ {x}] \in Int /\ f[x] \in Int /\ g[x] \in Int /\ h[x] = f[x] + g[x]
        BY <3>0, <3>4
      <4> QED BY <3>1, <3>2, <3>3, <3>4, <4>1
    <3> QED BY <3>5
  <2> QED BY <2>1, <2>2
<1>5. S \in T
  <2> HIDE DEF T
  <2>1. \A s \in SUBSET S : s \in T
    BY <1>4, SubsetInduction
  <2> QED BY <2>1
<1> QED BY <1>1, <1>2, <1>3, <1>5

\* Who has no less in any place has no less in all.
LEMMA SumLeq ==
    ASSUME NEW S, IsFiniteSet(S), NEW f \in [S -> Int], NEW g \in [S -> Int],
           \A x \in S : f[x] <= g[x]
    PROVE  SumFunction(f) <= SumFunction(g)
<1>1. PICK F \in [SUBSET S -> Int] : Sums(F, f, S) /\ SumFunction(f) = F[S]
  BY SumIs
<1>2. PICK G \in [SUBSET S -> Int] : Sums(G, g, S) /\ SumFunction(g) = G[S]
  BY SumIs
<1> DEFINE T == {s \in SUBSET S : F[s] <= G[s]}
<1>4. ASSUME NEW s \in SUBSET S, \A r \in SUBSET S : r \subseteq s /\ r # s => r \in T
      PROVE  s \in T
  <2>1. CASE s = {}
    BY <1>1, <1>2, <2>1 DEF Sums
  <2>2. CASE s # {}
    <3> DEFINE x == CHOOSE y \in s : TRUE
    <3>0. x \in s
      BY <2>2
    <3>2. F[s] = f[x] + F[s \ {x}]
      BY <1>1, <2>2, Zenon DEF Sums
    <3>3. G[s] = g[x] + G[s \ {x}]
      BY <1>2, <2>2, Zenon DEF Sums
    <3> HIDE DEF x
    <3>4. F[s \ {x}] <= G[s \ {x}] /\ s \ {x} \in SUBSET S
      BY <1>4, <3>0
    <3>5. F[s] <= G[s]
      <4>1. F[s \ {x}] \in Int /\ G[s \ {x}] \in Int /\ f[x] \in Int /\ g[x] \in Int /\ f[x] <= g[x]
        BY <3>0, <3>4
      <4> QED BY <3>2, <3>3, <3>4, <4>1
    <3> QED BY <3>5
  <2> QED BY <2>1, <2>2
<1>5. S \in T
  <2> HIDE DEF T
  <2>1. \A s \in SUBSET S : s \in T
    BY <1>4, SubsetInduction
  <2> QED BY <2>1
<1> QED BY <1>1, <1>2, <1>5

\* c for each element of M, and nothing for the others: what an even split pays.
LEMMA SumSame ==
    ASSUME NEW S, IsFiniteSet(S), NEW M \in SUBSET S, NEW c \in Int,
           NEW f \in [S -> Int], \A x \in S : f[x] = IF x \in M THEN c ELSE 0
    PROVE  SumFunction(f) = Cardinality(M) * c
<1>1. PICK F \in [SUBSET S -> Int] : Sums(F, f, S) /\ SumFunction(f) = F[S]
  BY SumIs
<1> DEFINE T == {s \in SUBSET S : F[s] = Cardinality(M \intersect s) * c}
<1>4. ASSUME NEW s \in SUBSET S, \A r \in SUBSET S : r \subseteq s /\ r # s => r \in T
      PROVE  s \in T
  <2>1. CASE s = {}
    <3>1. Cardinality(M \intersect s) = 0
      <4>1. M \intersect s = {}
        BY <2>1
      <4> QED BY <4>1, FS_EmptySet
    <3>2. F[s] = 0
      BY <1>1, <2>1 DEF Sums
    <3> QED BY <3>1, <3>2
  <2>2. CASE s # {}
    <3> DEFINE x == CHOOSE y \in s : TRUE
    <3>0. x \in s
      BY <2>2
    <3>2. F[s] = f[x] + F[s \ {x}]
      BY <1>1, <2>2, Zenon DEF Sums
    <3> HIDE DEF x
    <3>4. F[s \ {x}] = Cardinality(M \intersect (s \ {x})) * c
      BY <1>4, <3>0
    <3> DEFINE n == Cardinality(M \intersect s)
    <3>5. IsFiniteSet(M \intersect s) /\ n \in Nat
      BY FS_Subset, FS_CardinalityType
    <3>6. CASE x \in M
      <4>1. M \intersect (s \ {x}) = (M \intersect s) \ {x}
        OBVIOUS
      <4>2. Cardinality((M \intersect s) \ {x}) = n - 1
        BY <3>0, <3>5, <3>6, FS_RemoveElement
      <4> HIDE DEF n
      <4>3. F[s] = c + (n - 1) * c
        BY <3>2, <3>4, <3>6, <4>1, <4>2
      <4>4. F[s] = n * c
        BY <3>5, <4>3
      <4> QED BY <4>4 DEF n
    <3>7. CASE x \notin M
      <4>1. M \intersect (s \ {x}) = M \intersect s
        BY <3>7
      <4>2. f[x] = 0
        BY <3>0, <3>7
      <4> HIDE DEF n
      <4>3. F[s] = 0 + n * c
        BY <3>2, <3>4, <4>1, <4>2 DEF n
      <4>4. F[s] = n * c
        BY <3>5, <4>3
      <4> QED BY <4>4 DEF n
    <3> QED BY <3>6, <3>7
  <2> QED BY <2>1, <2>2
<1>5. S \in T
  <2> HIDE DEF T
  <2>1. \A s \in SUBSET S : s \in T
    BY <1>4, SubsetInduction
  <2> QED BY <2>1
<1>6. M \intersect S = M
  OBVIOUS
<1> QED BY <1>1, <1>5, <1>6

\* One entry changes the sum by what it changes itself, as a bet does.
LEMMA SumUpdate ==
    ASSUME NEW S, IsFiniteSet(S), NEW f \in [S -> Int], NEW p \in S, NEW v \in Int
    PROVE  SumFunction([f EXCEPT ![p] = v]) = SumFunction(f) - f[p] + v
<1> DEFINE g == [x \in S |-> IF x \in {p} THEN v - f[p] ELSE 0]
           h == [f EXCEPT ![p] = v]
<1>1. g \in [S -> Int] /\ h \in [S -> Int] /\ v - f[p] \in Int
  OBVIOUS
<1>2. \A x \in S : h[x] = f[x] + g[x]
  OBVIOUS
<1>3. \A x \in S : g[x] = IF x \in {p} THEN v - f[p] ELSE 0
  OBVIOUS
<1> HIDE DEF g, h
<1>4. SumFunction(h) = SumFunction(f) + SumFunction(g)
  BY <1>1, <1>2, SumAdd
<1>5. SumFunction(g) = Cardinality({p}) * (v - f[p])
  BY <1>1, <1>3, SumSame
<1>6. SumFunction(f) \in Int /\ Cardinality({p}) = 1
  BY SumInt, FS_Singleton
<1> QED BY <1>4, <1>5, <1>6 DEF h

\* No entry is more than the sum, if none is negative.
LEMMA SumPositive ==
    ASSUME NEW S, IsFiniteSet(S), NEW f \in [S -> Nat]
    PROVE  /\ SumFunction(f) \in Nat
           /\ \A p \in S : f[p] <= SumFunction(f)
<1>0. f \in [S -> Int]
  OBVIOUS
<1>1. SumFunction(f) \in Int
  BY <1>0, SumInt
<1>2. ASSUME NEW M \in SUBSET S, NEW c \in Int, \A x \in S : (IF x \in M THEN c ELSE 0) <= f[x]
      PROVE  Cardinality(M) * c <= SumFunction(f)
  <2> DEFINE g == [x \in S |-> IF x \in M THEN c ELSE 0]
  <2>1. g \in [S -> Int] /\ \A x \in S : g[x] = IF x \in M THEN c ELSE 0
    OBVIOUS
  <2>2. \A x \in S : g[x] <= f[x]
    BY <1>2
  <2> HIDE DEF g
  <2>3. SumFunction(g) = Cardinality(M) * c
    BY <2>1, SumSame
  <2>4. SumFunction(g) <= SumFunction(f)
    BY <1>0, <2>1, <2>2, SumLeq
  <2> QED BY <2>3, <2>4
<1>3. 0 <= SumFunction(f)
  <2>1. Cardinality({}) * 0 <= SumFunction(f)
    <3>1. {} \in SUBSET S /\ 0 \in Int /\ \A x \in S : (IF x \in {} THEN 0 ELSE 0) <= f[x]
      OBVIOUS
    <3> QED BY <3>1, <1>2
  <2> QED BY <2>1, FS_EmptySet
<1>4. ASSUME NEW p \in S PROVE f[p] <= SumFunction(f)
  <2>1. {p} \in SUBSET S /\ f[p] \in Int /\ \A x \in S : (IF x \in {p} THEN f[p] ELSE 0) <= f[x]
    OBVIOUS
  <2>2. Cardinality({p}) * f[p] <= SumFunction(f)
    BY <2>1, <1>2
  <2>3. Cardinality({p}) = 1
    BY FS_Singleton
  <2>4. f[p] \in Int
    OBVIOUS
  <2> QED BY <2>2, <2>3, <2>4, <1>1
<1> QED BY <1>1, <1>3, <1>4

-----------------------------------------------------------------------------
(* A table by itself: its fields, the invariant, and tables made anew.     *)

\* What a table keeps.
Fields == {"chair", "money", "t_player", "cards", "t_bet", "t_status", "due", "ready", "award",
           "t_pot", "max", "play", "pass", "count", "gen", "side", "active", "next", "SB", "BB",
           "button", "told", "err"}

\* TypeOK of one table, without the error.
Typed(t) ==
    /\ DOMAIN t = Fields
    /\ t.err \in BOOLEAN
    /\ t.chair \in [Players -> 0 .. Chairs]
    /\ t.money \in [Players -> Nat]
    /\ t.t_player \in [Players -> {"nil", "WAITING", "GAME", "ALL_IN", "FOLD"}]
    /\ t.cards \subseteq Players
    /\ t.t_bet \in [Players -> Nat \union {NoBet}]
    /\ t.t_status \in WAITING .. SHOW_DOWN
    /\ t.due \in BOOLEAN /\ t.ready \in BOOLEAN /\ t.award \in BOOLEAN
    /\ t.t_pot \in Nat /\ t.max \in Nat
    /\ t.play \in Int /\ t.pass \in Nat /\ t.count \in Int
    /\ t.gen \in Seq(Players) /\ t.side \in Seq(Pots)
    /\ t.told \in Players \union {None}
    /\ t.active \in Seat /\ t.next \in Seat /\ t.SB \in Seat /\ t.BB \in Seat /\ t.button \in Seat

\* Nobody has bet more than t_cur_max_bet in this round.
Highest(t) == \A p \in Players : t.t_bet[p] <= t.max
\* A side pot holds something or nothing.
Owed(t) == \A k \in DOMAIN t.side : t.side[k].money >= 0
\* A table that waits has no pot, nobody to think and no bets (reset).
Idle(t) ==
    t.t_status = WAITING =>
        /\ t.told = None /\ t.t_pot = 0 /\ t.max = 0 /\ ~t.award
        /\ \A p \in AtTable(t) : t.t_bet[p] = 0
\* t_award_flag is set only when the hands have been shown.
Awarded(t) == t.award => t.t_status = SHOW_DOWN
\* Who holds cards has been dealt in.
Dealt(t) == \A p \in t.cards : t.t_player[p] \notin {"nil", "WAITING"}

\* The invariant of one table.
Sound(t) == Typed(t) /\ t.count >= 0 /\ Highest(t) /\ Owed(t) /\ Idle(t) /\ Awarded(t) /\ Dealt(t)

USE TableAssumption DEF TableAssumption, NoBet, WAITING, PRE_FLOP, RIVER, SHOW_DOWN

\* chair 0 with no player, as reset leaves it, is a seat.
LEMMA NoSeatSeat == NoSeat \in Seat
BY DEF NoSeat, Seat

\* No side pots, and nobody for one.
LEMMA EmptySeqs == <<>> \in Seq(Players) /\ <<>> \in Seq(Pots)
OBVIOUS

\* A new table is sound (texas_table:init).
LEMMA InitSound == Sound(init)
<1>1. DOMAIN init = Fields
  BY DEF init, Fields
<1>2. Typed(init)
  BY <1>1, NoSeatSeat, EmptySeqs DEF Typed, init
<1>3. init.count >= 0 /\ Highest(init) /\ Owed(init) /\ Idle(init) /\ Awarded(init) /\ Dealt(init)
  BY DEF init, Highest, Owed, Idle, Awarded, Dealt, AtTable
<1> QED BY <1>2, <1>3 DEF Sound

\* reset makes any table of the right shape sound, also after an error in the middle.
LEMMA ResetSound ==
    ASSUME NEW t, Typed(t), Dealt(t)
    PROVE  Sound(reset(t))
<1> DEFINE r == reset(t)
<1>1. Typed(r)
  <2>1. DOMAIN r = Fields
    BY DEF Typed, reset
  <2>2. r.t_bet \in [Players -> Nat \union {NoBet}]
    BY DEF Typed, reset, Fields
  <2>3. r.active = NoSeat /\ r.next = NoSeat /\ r.SB = NoSeat /\ r.BB = NoSeat
    BY DEF Typed, reset, Fields
  <2>4. r.gen = <<>> /\ r.side = <<>>
    BY DEF Typed, reset, Fields
  <2>5. /\ r.chair = t.chair /\ r.money = t.money /\ r.t_player = t.t_player /\ r.cards = t.cards
        /\ r.button = t.button /\ r.err = t.err
    BY DEF Typed, reset, Fields
  <2>6. r.t_status = 1 /\ r.due = TRUE /\ r.ready = FALSE /\ r.award = FALSE /\ r.t_pot = 0
        /\ r.max = 0 /\ r.play = 0 /\ r.pass = 0 /\ r.count = 0 /\ r.told = None
    BY DEF Typed, reset, Fields
  <2> HIDE DEF r
  <2>7. r.t_status \in WAITING .. SHOW_DOWN /\ r.t_pot \in Nat /\ r.max \in Nat
       /\ r.play \in Int /\ r.pass \in Nat /\ r.count \in Int
    BY <2>6
  <2>8. r.told \in Players \union {None} /\ r.due \in BOOLEAN /\ r.ready \in BOOLEAN /\ r.award \in BOOLEAN
    BY <2>6
  <2> QED BY <2>1, <2>2, <2>3, <2>4, <2>5, <2>7, <2>8, NoSeatSeat, EmptySeqs, Zenon DEF Typed
<1>2. r.count >= 0 /\ Highest(r) /\ Owed(r) /\ Idle(r) /\ Awarded(r) /\ Dealt(r)
  BY DEF Typed, Fields, reset, Highest, Owed, Idle, Awarded, Dealt, AtTable
<1> QED BY <1>1, <1>2 DEF Sound

-----------------------------------------------------------------------------
(* Chairs: who leaves, sits down, and is ready for the next hand.          *)

\* What is there to be paid is as it was.
Kept(t, r) == r.money = t.money /\ r.t_pot = t.t_pot /\ r.award = t.award

\* Any players can be counted.
LEMMA PlayersFinite == \A P \in SUBSET Players : IsFiniteSet(P) /\ Cardinality(P) \in Nat
<1> SUFFICES ASSUME NEW P \in SUBSET Players PROVE IsFiniteSet(P) /\ Cardinality(P) \in Nat
  OBVIOUS
<1>1. IsFiniteSet(Players)
  OBVIOUS
<1>2. IsFiniteSet(P)
  BY <1>1, FS_Subset
<1> QED BY <1>2, FS_CardinalityType

\* Who leaves the chair is counted off, and keeps what he has (player_stand_up). The count
\* may be below zero for a moment, which is why it is not part of what is asked here.
LEMMA LeavesSound ==
    ASSUME NEW t, Typed(t), Highest(t), Owed(t), Idle(t), Awarded(t), Dealt(t), NEW P \in SUBSET Players
    PROVE  LET r == Leaves(t, P)
           IN  /\ Typed(r) /\ Highest(r) /\ Owed(r) /\ Idle(r) /\ Awarded(r) /\ Dealt(r)
               /\ Kept(t, r) /\ r.count = t.count - Cardinality(P) /\ r.told = t.told
               /\ r.t_status = t.t_status /\ r.due = t.due
               /\ r.chair = [p \in Players |-> IF p \in P THEN 0 ELSE t.chair[p]]
<1> DEFINE r == Leaves(t, P)
<1> HIDE DEF r
<1>0. IsFiniteSet(P) /\ Cardinality(P) \in Nat /\ Cardinality(P \intersect StillIn(t)) \in Nat
  <2>1. P \intersect StillIn(t) \in SUBSET Players
    OBVIOUS
  <2> QED BY <2>1, PlayersFinite
<1>1. DOMAIN r = Fields
  BY DEF Typed, Leaves, r
<1>2. /\ r.money = t.money /\ r.t_bet = t.t_bet /\ r.t_status = t.t_status /\ r.due = t.due
      /\ r.ready = t.ready /\ r.award = t.award /\ r.t_pot = t.t_pot /\ r.max = t.max /\ r.pass = t.pass
      /\ r.gen = t.gen /\ r.side = t.side /\ r.told = t.told /\ r.active = t.active /\ r.next = t.next
      /\ r.SB = t.SB /\ r.BB = t.BB /\ r.err = t.err
  BY DEF Typed, Leaves, Fields, r
<1>3. /\ r.count = t.count - Cardinality(P)
      /\ r.play = t.play - Cardinality(P \intersect StillIn(t))
      /\ r.chair = [p \in Players |-> IF p \in P THEN 0 ELSE t.chair[p]]
      /\ r.t_player = [p \in Players |-> IF p \in P THEN "nil" ELSE t.t_player[p]]
      /\ r.cards = t.cards \ P
      /\ r.button = IF t.button.guid \in P THEN NoSeat ELSE t.button
  BY DEF Typed, Leaves, Fields, r
<1>4. Typed(r)
  <2>1. r.button \in Seat
    BY <1>3, NoSeatSeat DEF Typed
  <2>2. r.count \in Int /\ r.play \in Int
    <3>1. t.count \in Int /\ t.play \in Int
      BY DEF Typed
    <3> QED BY <1>0, <1>3, <3>1
  <2>3. r.chair \in [Players -> 0 .. Chairs] /\ r.cards \subseteq Players
    <3>1. t.chair \in [Players -> 0 .. Chairs] /\ t.cards \subseteq Players
      BY DEF Typed
    <3> QED BY <1>3, <3>1
  <2>4. r.t_player \in [Players -> {"nil", "WAITING", "GAME", "ALL_IN", "FOLD"}]
    BY <1>3 DEF Typed
  <2> QED BY <1>1, <1>2, <2>1, <2>2, <2>3, <2>4, Zenon DEF Typed
<1>5. Highest(r) /\ Owed(r) /\ Awarded(r)
  BY <1>2, Zenon DEF Highest, Owed, Awarded
<1>6. Idle(r) /\ Dealt(r)
  <2>1. AtTable(r) \subseteq AtTable(t)
    BY <1>3 DEF AtTable
  <2>2. Dealt(r)
    BY <1>3 DEF Typed, Dealt
  <2> QED BY <1>2, <2>1, <2>2, Zenon DEF Idle
<1>7. Kept(t, r)
  BY <1>2 DEF Kept
<1> QED BY <1>2, <1>3, <1>4, <1>5, <1>6, <1>7 DEF r

\* do_sit_down pays and takes nothing.
LEMMA SitDownSound ==
    ASSUME NEW t, Sound(t), NEW p \in Players
    PROVE  Sound(do_sit_down(t, p)) /\ Kept(t, do_sit_down(t, p))
<1> DEFINE r == do_sit_down(t, p)
<1> HIDE DEF r
<1>1. DOMAIN r = Fields
  BY DEF Sound, Typed, do_sit_down, r
<1>2. /\ r.chair = t.chair /\ r.money = t.money /\ r.t_status = t.t_status
      /\ r.award = t.award /\ r.t_pot = t.t_pot /\ r.max = t.max /\ r.pass = t.pass /\ r.play = t.play
      /\ r.gen = t.gen /\ r.side = t.side /\ r.told = t.told /\ r.active = t.active /\ r.next = t.next
      /\ r.SB = t.SB /\ r.BB = t.BB /\ r.err = t.err /\ r.button = t.button
  BY DEF Sound, Typed, do_sit_down, Fields, r
<1>3. /\ r.t_player = [t.t_player EXCEPT ![p] = "WAITING"] /\ r.cards = t.cards \ {p}
      /\ r.t_bet = [t.t_bet EXCEPT ![p] = 0] /\ r.due = FALSE /\ r.count = t.count + 1
  BY DEF Sound, Typed, do_sit_down, Fields, r
<1>4. r.ready \in BOOLEAN
  BY DEF Sound, Typed, do_sit_down, Fields, r
<1>5. Typed(r)
  <2>1. r.count \in Int /\ r.cards \subseteq Players /\ r.t_bet \in [Players -> Nat \union {NoBet}]
    <3>1. t.count \in Int /\ t.cards \subseteq Players /\ t.t_bet \in [Players -> Nat \union {NoBet}]
      BY Zenon DEF Sound, Typed
    <3> QED BY <1>3, <3>1
  <2>2. r.due \in BOOLEAN
    BY <1>3
  <2>3. r.t_player \in [Players -> {"nil", "WAITING", "GAME", "ALL_IN", "FOLD"}]
    <3>1. t.t_player \in [Players -> {"nil", "WAITING", "GAME", "ALL_IN", "FOLD"}]
      BY Zenon DEF Sound, Typed
    <3> QED BY <1>3, <3>1
  <2> QED BY <1>1, <1>2, <1>4, <2>1, <2>2, <2>3, Zenon DEF Sound, Typed
<1>6. Owed(r) /\ Awarded(r)
  BY <1>2, Zenon DEF Sound, Owed, Awarded
<1>7. Highest(r) /\ Dealt(r) /\ r.count >= 0
  <2>1. Highest(r)
    BY <1>2, <1>3 DEF Sound, Typed, Highest
  <2>2. Dealt(r)
    BY <1>3 DEF Sound, Typed, Dealt
  <2> QED BY <2>1, <2>2, <1>3 DEF Sound, Typed
<1>8. Idle(r)
  <2>1. \A q \in AtTable(r) : q = p \/ q \in AtTable(t)
    BY <1>3 DEF Sound, Typed, AtTable
  <2>2. \A q \in Players : r.t_bet[q] = IF q = p THEN 0 ELSE t.t_bet[q]
    BY <1>3 DEF Sound, Typed
  <2> QED BY <1>2, <2>1, <2>2 DEF Sound, Idle, AtTable
<1> QED BY <1>2, <1>5, <1>6, <1>7, <1>8 DEF r, Sound, Kept

\* info_ready_to_all leaves the table as it is or makes it ready, with an empty pot.
LEMMA ReadySound ==
    ASSUME NEW t, Sound(t)
    PROVE  LET r == info_ready_to_all(t)
           IN  /\ Sound(r) /\ r.money = t.money
               /\ r = t \/ (r.award = FALSE /\ r.t_pot = 0)
               /\ \A p \in Players : t.chair[p] = 0 => r.chair[p] = 0
<1> DEFINE poor == {p \in Players : t.chair[p] # 0 /\ t.money[p] < RoomLimit}
           t0 == Leaves(t, poor)
           t1 == reset(t0)
           r == info_ready_to_all(t)
<1>1. CASE ~t.due
  <2>1. r = t
    BY <1>1 DEF info_ready_to_all
  <2> HIDE DEF r
  <2>2. Sound(r) /\ r.money = t.money /\ \A p \in Players : t.chair[p] = 0 => r.chair[p] = 0
    BY <2>1
  <2> QED BY <2>1, <2>2 DEF r
<1>2. CASE t.due
  <2>0. poor \in SUBSET Players
    OBVIOUS
  <2> HIDE DEF poor
  <2>1. /\ Typed(t0) /\ Dealt(t0) /\ t0.money = t.money
        /\ t0.chair = [p \in Players |-> IF p \in poor THEN 0 ELSE t.chair[p]]
    BY <2>0, LeavesSound DEF Sound, Kept
  <2> HIDE DEF t0
  <2>2. Sound(t1)
    BY <2>1, ResetSound
  <2>3. /\ t1.money = t.money /\ t1.chair = t0.chair /\ t1.t_status = 1 /\ t1.award = FALSE
        /\ t1.t_pot = 0 /\ t1.told = None /\ t1.max = 0
    <3>1. DOMAIN t0 = Fields
      BY <2>1, Zenon DEF Typed
    <3> QED BY <2>1, <3>1 DEF reset, Fields
  <2> HIDE DEF t1
  <2> DEFINE n == Cardinality(AtTable(t1))
             st == [p \in Players |-> IF t1.t_player[p] = "nil" THEN "nil" ELSE "WAITING"]
  <2>4. n \in Nat
    BY PlayersFinite DEF AtTable
  <2>5. r = [t1 EXCEPT !.t_player = [p \in Players |-> IF @[p] = "nil" THEN "nil" ELSE "WAITING"],
                       !.cards = @ \ AtTable(t1), !.due = FALSE, !.count = n, !.ready = n > 1]
    BY <1>2, Zenon DEF info_ready_to_all, t1, t0, poor
  <2> HIDE DEF n, r
  <2>6. DOMAIN r = Fields
    BY <2>2, <2>5 DEF Sound, Typed
  <2>7. /\ r.chair = t1.chair /\ r.money = t1.money /\ r.t_status = t1.t_status
        /\ r.award = t1.award /\ r.t_pot = t1.t_pot /\ r.max = t1.max /\ r.pass = t1.pass /\ r.play = t1.play
        /\ r.gen = t1.gen /\ r.side = t1.side /\ r.told = t1.told /\ r.active = t1.active /\ r.next = t1.next
        /\ r.SB = t1.SB /\ r.BB = t1.BB /\ r.err = t1.err /\ r.button = t1.button /\ r.t_bet = t1.t_bet
    BY <2>2, <2>5 DEF Sound, Typed, Fields
  <2>8. r.t_player = st /\ r.cards = t1.cards \ AtTable(t1) /\ r.due = FALSE /\ r.count = n
    BY <2>2, <2>5 DEF Sound, Typed, Fields
  <2>9. r.ready \in BOOLEAN
    BY <2>2, <2>4, <2>5 DEF Sound, Typed, Fields
  <2>10. Typed(r)
    <3>1. r.count \in Int /\ r.cards \subseteq Players /\ r.due \in BOOLEAN
      <4>1. t1.cards \subseteq Players
        BY <2>2, Zenon DEF Sound, Typed
      <4>2. r.count = n /\ r.cards = t1.cards \ AtTable(t1) /\ r.due = FALSE
        BY <2>8, Zenon
      <4>3. r.due \in BOOLEAN
        BY <4>2, Zenon
      <4>4. r.cards \subseteq Players /\ r.count \in Int
        BY <2>4, <4>1, <4>2
      <4> QED BY <4>3, <4>4
    <3>2. r.t_player \in [Players -> {"nil", "WAITING", "GAME", "ALL_IN", "FOLD"}]
      BY <2>8
    <3> HIDE DEF st
    <3> QED BY <2>2, <2>6, <2>7, <2>9, <3>1, <3>2, Zenon DEF Sound, Typed
  <2>11. Highest(r) /\ Owed(r) /\ Awarded(r)
    BY <2>2, <2>7, Zenon DEF Sound, Highest, Owed, Awarded
  <2>12. r.cards = {}
    <3>1. \A p \in t1.cards : p \in AtTable(t1)
      BY <2>2 DEF Sound, Typed, Dealt, AtTable
    <3> QED BY <2>8, <3>1
  <2>13. AtTable(r) = AtTable(t1)
    BY <2>8 DEF AtTable
  <2>14. Idle(r) /\ Dealt(r) /\ r.count >= 0
    BY <2>2, <2>4, <2>7, <2>8, <2>12, <2>13 DEF Sound, Idle, Dealt
  <2>15. r.money = t.money /\ r.award = FALSE /\ r.t_pot = 0
    BY <2>3, <2>7
  <2>16. \A p \in Players : t.chair[p] = 0 => r.chair[p] = 0
    BY <2>1, <2>3, <2>7
  <2> QED BY <2>10, <2>11, <2>14, <2>15, <2>16 DEF r, Sound
<1> QED BY <1>1, <1>2

\* What the players of a table have.
Coins(t) == SumFunction(t.money)

\* It is a number.
LEMMA CoinsInt == ASSUME NEW t, Typed(t) PROVE Coins(t) \in Int
<1>1. IsFiniteSet(Players)
  OBVIOUS
<1>2. t.money \in [Players -> Int]
  BY DEF Typed
<1> QED BY <1>1, <1>2, SumInt DEF Coins

\* player_stand_up keeps what is there, or resets the table when nobody counted is left: then
\* the pot goes, if it has not been paid.
LEMMA StandUpSound ==
    ASSUME NEW t, Sound(t), NEW p \in Players
    PROVE  LET r == player_stand_up(t, p)
           IN  /\ Sound(r) /\ r.money = t.money
               /\ Kept(t, r) \/ (r.award = FALSE /\ r.t_pot = 0 /\ (t.count <= 1 \/ t.t_pot = 0))
               /\ r.chair[p] = 0
<1> DEFINE t1 == Leaves(t, {p})
           r == player_stand_up(t, p)
<1> HIDE DEF t1, r
<1>1. /\ Typed(t1) /\ Highest(t1) /\ Owed(t1) /\ Idle(t1) /\ Awarded(t1) /\ Dealt(t1)
      /\ Kept(t, t1) /\ t1.count = t.count - 1 /\ t1.chair[p] = 0 /\ t1.t_status = t.t_status
      /\ t1.told = t.told
  <2>1. {p} \in SUBSET Players /\ Cardinality({p}) = 1
    BY FS_Singleton
  <2>2. /\ Typed(t1) /\ Highest(t1) /\ Owed(t1) /\ Idle(t1) /\ Awarded(t1) /\ Dealt(t1)
        /\ Kept(t, t1) /\ t1.count = t.count - Cardinality({p}) /\ t1.t_status = t.t_status
        /\ t1.told = t.told
        /\ t1.chair = [q \in Players |-> IF q \in {p} THEN 0 ELSE t.chair[q]]
    BY <2>1, LeavesSound DEF Sound, t1
  <2> QED BY <2>1, <2>2
<1>2. CASE t1.count < 1
  <2>1. r = reset(t1)
    BY <1>2 DEF player_stand_up, r, t1
  <2>2. Sound(r)
    BY <1>1, <2>1, ResetSound
  <2>3. /\ r.money = t1.money /\ r.chair = t1.chair /\ r.award = FALSE /\ r.t_pot = 0
    BY <1>1, <2>1 DEF reset, Typed, Fields
  <2>4. t.count <= 1
    <3>1. t.count \in Int
      BY Zenon DEF Sound, Typed
    <3> QED BY <1>1, <1>2, <3>1
  <2> QED BY <1>1, <2>2, <2>3, <2>4 DEF r, Kept
<1>3. CASE t1.count >= 2
  <2>0. ~(t1.count < 1) /\ t1.count >= 0
    <3>1. t1.count \in Int
      BY <1>1, Zenon DEF Typed
    <3> QED BY <1>3, <3>1
  <2>1. r = t1
    BY <1>3, <2>0 DEF player_stand_up, r, t1
  <2>2. Sound(t1)
    BY <1>1, <2>0 DEF Sound
  <2> QED BY <1>1, <2>1, <2>2 DEF r, Kept
<1>4. CASE ~(t1.count < 1) /\ ~(t1.count >= 2) /\ t1.t_pot = 0
  <2>1. r = info_ready_to_all(t1)
    BY <1>4 DEF player_stand_up, r, t1
  <2>2. Sound(t1)
    <3>1. t1.count \in Int
      BY <1>1, Zenon DEF Typed
    <3> QED BY <1>1, <1>4, <3>1 DEF Sound
  <2> DEFINE r1 == info_ready_to_all(t1)
  <2>3. /\ Sound(r1) /\ r1.money = t1.money
        /\ r1 = t1 \/ (r1.award = FALSE /\ r1.t_pot = 0)
        /\ \A q \in Players : t1.chair[q] = 0 => r1.chair[q] = 0
    BY <2>2, ReadySound
  <2> HIDE DEF r1
  <2>4. r = r1
    BY <2>1 DEF r1
  <2> QED BY <1>1, <1>4, <2>3, <2>4 DEF r, Kept
<1>5. CASE ~(t1.count < 1) /\ ~(t1.count >= 2) /\ t1.t_pot # 0
  <2>1. r = [t1 EXCEPT !.t_status = SHOW_DOWN]
    BY <1>5, Zenon DEF player_stand_up, r, t1
  <2>2. /\ DOMAIN r = Fields /\ r.t_status = 6
        /\ r.chair = t1.chair /\ r.money = t1.money /\ r.t_player = t1.t_player /\ r.cards = t1.cards
        /\ r.t_bet = t1.t_bet /\ r.due = t1.due /\ r.ready = t1.ready /\ r.award = t1.award
        /\ r.t_pot = t1.t_pot /\ r.max = t1.max /\ r.play = t1.play /\ r.pass = t1.pass
        /\ r.count = t1.count /\ r.gen = t1.gen /\ r.side = t1.side /\ r.told = t1.told
        /\ r.active = t1.active /\ r.next = t1.next /\ r.SB = t1.SB /\ r.BB = t1.BB
        /\ r.button = t1.button /\ r.err = t1.err
    BY <1>1, <2>1 DEF Typed, Fields
  <2>3. r.t_status \in WAITING .. SHOW_DOWN
    BY <2>2
  <2>4. Typed(r)
    BY <1>1, <2>2, <2>3, Zenon DEF Typed
  <2>5. t1.count \in Int
    BY <1>1, Zenon DEF Typed
  <2>6. Highest(r) /\ Owed(r) /\ Idle(r) /\ Awarded(r) /\ Dealt(r) /\ r.count >= 0
    BY <1>1, <1>5, <2>2, <2>5 DEF Highest, Owed, Idle, Awarded, Dealt
  <2> QED BY <1>1, <2>2, <2>4, <2>6 DEF r, Kept, Sound
<1> QED BY <1>2, <1>3, <1>4, <1>5

-----------------------------------------------------------------------------
(* One bet.                                                                *)

\* A bet leaves the rest of the table alone.
Same(t, r) ==
    /\ DOMAIN r = Fields
    /\ r.chair = t.chair /\ r.cards = t.cards /\ r.t_status = t.t_status /\ r.due = t.due
    /\ r.ready = t.ready /\ r.award = t.award /\ r.play = t.play /\ r.pass = t.pass
    /\ r.count = t.count /\ r.side = t.side /\ r.active = t.active /\ r.next = t.next
    /\ r.SB = t.SB /\ r.BB = t.BB /\ r.button = t.button /\ r.told = t.told

\* What cost_money takes.
Paid(t, p, m) == IF m <= 0 \/ t.money[p] < m THEN 0 ELSE m

\* cost_money takes all of an amount or nothing, and the pot grows by it in any case.
LEMMA CostMoney ==
    ASSUME NEW t, Typed(t), NEW p \in Players, NEW m \in Nat
    PROVE  LET r == [cost_money(t, p, m) EXCEPT !.t_pot = @ + m]
           IN  /\ Typed(r) /\ Same(t, r)
               /\ r.t_player = t.t_player /\ r.t_bet = t.t_bet /\ r.max = t.max
               /\ r.gen = t.gen /\ r.err = t.err /\ r.t_pot = t.t_pot + m
               /\ r.money = [t.money EXCEPT ![p] = t.money[p] - Paid(t, p, m)]
<1> DEFINE c == cost_money(t, p, m)
           r == [c EXCEPT !.t_pot = @ + m]
<1>1. /\ t.money \in [Players -> Nat] /\ t.t_pot \in Nat /\ DOMAIN t = Fields
  BY Zenon DEF Typed
<1>2. t.money[p] \in Nat /\ Paid(t, p, m) \in Nat /\ t.money[p] - Paid(t, p, m) \in Nat
  BY <1>1 DEF Paid
<1>3. /\ DOMAIN c = Fields /\ c.money = [t.money EXCEPT ![p] = t.money[p] - Paid(t, p, m)]
      /\ c.t_pot = t.t_pot
      /\ c.chair = t.chair /\ c.t_player = t.t_player /\ c.cards = t.cards
      /\ c.t_bet = t.t_bet /\ c.due = t.due /\ c.ready = t.ready /\ c.award = t.award
      /\ c.max = t.max /\ c.play = t.play /\ c.pass = t.pass
      /\ c.count = t.count /\ c.gen = t.gen /\ c.side = t.side /\ c.told = t.told
      /\ c.active = t.active /\ c.next = t.next /\ c.SB = t.SB /\ c.BB = t.BB
      /\ c.button = t.button /\ c.err = t.err /\ c.t_status = t.t_status
  <2>1. CASE m <= 0 \/ t.money[p] < m
    <3>1. c = t
      BY <2>1, Zenon DEF cost_money, c
    <3>2. Paid(t, p, m) = 0
      BY <2>1, Zenon DEF Paid
    <3>3. t.money = [t.money EXCEPT ![p] = t.money[p] - 0]
      BY <1>1
    <3> HIDE DEF c
    <3> QED BY <1>1, <3>1, <3>2, <3>3
  <2>2. CASE ~(m <= 0 \/ t.money[p] < m)
    <3>1. c = [t EXCEPT !.money[p] = @ - m]
      BY <2>2, Zenon DEF cost_money, c
    <3>2. Paid(t, p, m) = m
      BY <2>2, Zenon DEF Paid
    <3> HIDE DEF c
    <3> QED BY <1>1, <3>1, <3>2 DEF Fields
  <2> QED BY <2>1, <2>2
<1> HIDE DEF c
<1>4. /\ DOMAIN r = Fields /\ r.money = c.money /\ r.t_pot = c.t_pot + m
      /\ r.chair = c.chair /\ r.t_player = c.t_player /\ r.cards = c.cards
      /\ r.t_bet = c.t_bet /\ r.due = c.due /\ r.ready = c.ready /\ r.award = c.award
      /\ r.max = c.max /\ r.play = c.play /\ r.pass = c.pass
      /\ r.count = c.count /\ r.gen = c.gen /\ r.side = c.side /\ r.told = c.told
      /\ r.active = c.active /\ r.next = c.next /\ r.SB = c.SB /\ r.BB = c.BB
      /\ r.button = c.button /\ r.err = c.err /\ r.t_status = c.t_status
  BY <1>3 DEF Fields
<1> HIDE DEF r
<1>5. r.money \in [Players -> Nat] /\ r.t_pot \in Nat
  BY <1>1, <1>2, <1>3, <1>4
<1>6. Typed(r)
  BY <1>3, <1>4, <1>5, Zenon DEF Typed
<1> QED BY <1>3, <1>4, <1>6 DEF Same, r, c

\* The bet of who has one, and with it t_cur_max_bet, grows by no more than the amount.
LEMMA MoreBet ==
    ASSUME NEW t, Typed(t), Highest(t), NEW p \in Players, NEW m \in Nat, t.t_bet[p] # NoBet
    PROVE  LET r == BetMore(t, p, m)
           IN  /\ Typed(r) /\ Same(t, r) /\ Highest(r) /\ r.max <= t.max + m
               /\ r.money = t.money /\ r.t_player = t.t_player /\ r.gen = t.gen
               /\ r.err = t.err /\ r.t_pot = t.t_pot
<1> DEFINE r == BetMore(t, p, m)
           bet == t.t_bet[p] + m
<1>1. /\ t.t_bet \in [Players -> Nat \union {NoBet}] /\ t.max \in Nat /\ DOMAIN t = Fields
  BY Zenon DEF Typed
<1>2. t.t_bet[p] \in Nat /\ bet \in Nat
  BY <1>1
<1>3. /\ DOMAIN r = Fields /\ r.money = t.money
      /\ r.t_bet = [t.t_bet EXCEPT ![p] = bet] /\ r.max = (IF bet >= t.max THEN bet ELSE t.max)
      /\ r.chair = t.chair /\ r.t_player = t.t_player /\ r.cards = t.cards
      /\ r.due = t.due /\ r.ready = t.ready /\ r.award = t.award
      /\ r.play = t.play /\ r.pass = t.pass /\ r.t_pot = t.t_pot
      /\ r.count = t.count /\ r.gen = t.gen /\ r.side = t.side /\ r.told = t.told
      /\ r.active = t.active /\ r.next = t.next /\ r.SB = t.SB /\ r.BB = t.BB
      /\ r.button = t.button /\ r.err = t.err /\ r.t_status = t.t_status
  BY <1>1 DEF BetMore, Fields
<1> HIDE DEF r, bet
<1>4. r.t_bet \in [Players -> Nat \union {NoBet}] /\ r.max \in Nat
  BY <1>1, <1>2, <1>3
<1>5. Typed(r)
  BY <1>3, <1>4, Zenon DEF Typed
<1>6. Highest(r)
  <2>1. \A q \in Players : t.t_bet[q] <= t.max /\ t.t_bet[q] \in Int
    BY <1>1 DEF Highest
  <2>2. bet <= r.max /\ t.max <= r.max
    BY <1>1, <1>2, <1>3
  <2>3. \A q \in Players : r.t_bet[q] = IF q = p THEN bet ELSE t.t_bet[q]
    BY <1>1, <1>3
  <2>4. \A q \in Players : r.t_bet[q] <= r.max
    BY <1>1, <1>2, <1>4, <2>1, <2>2, <2>3
  <2> QED BY <2>4 DEF Highest
<1>7. r.max <= t.max + m
  <2>1. t.t_bet[p] <= t.max
    BY DEF Highest
  <2> QED BY <1>1, <1>2, <1>3, <2>1 DEF bet
<1> QED BY <1>3, <1>5, <1>6, <1>7 DEF Same, r

\* Who has nothing left is ALL_IN, and stays who he is otherwise.
LEMMA SideGenerator ==
    ASSUME NEW t, Typed(t), Dealt(t), NEW p \in Players
    PROVE  LET r == record_side_generator(t, p)
           IN  /\ Typed(r) /\ Same(t, r) /\ Dealt(r)
               /\ r.money = t.money /\ r.t_bet = t.t_bet /\ r.max = t.max
               /\ r.err = t.err /\ r.t_pot = t.t_pot
<1> DEFINE r == record_side_generator(t, p)
<1>1. /\ t.gen \in Seq(Players) /\ DOMAIN t = Fields
      /\ t.t_player \in [Players -> {"nil", "WAITING", "GAME", "ALL_IN", "FOLD"}]
  BY Zenon DEF Typed
<1>3. /\ DOMAIN r = Fields /\ r.money = t.money
      /\ r.t_player = [t.t_player EXCEPT ![p] = "ALL_IN"] /\ r.gen = Append(t.gen, p)
      /\ r.chair = t.chair /\ r.t_bet = t.t_bet /\ r.cards = t.cards
      /\ r.due = t.due /\ r.ready = t.ready /\ r.award = t.award
      /\ r.play = t.play /\ r.pass = t.pass /\ r.t_pot = t.t_pot
      /\ r.count = t.count /\ r.max = t.max /\ r.side = t.side /\ r.told = t.told
      /\ r.active = t.active /\ r.next = t.next /\ r.SB = t.SB /\ r.BB = t.BB
      /\ r.button = t.button /\ r.err = t.err /\ r.t_status = t.t_status
  BY <1>1 DEF record_side_generator, Fields
<1> HIDE DEF r
<1>4. r.t_player \in [Players -> {"nil", "WAITING", "GAME", "ALL_IN", "FOLD"}] /\ r.gen \in Seq(Players)
  BY <1>1, <1>3
<1>5. Typed(r)
  BY <1>3, <1>4, Zenon DEF Typed
<1>6. Dealt(r)
  BY <1>1, <1>3 DEF Dealt
<1> QED BY <1>3, <1>5, <1>6 DEF Same, r

\* A Lua error changes nothing but that it has happened.
LEMMA ErrorSound ==
    ASSUME NEW t, Typed(t)
    PROVE  LET r == Error(t)
           IN  /\ Typed(r) /\ Same(t, r) /\ (Sound(t) => Sound(r))
               /\ r.money = t.money /\ r.t_bet = t.t_bet /\ r.max = t.max
               /\ r.t_player = t.t_player /\ r.gen = t.gen
               /\ r.err = TRUE /\ r.t_pot = t.t_pot
<1> DEFINE r == Error(t)
<1>1. DOMAIN t = Fields
  BY Zenon DEF Typed
<1>3. /\ DOMAIN r = Fields /\ r.money = t.money
      /\ r.t_player = t.t_player /\ r.gen = t.gen
      /\ r.chair = t.chair /\ r.t_bet = t.t_bet /\ r.cards = t.cards
      /\ r.due = t.due /\ r.ready = t.ready /\ r.award = t.award
      /\ r.play = t.play /\ r.pass = t.pass /\ r.t_pot = t.t_pot
      /\ r.count = t.count /\ r.max = t.max /\ r.side = t.side /\ r.told = t.told
      /\ r.active = t.active /\ r.next = t.next /\ r.SB = t.SB /\ r.BB = t.BB
      /\ r.button = t.button /\ r.err = TRUE /\ r.t_status = t.t_status
  BY <1>1 DEF Error, Fields
<1> HIDE DEF r
<1>4. r.err \in BOOLEAN
  BY <1>3
<1>5. Typed(r)
  BY <1>3, <1>4, Zenon DEF Typed
<1>6. Sound(t) => Sound(r)
  BY <1>3, <1>5 DEF Sound, Highest, Owed, Idle, Awarded, Dealt, AtTable
<1> QED BY <1>3, <1>5, <1>6 DEF Same, r

\* A bet outside WAITING is in the pot, charged or not: of a player with a bet, of one
\* without, and of nobody.
LEMMA AddBet ==
    ASSUME NEW t, Sound(t), t.t_status # WAITING, NEW p \in Players, NEW m \in Nat
    PROVE  LET r == add_bet(t, p, m)
           IN  /\ Sound(r) /\ Same(t, r) /\ r.t_pot = t.t_pot + m /\ r.max <= t.max + m
               /\ r.money = [t.money EXCEPT ![p] = t.money[p] - Paid(t, p, m)]
<1> DEFINE t1 == [cost_money(t, p, m) EXCEPT !.t_pot = @ + m]
           t2 == BetMore(t1, p, m)
           t3 == record_side_generator(t2, p)
           r == add_bet(t, p, m)
<1>0. p # None
  OBVIOUS
<1>1. r = IF t.t_bet[p] = NoBet THEN Error(t1)
          ELSE IF t2.money[p] # 0 THEN t2
          ELSE IF t.t_player[p] = "nil" THEN Error(t2)
          ELSE t3
  BY <1>0, Zenon DEF add_bet
<1>2. /\ Typed(t) /\ t.count >= 0 /\ Highest(t) /\ Owed(t) /\ Idle(t) /\ Awarded(t) /\ Dealt(t)
  BY DEF Sound
<1> HIDE DEF r
<1>3. /\ Typed(t1) /\ Same(t, t1)
      /\ t1.t_player = t.t_player /\ t1.t_bet = t.t_bet /\ t1.max = t.max
      /\ t1.gen = t.gen /\ t1.err = t.err /\ t1.t_pot = t.t_pot + m
      /\ t1.money = [t.money EXCEPT ![p] = t.money[p] - Paid(t, p, m)]
  BY <1>2, CostMoney
<1> HIDE DEF t1
<1>4. Sound(t1)
  BY <1>2, <1>3 DEF Sound, Highest, Owed, Idle, Awarded, Dealt, AtTable, Same
<1>5. CASE t.t_bet[p] = NoBet
  <2>1. r = Error(t1)
    BY <1>1, <1>5, Zenon
  <2>2. /\ Sound(r) /\ Same(t1, r) /\ r.money = t1.money /\ r.t_pot = t1.t_pot
    BY <1>3, <1>4, <2>1, ErrorSound
  <2>3. r.max <= t.max + m
    <3>1. r.max = t.max
      BY <1>3, <2>1, ErrorSound
    <3>2. t.max \in Nat
      BY <1>2, Zenon DEF Typed
    <3> QED BY <3>1, <3>2
  <2> QED BY <1>3, <2>2, <2>3 DEF Same, r
<1>6. CASE t.t_bet[p] # NoBet
  <2>1. /\ Typed(t2) /\ Same(t1, t2) /\ Highest(t2) /\ t2.max <= t1.max + m
        /\ t2.money = t1.money /\ t2.t_player = t1.t_player /\ t2.gen = t1.gen
        /\ t2.err = t1.err /\ t2.t_pot = t1.t_pot
    <3>1. Highest(t1) /\ t1.t_bet[p] # NoBet
      BY <1>3, <1>4, <1>6, Zenon DEF Sound
    <3> QED BY <1>3, <3>1, MoreBet
  <2> HIDE DEF t2
  <2>2. Sound(t2)
    BY <1>2, <1>3, <1>4, <2>1 DEF Sound, Owed, Idle, Awarded, Dealt, Same
  <2>3. CASE r = t2
    BY <1>3, <2>1, <2>2, <2>3 DEF Same, r
  <2>4. CASE r = Error(t2)
    <3>1. /\ Sound(r) /\ Same(t2, r) /\ r.money = t2.money /\ r.t_pot = t2.t_pot /\ r.max = t2.max
      BY <2>1, <2>2, <2>4, ErrorSound
    <3> QED BY <1>3, <2>1, <3>1 DEF Same, r
  <2>5. CASE r = t3
    <3>1. /\ Typed(t3) /\ Same(t2, t3) /\ Dealt(t3)
          /\ t3.money = t2.money /\ t3.t_bet = t2.t_bet /\ t3.max = t2.max
          /\ t3.err = t2.err /\ t3.t_pot = t2.t_pot
      <4>1. Dealt(t2)
        BY <2>2, Zenon DEF Sound
      <4> QED BY <2>1, <4>1, SideGenerator
    <3> HIDE DEF t3
    <3>2. Sound(t3)
      BY <1>2, <1>3, <2>1, <2>2, <3>1 DEF Sound, Highest, Owed, Idle, Awarded, Same
    <3> QED BY <1>3, <2>1, <2>5, <3>1, <3>2 DEF Same, r
  <2> QED BY <1>1, <1>6, <2>3, <2>4, <2>5, Zenon
<1> QED BY <1>5, <1>6

-----------------------------------------------------------------------------
(* Bets by their owners, and the side pots.                                *)

\* What there is in all stays, and what the players have does not grow.
Moved(t, r) ==
    /\ r.award = t.award /\ r.t_status = t.t_status /\ r.told = t.told
    /\ Coins(r) + r.t_pot = Coins(t) + t.t_pot /\ Coins(r) <= Coins(t)

\* What all players have is less by what one of them has paid.
LEMMA Charged ==
    ASSUME NEW t, Typed(t), NEW p \in Players, NEW m \in Nat, NEW r,
           r.money = [t.money EXCEPT ![p] = t.money[p] - Paid(t, p, m)]
    PROVE  /\ Coins(r) = Coins(t) - Paid(t, p, m)
           /\ Paid(t, p, m) \in 0 .. m /\ (m <= t.money[p] => Paid(t, p, m) = m)
<1>1. t.money \in [Players -> Nat] /\ t.money \in [Players -> Int]
  BY DEF Typed
<1>2. t.money[p] \in Nat
  BY <1>1
<1>3. Paid(t, p, m) \in 0 .. m /\ (m <= t.money[p] => Paid(t, p, m) = m)
  BY <1>2 DEF Paid
<1>4. t.money[p] - Paid(t, p, m) \in Int /\ Paid(t, p, m) \in Int
  BY <1>2, <1>3
<1>5. IsFiniteSet(Players)
  OBVIOUS
<1>6. SumFunction(r.money) = SumFunction(t.money) - t.money[p] + (t.money[p] - Paid(t, p, m))
  BY <1>1, <1>4, <1>5, SumUpdate
<1>7. SumFunction(t.money) \in Int
  BY <1>1, <1>5, SumInt
<1> QED BY <1>2, <1>3, <1>4, <1>6, <1>7 DEF Coins

\* Raise, call and all-in move chips from the player to the pot, for they cost no more than
\* he has (the checks of player_action before add_bet).
LEMMA BetsMoved ==
    ASSUME NEW t, Sound(t), t.t_status # WAITING, NEW p \in Players, NEW m \in Nat
    PROVE  Sound(Bets(t, p, m)) /\ Moved(t, Bets(t, p, m))
<1> DEFINE r == Bets(t, p, m)
           ta == [t EXCEPT !.pass = @ + 1]
           tb == [t EXCEPT !.t_player[p] = "ALL_IN", !.play = @ - 1]
<1>0. /\ Typed(t) /\ DOMAIN t = Fields /\ t.money[p] \in Nat /\ t.pass \in Nat /\ t.play \in Int
      /\ t.t_player \in [Players -> {"nil", "WAITING", "GAME", "ALL_IN", "FOLD"}]
      /\ t.t_pot \in Nat
  BY DEF Sound, Typed
<1>1. r = IF m < t.money[p] THEN add_bet(ta, p, m)
          ELSE IF t.t_player[p] = "nil" THEN Error(t) ELSE add_bet(tb, p, t.money[p])
  BY Zenon DEF Bets
<1> HIDE DEF r
<1>2. ASSUME NEW s, Sound(s), s.t_status # WAITING, NEW n \in Nat, s.money = t.money, s.t_pot = t.t_pot,
             s.award = t.award, s.t_status = t.t_status, s.told = t.told, n <= t.money[p],
             r = add_bet(s, p, n)
      PROVE  Sound(r) /\ Moved(t, r)
  <2>1. /\ Sound(r) /\ Same(s, r) /\ r.t_pot = s.t_pot + n
        /\ r.money = [s.money EXCEPT ![p] = s.money[p] - Paid(s, p, n)]
    BY <1>2, AddBet
  <2>2. Typed(s)
    BY <1>2, Zenon DEF Sound
  <2>3. Coins(r) = Coins(s) - Paid(s, p, n) /\ (n <= s.money[p] => Paid(s, p, n) = n)
    BY <2>1, <2>2, Charged
  <2>4. Coins(r) = Coins(t) - n
    BY <1>2, <2>3 DEF Coins
  <2>5. Coins(t) \in Int
    BY <1>0, CoinsInt
  <2>6. Coins(r) + r.t_pot = Coins(t) + t.t_pot /\ Coins(r) <= Coins(t)
    BY <1>0, <1>2, <2>1, <2>4, <2>5
  <2> QED BY <1>2, <2>1, <2>6, Zenon DEF Moved, Same
<1>3. CASE m < t.money[p]
  <2>1. /\ DOMAIN ta = Fields /\ ta.pass = t.pass + 1 /\ ta.money = t.money
        /\ ta.t_player = t.t_player /\ ta.gen = t.gen
        /\ ta.chair = t.chair /\ ta.t_bet = t.t_bet /\ ta.cards = t.cards
        /\ ta.due = t.due /\ ta.ready = t.ready /\ ta.award = t.award
        /\ ta.play = t.play /\ ta.t_pot = t.t_pot
        /\ ta.count = t.count /\ ta.max = t.max /\ ta.side = t.side /\ ta.told = t.told
        /\ ta.active = t.active /\ ta.next = t.next /\ ta.SB = t.SB /\ ta.BB = t.BB
        /\ ta.button = t.button /\ ta.err = t.err /\ ta.t_status = t.t_status
    BY <1>0 DEF Fields
  <2>2. r = add_bet(ta, p, m)
    BY <1>1, <1>3, Zenon
  <2> HIDE DEF ta
  <2>3. ta.pass \in Nat
    BY <1>0, <2>1
  <2>4. Sound(ta)
    <3>1. Typed(ta)
      BY <1>0, <2>1, <2>3, Zenon DEF Typed
    <3> QED BY <2>1, <3>1 DEF Sound, Highest, Owed, Idle, Awarded, Dealt, AtTable
  <2>5. m <= t.money[p]
    BY <1>0, <1>3
  <2>6. Sound(r) /\ Moved(t, r)
    BY <1>2, <2>1, <2>2, <2>4, <2>5
  <2> QED BY <2>6 DEF r
<1>4. CASE ~(m < t.money[p]) /\ t.t_player[p] = "nil"
  <2>1. r = Error(t)
    BY <1>1, <1>4, Zenon
  <2>2. Sound(r) /\ Same(t, r) /\ r.money = t.money /\ r.t_pot = t.t_pot
    BY <1>0, <2>1, ErrorSound
  <2>3. Coins(r) = Coins(t) /\ Coins(t) \in Int
    BY <1>0, <2>2, CoinsInt DEF Coins
  <2> QED BY <2>2, <2>3 DEF r, Moved, Same
<1>5. CASE ~(m < t.money[p]) /\ t.t_player[p] # "nil"
  <2>1. /\ DOMAIN tb = Fields /\ tb.pass = t.pass /\ tb.money = t.money
        /\ tb.t_player = [t.t_player EXCEPT ![p] = "ALL_IN"] /\ tb.gen = t.gen
        /\ tb.chair = t.chair /\ tb.t_bet = t.t_bet /\ tb.cards = t.cards
        /\ tb.due = t.due /\ tb.ready = t.ready /\ tb.award = t.award
        /\ tb.play = t.play - 1 /\ tb.t_pot = t.t_pot
        /\ tb.count = t.count /\ tb.max = t.max /\ tb.side = t.side /\ tb.told = t.told
        /\ tb.active = t.active /\ tb.next = t.next /\ tb.SB = t.SB /\ tb.BB = t.BB
        /\ tb.button = t.button /\ tb.err = t.err /\ tb.t_status = t.t_status
    BY <1>0 DEF Fields
  <2>2. r = add_bet(tb, p, t.money[p])
    BY <1>1, <1>5, Zenon
  <2> HIDE DEF tb
  <2>3. tb.play \in Int /\ tb.t_player \in [Players -> {"nil", "WAITING", "GAME", "ALL_IN", "FOLD"}]
    BY <1>0, <2>1
  <2>4. Sound(tb)
    <3>1. Typed(tb)
      BY <1>0, <2>1, <2>3, Zenon DEF Typed
    <3>2. Dealt(tb)
      BY <1>0, <2>1 DEF Sound, Dealt
    <3> QED BY <2>1, <3>1, <3>2 DEF Sound, Highest, Owed, Idle, Awarded
  <2>5. t.money[p] \in Nat /\ t.money[p] <= t.money[p]
    BY <1>0
  <2>6. Sound(r) /\ Moved(t, r)
    BY <1>2, <2>1, <2>2, <2>4, <2>5
  <2> QED BY <2>6 DEF r
<1> QED BY <1>3, <1>4, <1>5

\* A set of integers that is bounded below has a least one, and Min is it.
LEMMA MinIs ==
    ASSUME NEW S \in SUBSET Int, S # {}, NEW b \in Int, \A x \in S : b <= x
    PROVE  Min(S) \in S /\ \A x \in S : Min(S) <= x
<1> DEFINE Above == {n \in Nat : b + n \in S}
<1>1. Above # {}
  <2>1. PICK x \in S : TRUE
    OBVIOUS
  <2>2. x \in Int /\ b <= x
    OBVIOUS
  <2>3. x - b \in Nat /\ b + (x - b) = x
    BY <2>2
  <2> QED BY <2>1, <2>3
<1>2. PICK n \in Above : \A k \in Above : ~(<<k, n>> \in OpToRel(<, Nat))
  <2>1. Above \subseteq Nat
    OBVIOUS
  <2> HIDE DEF Above
  <2> QED BY <1>1, <2>1, NatLessThanWellFounded, WFMin
<1>3. \A x \in S : b + n <= x
  <2> SUFFICES ASSUME NEW x \in S, ~(b + n <= x) PROVE FALSE
    OBVIOUS
  <2>1. x \in Int /\ b <= x /\ n \in Nat
    OBVIOUS
  <2>2. x - b \in Nat /\ b + (x - b) = x /\ x - b < n
    BY <2>1
  <2>3. x - b \in Above
    BY <2>2
  <2>4. <<x - b, n>> \in OpToRel(<, Nat)
    BY <2>1, <2>2 DEF OpToRel
  <2> QED BY <1>2, <2>3, <2>4
<1>4. b + n \in S
  OBVIOUS
<1>5. \E x \in S : \A y \in S : x <= y
  BY <1>3, <1>4
<1> QED BY <1>5 DEF Min

\* A set of integers that is bounded above has a greatest one, and Max is it.
LEMMA MaxIs ==
    ASSUME NEW S \in SUBSET Int, S # {}, NEW b \in Int, \A x \in S : x <= b
    PROVE  Max(S) \in S /\ \A x \in S : x <= Max(S)
<1> DEFINE N == {0 - x : x \in S}
<1>1. N \in SUBSET Int /\ N # {} /\ 0 - b \in Int
  <2>1. \A x \in S : 0 - x \in Int
    OBVIOUS
  <2>2. \A y \in N : y \in Int
    BY <2>1
  <2>3. N # {}
    BY Zenon
  <2>4. 0 - b \in Int
    OBVIOUS
  <2> QED BY <2>2, <2>3, <2>4
<1>2. \A y \in N : 0 - b <= y
  <2> SUFFICES ASSUME NEW x \in S PROVE 0 - b <= 0 - x
    OBVIOUS
  <2>1. x \in Int /\ x <= b
    OBVIOUS
  <2> QED BY <2>1
<1>3. Min(N) \in N /\ \A y \in N : Min(N) <= y
  <2> HIDE DEF N
  <2> QED BY <1>1, <1>2, MinIs
<1>4. PICK m \in S : Min(N) = 0 - m
  BY <1>3
<1>5. \A x \in S : x <= m
  <2> SUFFICES ASSUME NEW x \in S PROVE x <= m
    OBVIOUS
  <2>0. 0 - x \in N
    OBVIOUS
  <2>1. 0 - m <= 0 - x
    <3> HIDE DEF N
    <3> QED BY <1>3, <1>4, <2>0
  <2>2. x \in Int /\ m \in Int
    OBVIOUS
  <2> QED BY <2>1, <2>2
<1>6. \E x \in S : \A y \in S : x >= y
  BY <1>5
<1> QED BY <1>6 DEF Max

\* cal_side_pot reads the bets and writes the side pots: none holds less than nothing, for
\* each is what one bet exceeds another by.
LEMMA SidePotsSound ==
    ASSUME NEW t, Sound(t)
    PROVE  LET r == cal_side_pot(t)
           IN  /\ Sound(r) /\ Kept(t, r) /\ r.t_player = t.t_player /\ r.t_status = t.t_status
               /\ r.told = t.told /\ r.err = t.err /\ r.count = t.count /\ r.SB = t.SB
               /\ r.chair = t.chair /\ r.due = t.due /\ r.next = t.next /\ r.cards = t.cards
<1> DEFINE above(g) == {p \in AtTable(t) : t.t_bet[p] > t.t_bet[g]}
           least(g) == Min({t.max} \union {t.t_bet[p] : p \in above(g)})
           before(k) == IF k <= Len(t.side) THEN t.side[k].players ELSE [p \in Players |-> 0]
           pot(k, g) == [money |-> Cardinality(above(g)) * (least(g) - t.t_bet[g]),
                         players |-> [p \in Players |-> before(k)[p] + (IF p \in above(g) THEN 1 ELSE 0)]]
           n == Max({Len(t.gen), Len(t.side)})
           side == [k \in 1 .. n |-> IF k <= Len(t.gen) THEN pot(k, t.gen[k]) ELSE t.side[k]]
           r == cal_side_pot(t)
<1>1. r = [t EXCEPT !.gen = <<>>, !.side = side]
  BY Zenon DEF cal_side_pot
<1> HIDE DEF r
<1>2. /\ Typed(t) /\ DOMAIN t = Fields /\ t.gen \in Seq(Players) /\ t.side \in Seq(Pots)
      /\ t.t_bet \in [Players -> Nat \union {NoBet}] /\ t.max \in Nat
      /\ Highest(t) /\ Owed(t)
  BY Zenon DEF Sound, Typed
<1>3. ASSUME NEW g \in Players
      PROVE  /\ Cardinality(above(g)) \in Nat
             /\ least(g) \in Int /\ least(g) - t.t_bet[g] \in Nat
  <2>1. above(g) \in SUBSET Players
    BY DEF AtTable
  <2>0. \A p \in Players : t.t_bet[p] \in Int
    BY <1>2
  <2>2. \A p \in above(g) : t.t_bet[p] \in Int /\ t.t_bet[g] <= t.t_bet[p]
    <3> SUFFICES ASSUME NEW p \in above(g) PROVE t.t_bet[p] \in Int /\ t.t_bet[g] <= t.t_bet[p]
      OBVIOUS
    <3>1. p \in Players /\ t.t_bet[p] > t.t_bet[g]
      BY <2>1
    <3> QED BY <2>0, <3>1
  <2>3. t.t_bet[g] \in Int /\ t.t_bet[g] <= t.max
    BY <1>2 DEF Highest
  <2> HIDE DEF above
  <2> DEFINE S == {t.max} \union {t.t_bet[p] : p \in above(g)}
  <2>4. S \in SUBSET Int /\ S # {} /\ \A x \in S : t.t_bet[g] <= x
    <3>1. \A x \in S : x = t.max \/ \E p \in above(g) : x = t.t_bet[p]
      BY Zenon
    <3>2. \A x \in S : x \in Int /\ t.t_bet[g] <= x
      <4> HIDE DEF S
      <4> QED BY <1>2, <2>2, <2>3, <3>1
    <3>3. S # {}
      BY Zenon
    <3> QED BY <3>2, <3>3
  <2>5. least(g) = Min(S)
    OBVIOUS
  <2> HIDE DEF S, least
  <2>6. Min(S) \in S
    BY <2>3, <2>4, MinIs
  <2>7. least(g) \in Int /\ t.t_bet[g] <= least(g)
    BY <2>4, <2>5, <2>6
  <2> QED BY <2>1, <2>3, <2>7, PlayersFinite
<1>4. ASSUME NEW k \in Nat \ {0}, NEW g \in Players
      PROVE  pot(k, g) \in Pots /\ pot(k, g).money >= 0
  <2>1. before(k) \in [Players -> Nat]
    <3>1. CASE k <= Len(t.side)
      <4>1. k \in 1 .. Len(t.side)
        BY <1>2, <3>1
      <4>2. t.side[k] \in Pots
        BY <1>2, <4>1
      <4> QED BY <3>1, <4>2 DEF Pots
    <3>2. CASE ~(k <= Len(t.side))
      BY <3>2
    <3> QED BY <3>1, <3>2
  <2> HIDE DEF before
  <2> DEFINE mm == Cardinality(above(g)) * (least(g) - t.t_bet[g])
             pp == [p \in Players |-> before(k)[p] + (IF p \in above(g) THEN 1 ELSE 0)]
  <2>2. mm \in Nat
    <3> DEFINE c == Cardinality(above(g))
               d == least(g) - t.t_bet[g]
    <3>1. c \in Nat /\ d \in Nat
      BY <1>3
    <3> HIDE DEF c, d
    <3>2. c * d \in Nat
      BY <3>1
    <3> QED BY <3>2 DEF c, d
  <2>3. pp \in [Players -> Nat]
    <3> HIDE DEF above
    <3> QED BY <2>1
  <2>4. pot(k, g) = [money |-> mm, players |-> pp]
    OBVIOUS
  <2> HIDE DEF mm, pp, pot
  <2> QED BY <2>2, <2>3, <2>4 DEF Pots
<1> HIDE DEF above, least, before
<1>5. n \in Nat /\ Len(t.gen) \in Nat /\ Len(t.side) \in Nat
  <2>1. Len(t.gen) \in Nat /\ Len(t.side) \in Nat
    BY <1>2
  <2>2. n \in {Len(t.gen), Len(t.side)}
    BY <2>1 DEF Max
  <2> QED BY <2>1, <2>2
<1>6. n = Len(t.gen) \/ n = Len(t.side)
  BY <1>5 DEF Max
<1>7. ASSUME NEW k \in 1 .. n PROVE side[k] \in Pots /\ side[k].money >= 0
  <2>1. CASE k <= Len(t.gen)
    <3>1. k \in 1 .. Len(t.gen) /\ k \in Nat \ {0}
      BY <1>5, <2>1
    <3>2. t.gen[k] \in Players
      BY <1>2, <3>1
    <3>3. side[k] = pot(k, t.gen[k])
      BY <2>1
    <3> HIDE DEF pot, side
    <3> QED BY <1>4, <3>1, <3>2, <3>3
  <2>2. CASE ~(k <= Len(t.gen))
    <3>1. k \in 1 .. Len(t.side)
      <4> HIDE DEF n
      <4> QED BY <1>5, <1>6, <2>2
    <3>2. t.side[k] \in Pots /\ t.side[k].money >= 0
      BY <1>2, <3>1 DEF Owed
    <3>3. side[k] = t.side[k]
      BY <2>2
    <3> QED BY <3>2, <3>3
  <2> QED BY <2>1, <2>2
<1> HIDE DEF pot
<1>8. side \in Seq(Pots) /\ DOMAIN side = 1 .. n
  <2>1. side = [k \in 1 .. n |-> side[k]]
    OBVIOUS
  <2> HIDE DEF n, side
  <2>2. side \in [1 .. n -> Pots]
    BY <1>7, <2>1
  <2> QED BY <1>5, <2>2
<1> HIDE DEF side, n
<1>9. /\ DOMAIN r = Fields /\ r.gen = <<>> /\ r.side = side
      /\ r.chair = t.chair /\ r.money = t.money /\ r.t_player = t.t_player /\ r.cards = t.cards
      /\ r.t_bet = t.t_bet /\ r.due = t.due /\ r.ready = t.ready /\ r.award = t.award
      /\ r.t_pot = t.t_pot /\ r.max = t.max /\ r.play = t.play /\ r.pass = t.pass
      /\ r.count = t.count /\ r.told = t.told
      /\ r.active = t.active /\ r.next = t.next /\ r.SB = t.SB /\ r.BB = t.BB
      /\ r.button = t.button /\ r.err = t.err /\ r.t_status = t.t_status
  BY <1>1, <1>2 DEF Fields
<1>10. Typed(r)
  BY <1>2, <1>8, <1>9, EmptySeqs, Zenon DEF Typed
<1>11. Owed(r)
  BY <1>7, <1>8, <1>9 DEF Owed
<1>12. Sound(r)
  BY <1>9, <1>10, <1>11 DEF Sound, Highest, Idle, Awarded, Dealt, AtTable
<1> QED BY <1>9, <1>12 DEF r, Kept

-----------------------------------------------------------------------------
(* Whose turn it is.                                                       *)

\* get_player finds who sits on the chair, and nobody on chair 0.
LEMMA GetPlayer ==
    ASSUME NEW t, NEW c
    PROVE  LET p == get_player(t, c)
           IN  /\ p \in Players \union {None}
               /\ p # None => p \in Players /\ c # 0 /\ t.chair[p] = c
<1>1. CASE \E p \in Players : c # 0 /\ t.chair[p] = c
  <2>1. get_player(t, c) = CHOOSE p \in Players : t.chair[p] = c
    BY <1>1, Zenon DEF get_player
  <2>2. \E p \in Players : t.chair[p] = c
    BY <1>1
  <2> QED BY <1>1, <2>1, <2>2
<1>2. CASE ~(\E p \in Players : c # 0 /\ t.chair[p] = c)
  BY <1>2, Zenon DEF get_player
<1> QED BY <1>1, <1>2

\* Going round the table from any chair ends on a chair.
LEMMA WrapIs == \A c \in 0 .. Chairs, i \in 1 .. Chairs : Wrap(c + i) \in 1 .. Chairs
BY DEF Wrap

\* A chair with who is on it is a seat.
LEMMA SeatAt ==
    ASSUME NEW t, NEW c \in 0 .. Chairs
    PROVE  [guid |-> get_player(t, c), chair |-> c] \in Seat
<1>1. get_player(t, c) \in Players \union {None}
  BY GetPlayer
<1> QED BY <1>1 DEF Seat

\* So is the first chair where one of S sits, or else the seat that there was.
LEMMA SeatAfterIs ==
    ASSUME NEW t, NEW c \in 0 .. Chairs, NEW S, NEW else \in Seat
    PROVE  SeatAfter(t, c, S, else) \in Seat
<1> DEFINE found == {i \in 1 .. Chairs : get_player(t, Wrap(c + i)) \in S}
           d == Wrap(c + Min(found))
<1>1. SeatAfter(t, c, S, else) = IF found = {} THEN else ELSE [guid |-> get_player(t, d), chair |-> d]
  BY Zenon DEF SeatAfter
<1>2. ASSUME found # {} PROVE d \in 1 .. Chairs
  <2>1. found \in SUBSET Int /\ \A x \in found : 0 <= x
    OBVIOUS
  <2>2. \A x \in found : x \in 1 .. Chairs
    OBVIOUS
  <2> HIDE DEF found
  <2>3. Min(found) \in found
    BY <1>2, <2>1, MinIs
  <2> QED BY <2>2, <2>3, WrapIs
<1> HIDE DEF found, d
<1>3. ASSUME found # {} PROVE [guid |-> get_player(t, d), chair |-> d] \in Seat
  <2>1. d \in 0 .. Chairs
    BY <1>2, <1>3
  <2> QED BY <2>1, SeatAt
<1> QED BY <1>1, <1>3

\* A round is over while the table waits, as check_next_round sees it: all bets are 0.
LEMMA WaitingIsOver ==
    ASSUME NEW t, Sound(t), t.t_status = WAITING
    PROVE  check_next_round(t)
<1>1. \A p \in AtTable(t) : t.t_bet[p] = t.max
  BY DEF Sound, Idle
<1>2. With(t, "GAME") \subseteq AtTable(t)
  BY DEF With, AtTable
<1> QED BY <1>1, <1>2 DEF check_next_round

\* check_next_round goes to SHOW_DOWN or leaves the table as it is.
LEMMA RoundOverSound ==
    ASSUME NEW t, Sound(t)
    PROVE  LET r == RoundOver(t)
           IN  /\ Sound(r) /\ Kept(t, r) /\ r.t_status \in {t.t_status, SHOW_DOWN}
               /\ r.SB = t.SB /\ r.BB = t.BB /\ r.chair = t.chair
<1> DEFINE r == RoundOver(t)
<1>1. DOMAIN t = Fields /\ t.t_status \in WAITING .. SHOW_DOWN
  BY Zenon DEF Sound, Typed
<1>2. /\ DOMAIN r = Fields /\ r.due = TRUE
      /\ r.t_status = (IF Cardinality(With(t, "GAME")) = 1 /\ With(t, "ALL_IN") = {}
                       THEN SHOW_DOWN ELSE t.t_status)
      /\ r.chair = t.chair /\ r.money = t.money /\ r.t_player = t.t_player
      /\ r.cards = t.cards /\ r.t_bet = t.t_bet /\ r.ready = t.ready
      /\ r.award = t.award /\ r.t_pot = t.t_pot /\ r.max = t.max /\ r.play = t.play
      /\ r.pass = t.pass /\ r.count = t.count /\ r.gen = t.gen /\ r.side = t.side
      /\ r.active = t.active /\ r.next = t.next /\ r.SB = t.SB /\ r.BB = t.BB
      /\ r.button = t.button /\ r.told = t.told /\ r.err = t.err
  BY <1>1 DEF RoundOver, Fields
<1> HIDE DEF r
<1>3. r.t_status \in {t.t_status, SHOW_DOWN} /\ r.t_status \in WAITING .. SHOW_DOWN /\ r.due \in BOOLEAN
  <2>1. r.t_status = t.t_status \/ r.t_status = 6
    BY <1>2, Zenon
  <2>2. r.due = TRUE
    BY <1>2, Zenon
  <2>3. r.due \in BOOLEAN
    BY <2>2
  <2>4. r.t_status \in {t.t_status, SHOW_DOWN}
    BY <2>1
  <2>5. r.t_status \in WAITING .. SHOW_DOWN
    BY <1>1, <2>1
  <2> QED BY <2>3, <2>4, <2>5
<1>4. Typed(r)
  BY <1>2, <1>3, Zenon DEF Sound, Typed
<1>5. Sound(r)
  BY <1>2, <1>3, <1>4 DEF Sound, Highest, Owed, Idle, Awarded, Dealt, AtTable
<1> QED BY <1>2, <1>3, <1>5 DEF r, Kept

\* However the loop of set_next_player ends, t_next_player is a seat.
LEMMA NextFound ==
    ASSUME NEW t, Typed(t)
    PROVE  PlayerAfterNext(t).next \in Seat
<1> DEFINE look(a, i) ==
                   LET c == Wrap(a.next.chair + i)
                       p == get_player(t, c)
                   IN  IF a.stop \/ p \notin With(t, "GAME") THEN a
                       ELSE [next |-> [guid |-> p, chair |-> c], stop |-> get_player(t, t.next.chair) # None]
           base == [next |-> t.next, stop |-> FALSE]
           seq == [i \in 1 .. Chairs |-> i]
           found == FoldLeft(look, base, seq)
           D == 1 .. Chairs
           A == [next : Seat, stop : BOOLEAN]
           ch == [s \in SUBSET D |-> Max(s)]
           tab == [y \in A \X D |-> look(y[1], y[2])]
           it == CHOOSE iter : iter = [s \in SUBSET D |-> IF s = {} THEN base
                                         ELSE look(iter[s \ {Max(s)}], seq[Max(s)])]
<1>1. \A s \in SUBSET D : s # {} => Max(s) \in s /\ ch[s] = Max(s) /\ seq[Max(s)] = Max(s)
  <2> SUFFICES ASSUME NEW s \in SUBSET D, s # {} PROVE Max(s) \in s /\ ch[s] = Max(s) /\ seq[Max(s)] = Max(s)
    OBVIOUS
  <2>1. s \in SUBSET Int /\ Chairs \in Int /\ \A x \in s : x <= Chairs
    OBVIOUS
  <2>2. Max(s) \in s
    BY <2>1, MaxIs
  <2> QED BY <2>2
<1>2. \A a \in A, i \in D : look(a, i) \in A
  <2> SUFFICES ASSUME NEW a \in A, NEW i \in D PROVE look(a, i) \in A
    OBVIOUS
  <2> DEFINE c == Wrap(a.next.chair + i)
             p == get_player(t, c)
             b == [next |-> [guid |-> p, chair |-> c], stop |-> get_player(t, t.next.chair) # None]
  <2>1. a.next.chair \in 0 .. Chairs
    BY DEF Seat
  <2>2. c \in 1 .. Chairs
    BY <2>1, WrapIs
  <2> HIDE DEF c
  <2>3. [guid |-> p, chair |-> c] \in Seat
    <3>1. c \in 0 .. Chairs
      BY <2>2
    <3> QED BY <3>1, SeatAt
  <2>4. b \in A
    BY <2>3
  <2>5. look(a, i) = a \/ look(a, i) = b
    BY Zenon DEF c
  <2> QED BY <2>4, <2>5
<1>3. base \in A
  BY DEF Typed
<1>4. IsFiniteSet(D)
  BY FS_Interval
<1> HIDE DEF look, base, seq, D, A
<1>5. tab \in [A \X D -> A]
  BY <1>2
<1>6. PICK G \in [SUBSET D -> A] : Folded(G, D, base, ch, tab)
  <2>1. \A s \in SUBSET D : s # {} => ch[s] \in s
    BY <1>1
  <2> HIDE DEF ch, tab
  <2> QED BY <1>3, <1>4, <1>5, <2>1, FoldExists
<1>7. \A s \in SUBSET D : s # {} => G[s] = look(G[s \ {Max(s)}], seq[Max(s)])
  <2> SUFFICES ASSUME NEW s \in SUBSET D, s # {} PROVE G[s] = look(G[s \ {Max(s)}], seq[Max(s)])
    OBVIOUS
  <2>1. Max(s) \in s /\ ch[s] = Max(s) /\ seq[Max(s)] = Max(s)
    BY <1>1
  <2>2. G[s] = tab[<<G[s \ {ch[s]}], ch[s]>>]
    BY <1>6, Zenon DEF Folded
  <2> HIDE DEF ch
  <2>3. s \ {Max(s)} \in SUBSET D /\ Max(s) \in D
    BY <2>1
  <2>4. G[s \ {Max(s)}] \in A
    BY <2>3
  <2>5. tab[<<G[s \ {Max(s)}], Max(s)>>] = look(G[s \ {Max(s)}], Max(s))
    BY <2>3, <2>4
  <2> QED BY <2>1, <2>2, <2>5
<1>8. G[{}] = base
  BY <1>6 DEF Folded
<1>9. G = [s \in SUBSET D |-> IF s = {} THEN base ELSE look(G[s \ {Max(s)}], seq[Max(s)])]
  <2>1. G = [s \in SUBSET D |-> G[s]]
    OBVIOUS
  <2> QED BY <1>7, <1>8, <2>1
<1>10. it = [s \in SUBSET D |-> IF s = {} THEN base ELSE look(it[s \ {Max(s)}], seq[Max(s)])]
  <2>1. \E iter : iter = [s \in SUBSET D |-> IF s = {} THEN base
                            ELSE look(iter[s \ {Max(s)}], seq[Max(s)])]
    BY <1>9
  <2> QED BY <2>1
<1>11. found = it[D]
  <2>1. DOMAIN seq = D
    BY DEF seq, D
  <2> QED BY <2>1, Zenon DEF FoldLeft, MapThenFoldSet
<1> HIDE DEF it, found
<1> DEFINE T == {s \in SUBSET D : it[s] \in A}
<1>12. ASSUME NEW s \in SUBSET D, \A r \in SUBSET D : r \subseteq s /\ r # s => r \in T
       PROVE  s \in T
  <2>1. CASE s = {}
    BY <1>3, <1>10, <2>1
  <2>2. CASE s # {}
    <3>1. Max(s) \in s /\ seq[Max(s)] = Max(s)
      BY <1>1, <2>2
    <3>2. it[s] = look(it[s \ {Max(s)}], seq[Max(s)])
      BY <1>10, <2>2
    <3>3. it[s \ {Max(s)}] \in A /\ Max(s) \in D
      BY <1>12, <3>1
    <3>4. it[s] \in A
      BY <1>2, <3>1, <3>2, <3>3
    <3> QED BY <3>4
  <2> QED BY <2>1, <2>2
<1>13. D \in T
  <2> HIDE DEF T
  <2>1. \A s \in SUBSET D : s \in T
    BY <1>4, <1>12, SubsetInduction
  <2> QED BY <2>1
<1>14. found \in A
  BY <1>11, <1>13
<1>15. found.next \in Seat
  BY <1>14 DEF A
<1>16. PlayerAfterNext(t) = found
  BY Zenon DEF PlayerAfterNext, found, look, base, seq
<1> QED BY <1>15, <1>16

\* set_next_player only passes the turn.
LEMMA SetNextSound ==
    ASSUME NEW t, Sound(t)
    PROVE  Sound(set_next_player(t)) /\ Kept(t, set_next_player(t))
<1> DEFINE found == PlayerAfterNext(t)
           told == IF found.stop THEN t.next.guid ELSE None
           r == set_next_player(t)
<1>1. r = IF check_next_round(t) THEN RoundOver(t)
          ELSE [t EXCEPT !.active = t.next, !.next = found.next, !.due = FALSE, !.told = told]
  BY Zenon DEF set_next_player
<1>2. Typed(t) /\ DOMAIN t = Fields
  BY Zenon DEF Sound, Typed
<1>3. found.next \in Seat
  BY <1>2, NextFound
<1>4. told \in Players \union {None}
  <2>1. t.next \in Seat
    BY <1>2, Zenon DEF Typed
  <2>2. t.next.guid \in Players \union {None}
    BY <2>1 DEF Seat
  <2> HIDE DEF found
  <2> QED BY <2>2
<1> HIDE DEF found, told, r
<1>5. CASE check_next_round(t)
  <2>1. r = RoundOver(t)
    BY <1>1, <1>5, Zenon
  <2> QED BY <2>1, RoundOverSound DEF r
<1>6. CASE ~check_next_round(t)
  <2>1. r = [t EXCEPT !.active = t.next, !.next = found.next, !.due = FALSE, !.told = told]
    BY <1>1, <1>6, Zenon
  <2>2. /\ DOMAIN r = Fields /\ r.active = t.next /\ r.next = found.next /\ r.due = FALSE /\ r.told = told
        /\ r.chair = t.chair /\ r.money = t.money /\ r.t_player = t.t_player
        /\ r.cards = t.cards /\ r.t_bet = t.t_bet /\ r.t_status = t.t_status
        /\ r.ready = t.ready /\ r.award = t.award /\ r.t_pot = t.t_pot /\ r.max = t.max
        /\ r.play = t.play /\ r.pass = t.pass /\ r.count = t.count /\ r.gen = t.gen
        /\ r.side = t.side /\ r.SB = t.SB /\ r.BB = t.BB /\ r.button = t.button
        /\ r.err = t.err
    BY <1>2, <2>1 DEF Fields
  <2>3. r.due \in BOOLEAN /\ r.active \in Seat
    BY <1>2, <2>2 DEF Typed
  <2>4. Typed(r)
    BY <1>2, <1>3, <1>4, <2>2, <2>3, Zenon DEF Typed
  <2>5. r.t_status # WAITING
    BY <1>6, <2>2, WaitingIsOver
  <2>6. Sound(r)
    BY <2>2, <2>4, <2>5 DEF Sound, Highest, Owed, Idle, Awarded, Dealt
  <2> QED BY <2>2, <2>6 DEF r, Kept
<1> QED BY <1>5, <1>6

\* The time-out checks for the active player, or bets what he is short of: chips move to the pot.
LEMMA TimePassMoved ==
    ASSUME NEW t, Sound(t), t.t_status # WAITING
    PROVE  LET r == cur_active_player_time_pass(t) IN Sound(r) /\ Moved(t, r)
<1> DEFINE p == get_player(t, t.active.chair)
           r == cur_active_player_time_pass(t)
           ta == [t EXCEPT !.pass = @ + 1]
           m == t.max - t.t_bet[p]
<1>1. r = IF p = None THEN t
          ELSE IF t.t_bet[p] = NoBet THEN Error(t)
          ELSE IF t.t_bet[p] = t.max THEN ta
          ELSE Bets(t, p, m)
  BY Zenon DEF cur_active_player_time_pass
<1>2. /\ Typed(t) /\ DOMAIN t = Fields /\ t.pass \in Nat /\ t.max \in Nat
      /\ t.t_bet \in [Players -> Nat \union {NoBet}] /\ t.t_pot \in Nat
  BY Zenon DEF Sound, Typed
<1>3. p \in Players \union {None}
  BY GetPlayer
<1> HIDE DEF p, r
<1>4. ASSUME NEW s, s.money = t.money, s.t_pot = t.t_pot, s.award = t.award, s.t_status = t.t_status,
             s.told = t.told
      PROVE  Moved(t, s)
  <2>1. Coins(s) = Coins(t) /\ Coins(t) \in Int
    BY <1>2, <1>4, CoinsInt DEF Coins
  <2> QED BY <1>4, <2>1 DEF Moved
<1>5. CASE r = t
  BY <1>4, <1>5 DEF r
<1>6. CASE r = Error(t)
  <2>1. Sound(r) /\ Same(t, r) /\ r.money = t.money /\ r.t_pot = t.t_pot
    BY <1>2, <1>6, ErrorSound
  <2>2. Moved(t, r)
    BY <1>4, <2>1 DEF Same
  <2> QED BY <2>1, <2>2 DEF r
<1>7. CASE r = ta
  <2>1. /\ DOMAIN ta = Fields /\ ta.pass = t.pass + 1
        /\ ta.chair = t.chair /\ ta.money = t.money /\ ta.t_player = t.t_player
        /\ ta.cards = t.cards /\ ta.t_bet = t.t_bet /\ ta.t_status = t.t_status
        /\ ta.due = t.due /\ ta.ready = t.ready /\ ta.award = t.award
        /\ ta.t_pot = t.t_pot /\ ta.max = t.max /\ ta.play = t.play
        /\ ta.count = t.count /\ ta.gen = t.gen /\ ta.side = t.side
        /\ ta.active = t.active /\ ta.next = t.next /\ ta.SB = t.SB /\ ta.BB = t.BB
        /\ ta.button = t.button /\ ta.told = t.told /\ ta.err = t.err
    BY <1>2 DEF Fields
  <2> HIDE DEF ta
  <2>2. ta.pass \in Nat
    BY <1>2, <2>1
  <2>3. Typed(ta)
    BY <1>2, <2>1, <2>2, Zenon DEF Typed
  <2>4. Sound(ta)
    BY <2>1, <2>3 DEF Sound, Highest, Owed, Idle, Awarded, Dealt, AtTable
  <2>5. Moved(t, ta)
    BY <1>4, <2>1
  <2> QED BY <1>7, <2>4, <2>5 DEF r
<1>8. CASE p # None /\ r = Bets(t, p, m)
  <2>1. p \in Players
    BY <1>3, <1>8
  <2>2. m \in Nat
    <3>1. t.t_bet[p] \in Int /\ t.t_bet[p] <= t.max
      BY <1>2, <2>1 DEF Sound, Highest
    <3> QED BY <1>2, <3>1
  <2> HIDE DEF m
  <2>3. Sound(Bets(t, p, m)) /\ Moved(t, Bets(t, p, m))
    BY <2>1, <2>2, BetsMoved
  <2> QED BY <1>8, <2>3 DEF r
<1> QED BY <1>1, <1>5, <1>6, <1>7, <1>8, Zenon

-----------------------------------------------------------------------------
(* The button and the blinds.                                              *)

\* The timer is no part of the invariant.
LEMMA DueSound ==
    ASSUME NEW t, Sound(t), NEW d \in BOOLEAN
    PROVE  LET r == [t EXCEPT !.due = d]
           IN  /\ Sound(r) /\ Kept(t, r) /\ r.due = d
               /\ r.chair = t.chair /\ r.money = t.money /\ r.t_player = t.t_player
               /\ r.cards = t.cards /\ r.t_bet = t.t_bet /\ r.t_status = t.t_status
               /\ r.ready = t.ready /\ r.award = t.award /\ r.t_pot = t.t_pot /\ r.max = t.max
               /\ r.play = t.play /\ r.pass = t.pass /\ r.count = t.count /\ r.gen = t.gen
               /\ r.side = t.side /\ r.active = t.active /\ r.next = t.next /\ r.SB = t.SB
               /\ r.BB = t.BB /\ r.button = t.button /\ r.told = t.told /\ r.err = t.err
<1> DEFINE r == [t EXCEPT !.due = d]
<1>1. DOMAIN t = Fields
  BY Zenon DEF Sound, Typed
<1>2. /\ DOMAIN r = Fields /\ r.due = d
      /\ r.chair = t.chair /\ r.money = t.money /\ r.t_player = t.t_player
      /\ r.cards = t.cards /\ r.t_bet = t.t_bet /\ r.t_status = t.t_status
      /\ r.ready = t.ready /\ r.award = t.award /\ r.t_pot = t.t_pot /\ r.max = t.max
      /\ r.play = t.play /\ r.pass = t.pass /\ r.count = t.count /\ r.gen = t.gen
      /\ r.side = t.side /\ r.active = t.active /\ r.next = t.next /\ r.SB = t.SB
      /\ r.BB = t.BB /\ r.button = t.button /\ r.told = t.told /\ r.err = t.err
  BY <1>1 DEF Fields
<1> HIDE DEF r
<1>3. Typed(r)
  BY <1>2, Zenon DEF Sound, Typed
<1>4. Sound(r)
  BY <1>2, <1>3 DEF Sound, Highest, Owed, Idle, Awarded, Dealt, AtTable
<1> QED BY <1>2, <1>4 DEF r, Kept

\* Where what is there is kept, so is its sum.
LEMMA KeptCoins ==
    ASSUME NEW t, Typed(t), NEW r, Kept(t, r)
    PROVE  Coins(r) = Coins(t) /\ Coins(t) \in Int /\ t.t_pot \in Nat
BY CoinsInt DEF Kept, Coins, Typed

\* set_button_and_blind places the button and the blinds and pays nothing.
LEMMA ButtonSound ==
    ASSUME NEW t, Sound(t), NEW b, t.button = NoSeat => b \in Players
    PROVE  LET r == set_button_and_blind(t, b) IN Sound(r) /\ Kept(t, r)
<1> DEFINE button == IF t.button = NoSeat THEN [guid |-> b, chair |-> t.chair[b]]
                     ELSE SeatAfter(t, t.button.chair, AtTable(t), t.button)
           first == SeatAfter(t, button.chair, AtTable(t), NoSeat)
           second == SeatAfter(t, button.chair, AtTable(t) \ {first.guid}, NoSeat)
           r == set_button_and_blind(t, b)
<1>1. r = IF t.SB = NoSeat THEN [t EXCEPT !.button = button, !.SB = first, !.BB = second]
          ELSE [t EXCEPT !.button = button, !.BB = first]
  BY Zenon DEF set_button_and_blind
<1>2. Typed(t) /\ DOMAIN t = Fields /\ t.button \in Seat /\ t.chair \in [Players -> 0 .. Chairs]
  BY Zenon DEF Sound, Typed
<1>3. button \in Seat
  <2>1. CASE t.button = NoSeat
    <3>1. b \in Players /\ t.chair[b] \in 0 .. Chairs
      BY <1>2, <2>1
    <3>2. button = [guid |-> b, chair |-> t.chair[b]]
      BY <2>1
    <3> QED BY <3>1, <3>2 DEF Seat
  <2>2. CASE t.button # NoSeat
    <3>1. t.button.chair \in 0 .. Chairs
      BY <1>2 DEF Seat
    <3>2. SeatAfter(t, t.button.chair, AtTable(t), t.button) \in Seat
      BY <1>2, <3>1, SeatAfterIs
    <3> QED BY <2>2, <3>2
  <2> QED BY <2>1, <2>2
<1> HIDE DEF button
<1>4. button.chair \in 0 .. Chairs
  BY <1>3 DEF Seat
<1>5. first \in Seat /\ second \in Seat
  <2>1. \A S : SeatAfter(t, button.chair, S, NoSeat) \in Seat
    BY <1>4, NoSeatSeat, SeatAfterIs
  <2> QED BY <2>1
<1> HIDE DEF first, second, r
<1>6. CASE t.SB = NoSeat
  <2>1. r = [t EXCEPT !.button = button, !.SB = first, !.BB = second]
    BY <1>1, <1>6, Zenon
  <2>2. /\ DOMAIN r = Fields /\ r.button = button /\ r.SB = first /\ r.BB = second
        /\ r.chair = t.chair /\ r.money = t.money /\ r.t_player = t.t_player
        /\ r.cards = t.cards /\ r.t_bet = t.t_bet /\ r.t_status = t.t_status
        /\ r.due = t.due /\ r.ready = t.ready /\ r.award = t.award /\ r.t_pot = t.t_pot
        /\ r.max = t.max /\ r.play = t.play /\ r.pass = t.pass /\ r.count = t.count
        /\ r.gen = t.gen /\ r.side = t.side /\ r.active = t.active /\ r.next = t.next
        /\ r.told = t.told /\ r.err = t.err
    BY <1>2, <2>1 DEF Fields
  <2>3. Typed(r)
    BY <1>2, <1>3, <1>5, <2>2, Zenon DEF Typed
  <2>4. Sound(r)
    BY <2>2, <2>3 DEF Sound, Highest, Owed, Idle, Awarded, Dealt, AtTable
  <2> QED BY <2>2, <2>4 DEF r, Kept
<1>7. CASE t.SB # NoSeat
  <2>1. r = [t EXCEPT !.button = button, !.BB = first]
    BY <1>1, <1>7, Zenon
  <2>2. /\ DOMAIN r = Fields /\ r.button = button /\ r.BB = first
        /\ r.chair = t.chair /\ r.money = t.money /\ r.t_player = t.t_player
        /\ r.cards = t.cards /\ r.t_bet = t.t_bet /\ r.t_status = t.t_status
        /\ r.due = t.due /\ r.ready = t.ready /\ r.award = t.award /\ r.t_pot = t.t_pot
        /\ r.max = t.max /\ r.play = t.play /\ r.pass = t.pass /\ r.count = t.count
        /\ r.gen = t.gen /\ r.side = t.side /\ r.active = t.active /\ r.next = t.next
        /\ r.SB = t.SB /\ r.told = t.told /\ r.err = t.err
    BY <1>2, <2>1 DEF Fields
  <2>3. Typed(r)
    BY <1>2, <1>3, <1>5, <2>2, Zenon DEF Typed
  <2>4. Sound(r)
    BY <2>2, <2>3 DEF Sound, Highest, Owed, Idle, Awarded, Dealt, AtTable
  <2> QED BY <2>2, <2>4 DEF r, Kept
<1> QED BY <1>6, <1>7

\* position_init places who is first to think and pays nothing.
LEMMA PositionSound ==
    ASSUME NEW t, Sound(t), NEW b, t.button = NoSeat => b \in Players
    PROVE  LET r == position_init(t, b) IN Sound(r) /\ Kept(t, r)
<1> DEFINE t0 == [t EXCEPT !.play = t.count]
           t1 == set_button_and_blind(t0, b)
           active == SeatAfter(t1, t1.BB.chair, With(t1, "WAITING"), t1.active)
           next == SeatAfter(t1, active.chair, With(t1, "WAITING"), t1.next)
           r == position_init(t, b)
<1>1. r = [t1 EXCEPT !.active = active, !.due = FALSE, !.next = next]
  BY Zenon DEF position_init
<1>2. DOMAIN t = Fields /\ t.count \in Int
  BY Zenon DEF Sound, Typed
<1>3. /\ DOMAIN t0 = Fields /\ t0.play = t.count
      /\ t0.chair = t.chair /\ t0.money = t.money /\ t0.t_player = t.t_player
      /\ t0.cards = t.cards /\ t0.t_bet = t.t_bet /\ t0.t_status = t.t_status
      /\ t0.due = t.due /\ t0.ready = t.ready /\ t0.award = t.award
      /\ t0.t_pot = t.t_pot /\ t0.max = t.max /\ t0.pass = t.pass
      /\ t0.count = t.count /\ t0.gen = t.gen /\ t0.side = t.side
      /\ t0.active = t.active /\ t0.next = t.next /\ t0.SB = t.SB /\ t0.BB = t.BB
      /\ t0.button = t.button /\ t0.told = t.told /\ t0.err = t.err
  BY <1>2 DEF Fields
<1> HIDE DEF t0, r
<1>4. Sound(t0)
  <2>1. t0.play \in Int
    BY <1>2, <1>3
  <2>2. Typed(t0)
    BY <1>3, <2>1, Zenon DEF Sound, Typed
  <2> QED BY <1>3, <2>2 DEF Sound, Highest, Owed, Idle, Awarded, Dealt, AtTable
<1>5. Sound(t1) /\ Kept(t0, t1)
  BY <1>3, <1>4, ButtonSound
<1> HIDE DEF t1
<1>6. Typed(t1) /\ DOMAIN t1 = Fields /\ t1.BB \in Seat /\ t1.active \in Seat /\ t1.next \in Seat
  BY <1>5, Zenon DEF Sound, Typed
<1>7. active \in Seat
  <2>1. t1.BB.chair \in 0 .. Chairs
    BY <1>6 DEF Seat
  <2> QED BY <1>6, <2>1, SeatAfterIs
<1> HIDE DEF active
<1>8. next \in Seat
  <2>1. active.chair \in 0 .. Chairs
    BY <1>7 DEF Seat
  <2> QED BY <1>6, <2>1, SeatAfterIs
<1> HIDE DEF next
<1>9. /\ DOMAIN r = Fields /\ r.active = active /\ r.due = FALSE /\ r.next = next
      /\ r.chair = t1.chair /\ r.money = t1.money /\ r.t_player = t1.t_player
      /\ r.cards = t1.cards /\ r.t_bet = t1.t_bet /\ r.t_status = t1.t_status
      /\ r.ready = t1.ready /\ r.award = t1.award /\ r.t_pot = t1.t_pot
      /\ r.max = t1.max /\ r.play = t1.play /\ r.pass = t1.pass /\ r.count = t1.count
      /\ r.gen = t1.gen /\ r.side = t1.side /\ r.SB = t1.SB /\ r.BB = t1.BB
      /\ r.button = t1.button /\ r.told = t1.told /\ r.err = t1.err
  BY <1>1, <1>6 DEF Fields
<1>10. Typed(r)
  <2>1. r.due \in BOOLEAN
    BY <1>9, Zenon
  <2> QED BY <1>6, <1>7, <1>8, <1>9, <2>1, Zenon DEF Typed
<1>11. Sound(r)
  BY <1>5, <1>9, <1>10 DEF Sound, Highest, Owed, Idle, Awarded, Dealt, AtTable
<1> QED BY <1>3, <1>5, <1>9, <1>11 DEF r, Kept

\* What is there while the pot is unpaid.
Total(t) == Coins(t) + t.t_pot

\* Somebody on the chair of a blind does not have it, or not both if both are his.
Payer(t) ==
    \E p \in Players :
        /\ t.chair[p] \in {t.SB.chair, t.BB.chair} \ {0}
        /\ t.money[p] < Big + (IF t.SB.chair = t.BB.chair THEN Small ELSE 0)

\* A blind that nobody or somebody is to pay: more is in the pot than was paid only if he
\* does not have it.
LEMMA Blind ==
    ASSUME NEW t, Sound(t), t.t_status # WAITING, NEW q \in Players \union {None}, NEW m \in Nat
    PROVE  LET r == add_bet(t, q, m)
           IN  /\ Sound(r) /\ Same(t, r) /\ r.max <= t.max + m
               /\ Total(r) >= Total(t)
               /\ Total(r) = Total(t) \/ (q \in Players /\ t.money[q] < m)
               /\ \A p \in Players : r.money[p] >= t.money[p] - (IF p = q THEN m ELSE 0)
<1> DEFINE r == add_bet(t, q, m)
<1>0. Typed(t) /\ t.money \in [Players -> Nat] /\ t.t_pot \in Nat /\ t.max \in Nat
  BY Zenon DEF Sound, Typed
<1>00. Coins(t) \in Int
  BY <1>0, CoinsInt
<1>1. CASE q = None
  <2>1. r = Error(t)
    BY <1>1, Zenon DEF add_bet
  <2> HIDE DEF r
  <2>2. Sound(r) /\ Same(t, r) /\ r.money = t.money /\ r.t_pot = t.t_pot /\ r.max = t.max
    BY <1>0, <2>1, ErrorSound
  <2>3. Total(r) = Total(t) /\ Total(t) \in Int
    BY <1>0, <1>00, <2>2 DEF Total, Coins
  <2>4. \A p \in Players : r.money[p] >= t.money[p] - (IF p = q THEN m ELSE 0)
    BY <1>0, <2>2
  <2>5. r.max <= t.max + m /\ Total(r) >= Total(t)
    BY <1>0, <2>2, <2>3
  <2> QED BY <2>2, <2>3, <2>4, <2>5 DEF r
<1>2. CASE q \in Players
  <2>1. /\ Sound(r) /\ Same(t, r) /\ r.t_pot = t.t_pot + m /\ r.max <= t.max + m
        /\ r.money = [t.money EXCEPT ![q] = t.money[q] - Paid(t, q, m)]
    <3>1. Sound(t) /\ t.t_status # WAITING /\ q \in Players /\ m \in Nat
      BY <1>2
    <3> HIDE DEF WAITING
    <3> QED BY <3>1, AddBet, Zenon
  <2> HIDE DEF r
  <2>2. /\ Coins(r) = Coins(t) - Paid(t, q, m)
        /\ Paid(t, q, m) \in 0 .. m /\ (m <= t.money[q] => Paid(t, q, m) = m)
    BY <1>0, <1>2, <2>1, Charged
  <2>3. Total(r) >= Total(t)
    BY <1>0, <1>00, <2>1, <2>2 DEF Total
  <2>4. Total(r) = Total(t) \/ t.money[q] < m
    <3>1. t.money[q] \in Nat
      BY <1>0, <1>2
    <3>2. CASE m <= t.money[q]
      BY <1>0, <1>00, <2>1, <2>2, <3>2 DEF Total
    <3> QED BY <3>1, <3>2
  <2>5. \A p \in Players : r.money[p] >= t.money[p] - (IF p = q THEN m ELSE 0)
    <3> SUFFICES ASSUME NEW p \in Players PROVE r.money[p] >= t.money[p] - (IF p = q THEN m ELSE 0)
      OBVIOUS
    <3>1. t.money[p] \in Nat
      BY <1>0
    <3>2. r.money[p] = IF p = q THEN t.money[p] - Paid(t, q, m) ELSE t.money[p]
      BY <1>0, <2>1
    <3> QED BY <2>2, <3>1, <3>2
  <2> QED BY <1>2, <2>1, <2>3, <2>4, <2>5 DEF r
<1> QED BY <1>1, <1>2

\* send_user_cards deals a hand after both blinds: the pot gains what a blind was short of,
\* and no player loses what is not in the pot.
LEMMA UserCards ==
    ASSUME NEW t, Sound(t), t.t_status = WAITING
    PROVE  LET r == send_user_cards(t)
           IN  /\ Sound(r) /\ r.award = t.award /\ r.t_status = PRE_FLOP
               /\ Total(r) >= Total(t) /\ (Total(r) = Total(t) \/ Payer(t))
<1> DEFINE t0 == [t EXCEPT !.t_status = PRE_FLOP, !.play = 0, !.pass = 0, !.max = 0]
           sb == get_player(t, t.SB.chair)
           bb == get_player(t, t.BB.chair)
           t1 == add_bet(t0, sb, Small)
           tm == [t1 EXCEPT !.max = Big]
           t2 == add_bet(tm, bb, Big)
           dealt == With(t2, "WAITING")
           dt == [p \in Players |-> IF p \in dealt THEN "GAME" ELSE t2.t_player[p]]
           told == IF t.active.guid \in dealt THEN t.active.guid ELSE None
           t3 == [t2 EXCEPT !.t_player = [p \in Players |-> IF p \in dealt THEN "GAME" ELSE @[p]],
                        !.cards = @ \union dealt, !.play = Cardinality(dealt), !.due = FALSE,
                        !.told = IF t.active.guid \in dealt THEN t.active.guid ELSE None]
           r == send_user_cards(t)
<1>1. r = IF t1.err THEN t1 ELSE IF t2.err THEN t2 ELSE t3
  BY Zenon DEF send_user_cards
<1>2. t3 = [t2 EXCEPT !.t_player = dt, !.cards = t2.cards \union dealt, !.play = Cardinality(dealt),
                      !.due = FALSE, !.told = told]
  BY Zenon
<1>3. /\ Typed(t) /\ DOMAIN t = Fields /\ t.max = 0 /\ ~t.award /\ Highest(t) /\ t.active \in Seat
      /\ t.money \in [Players -> Nat] /\ t.t_pot \in Nat
  BY DEF Sound, Typed, Idle
<1> HIDE DEF r, t3
<1>4. /\ DOMAIN t0 = Fields /\ t0.t_status = 2 /\ t0.play = 0 /\ t0.pass = 0 /\ t0.max = 0
      /\ t0.chair = t.chair /\ t0.money = t.money /\ t0.t_player = t.t_player
      /\ t0.cards = t.cards /\ t0.t_bet = t.t_bet /\ t0.due = t.due
      /\ t0.ready = t.ready /\ t0.award = t.award /\ t0.t_pot = t.t_pot
      /\ t0.count = t.count /\ t0.gen = t.gen /\ t0.side = t.side
      /\ t0.active = t.active /\ t0.next = t.next /\ t0.SB = t.SB /\ t0.BB = t.BB
      /\ t0.button = t.button /\ t0.told = t.told /\ t0.err = t.err
  BY <1>3 DEF Fields
<1> HIDE DEF t0
<1>5. Sound(t0) /\ t0.t_status # WAITING
  <2>1. t0.t_status \in WAITING .. SHOW_DOWN /\ t0.play \in Int /\ t0.pass \in Nat /\ t0.max \in Nat
    BY <1>4
  <2>2. Typed(t0)
    BY <1>3, <1>4, <2>1, Zenon DEF Typed
  <2> QED BY <1>3, <1>4, <2>2 DEF Sound, Highest, Owed, Idle, Awarded, Dealt
<1>6. sb \in Players \union {None} /\ (sb \in Players => t.chair[sb] = t.SB.chair /\ t.SB.chair # 0)
  <2>1. None \notin Players
    OBVIOUS
  <2> QED BY <2>1, GetPlayer
<1>7. bb \in Players \union {None} /\ (bb \in Players => t.chair[bb] = t.BB.chair /\ t.BB.chair # 0)
  <2>1. None \notin Players
    OBVIOUS
  <2> QED BY <2>1, GetPlayer
<1> HIDE DEF sb, bb
<1>8. Small \in Nat /\ Big \in Nat /\ Small <= Big
  BY DEF Big
<1>9. /\ Sound(t1) /\ Same(t0, t1) /\ t1.max <= t0.max + Small
      /\ Total(t1) >= Total(t0)
      /\ Total(t1) = Total(t0) \/ (sb \in Players /\ t0.money[sb] < Small)
      /\ \A p \in Players : t1.money[p] >= t0.money[p] - (IF p = sb THEN Small ELSE 0)
  BY <1>5, <1>6, <1>8, Blind
<1> HIDE DEF t1
<1>10. Total(t0) = Total(t) /\ Total(t) \in Int
  <2>1. Coins(t0) = Coins(t) /\ Coins(t) \in Int
    BY <1>3, <1>4, CoinsInt DEF Coins
  <2> QED BY <1>3, <1>4, <2>1 DEF Total
<1>11. Typed(t1) /\ DOMAIN t1 = Fields /\ t1.money \in [Players -> Nat] /\ t1.max \in Nat
  BY <1>9, Zenon DEF Sound, Typed
<1>12. Total(t1) \in Int
  <2>1. Coins(t1) \in Int /\ t1.t_pot \in Nat
    BY <1>11, CoinsInt DEF Typed
  <2> QED BY <2>1 DEF Total
<1>13. /\ DOMAIN tm = Fields /\ tm.max = Big
      /\ tm.chair = t1.chair /\ tm.money = t1.money /\ tm.t_player = t1.t_player
      /\ tm.cards = t1.cards /\ tm.t_bet = t1.t_bet /\ tm.t_status = t1.t_status
      /\ tm.due = t1.due /\ tm.ready = t1.ready /\ tm.award = t1.award
      /\ tm.t_pot = t1.t_pot /\ tm.play = t1.play /\ tm.pass = t1.pass
      /\ tm.count = t1.count /\ tm.gen = t1.gen /\ tm.side = t1.side
      /\ tm.active = t1.active /\ tm.next = t1.next /\ tm.SB = t1.SB /\ tm.BB = t1.BB
      /\ tm.button = t1.button /\ tm.told = t1.told /\ tm.err = t1.err
  BY <1>11 DEF Fields
<1> HIDE DEF tm
<1>14. Sound(tm) /\ tm.t_status # WAITING /\ Total(tm) = Total(t1)
  <2>1. tm.max \in Nat
    BY <1>8, <1>13
  <2>2. Typed(tm)
    BY <1>11, <1>13, <2>1, Zenon DEF Typed
  <2>3. Highest(tm)
    <3>1. t1.max <= Big
      BY <1>4, <1>8, <1>9, <1>11
    <3>2. \A p \in Players : t1.t_bet[p] \in Int /\ t1.t_bet[p] <= t1.max
      BY <1>9, <1>11 DEF Sound, Highest, Typed
    <3>3. \A p \in Players : t1.t_bet[p] <= Big
      BY <1>8, <1>11, <3>1, <3>2
    <3> QED BY <1>13, <3>3 DEF Highest
  <2>4. tm.t_status = 2
    BY <1>4, <1>9, <1>13 DEF Same
  <2>5. Sound(tm)
    BY <1>9, <1>13, <2>2, <2>3, <2>4 DEF Sound, Owed, Idle, Awarded, Dealt
  <2>6. Total(tm) = Total(t1)
    BY <1>13 DEF Total, Coins
  <2> QED BY <2>4, <2>5, <2>6
<1>15. /\ Sound(t2) /\ Same(tm, t2)
       /\ Total(t2) >= Total(tm)
       /\ Total(t2) = Total(tm) \/ (bb \in Players /\ tm.money[bb] < Big)
  BY <1>7, <1>8, <1>14, Blind
<1> HIDE DEF t2
<1>16. /\ t1.award = t.award /\ t1.t_status = 2 /\ t2.award = t.award /\ t2.t_status = 2
  BY <1>4, <1>9, <1>13, <1>15 DEF Same
<1>17. Typed(t2) /\ DOMAIN t2 = Fields /\ t2.cards \subseteq Players
       /\ t2.t_player \in [Players -> {"nil", "WAITING", "GAME", "ALL_IN", "FOLD"}]
  BY <1>15, Zenon DEF Sound, Typed
<1>18. Total(t2) \in Int
  <2>1. Coins(t2) \in Int /\ t2.t_pot \in Nat
    BY <1>17, CoinsInt DEF Typed
  <2> QED BY <2>1 DEF Total
<1>19. ASSUME sb \in Players, t0.money[sb] < Small PROVE Payer(t)
  <2>1. t.money[sb] \in Nat /\ t.money[sb] < Small
    BY <1>3, <1>4, <1>19
  <2>2. t.money[sb] < Big + (IF t.SB.chair = t.BB.chair THEN Small ELSE 0)
    BY <1>8, <2>1
  <2> QED BY <1>6, <1>19, <2>2 DEF Payer
<1>20. ASSUME bb \in Players, tm.money[bb] < Big PROVE Payer(t)
  <2>1. t.money[bb] \in Nat /\ t1.money[bb] \in Nat
    BY <1>3, <1>11, <1>20
  <2>2. t1.money[bb] >= t.money[bb] - (IF bb = sb THEN Small ELSE 0) /\ t1.money[bb] < Big
    BY <1>4, <1>9, <1>13, <1>20
  <2>3. bb = sb => t.SB.chair = t.BB.chair
    BY <1>6, <1>7, <1>20
  <2>4. t.money[bb] < Big + (IF t.SB.chair = t.BB.chair THEN Small ELSE 0)
    BY <1>8, <2>1, <2>2, <2>3
  <2> QED BY <1>7, <1>20, <2>4 DEF Payer
<1>21. /\ Total(t1) >= Total(t) /\ (Total(t1) = Total(t) \/ Payer(t))
  BY <1>9, <1>10, <1>19
<1>22. /\ Total(t2) >= Total(t) /\ (Total(t2) = Total(t) \/ Payer(t))
  <2>1. Total(t2) = Total(t1) \/ Payer(t)
    BY <1>14, <1>15, <1>20
  <2>2. Total(t2) >= Total(t1)
    BY <1>14, <1>15
  <2> QED BY <1>10, <1>12, <1>18, <1>21, <2>1, <2>2
<1>23. CASE r = t1
  BY <1>9, <1>16, <1>21, <1>23 DEF r
<1>24. CASE r = t2
  BY <1>15, <1>16, <1>22, <1>24 DEF r
<1>25. CASE r = t3
  <2>1. dealt \in SUBSET Players
    BY DEF With
  <2>2. Cardinality(dealt) \in Nat
    BY <2>1, PlayersFinite
  <2>3. told \in Players \union {None}
    BY <2>1
  <2>4. dt \in [Players -> {"nil", "WAITING", "GAME", "ALL_IN", "FOLD"}]
    <3> HIDE DEF dealt
    <3> QED BY <1>17
  <2>5. \A p \in dealt : dt[p] = "GAME"
    BY <2>1
  <2>6. \A p \in Players : p \notin dealt => dt[p] = t2.t_player[p]
    OBVIOUS
  <2> DEFINE n == Cardinality(dealt)
             cards == t2.cards \union dealt
  <2>7. cards \subseteq Players
    BY <1>17, <2>1
  <2>8. t3 = [t2 EXCEPT !.t_player = dt, !.cards = cards, !.play = n, !.due = FALSE, !.told = told]
    BY <1>2
  <2>9. \A p \in cards : p \in t2.cards \/ p \in dealt
    OBVIOUS
  <2>10. n \in Nat
    BY <2>2
  <2> HIDE DEF dt, told, dealt, n, cards
  <2>11. /\ DOMAIN t3 = Fields /\ t3.t_player = dt /\ t3.cards = cards
         /\ t3.play = n /\ t3.due = FALSE /\ t3.told = told
         /\ t3.chair = t2.chair /\ t3.money = t2.money /\ t3.t_bet = t2.t_bet
         /\ t3.t_status = t2.t_status /\ t3.ready = t2.ready /\ t3.award = t2.award
         /\ t3.t_pot = t2.t_pot /\ t3.max = t2.max /\ t3.pass = t2.pass
         /\ t3.count = t2.count /\ t3.gen = t2.gen /\ t3.side = t2.side
         /\ t3.active = t2.active /\ t3.next = t2.next /\ t3.SB = t2.SB /\ t3.BB = t2.BB
         /\ t3.button = t2.button /\ t3.err = t2.err
    BY <1>17, <2>8 DEF Fields
  <2>12. Typed(t3)
    <3>0. t3.due = FALSE /\ t3.play = n /\ t3.cards = cards
      BY <2>11, Zenon
    <3>1. t3.play \in Int /\ t3.cards \subseteq Players
      BY <2>7, <2>10, <3>0
    <3>2. t3.due \in BOOLEAN
      BY <3>0, Zenon
    <3> QED BY <1>17, <2>3, <2>4, <2>11, <3>1, <3>2, Zenon DEF Typed
  <2>13. Dealt(t3)
    <3>1. \A p \in t2.cards : t2.t_player[p] \notin {"nil", "WAITING"}
      BY <1>15 DEF Sound, Dealt
    <3> QED BY <1>17, <2>1, <2>5, <2>6, <2>9, <2>11, <3>1 DEF Dealt
  <2>14. Sound(t3)
    BY <1>15, <1>16, <2>11, <2>12, <2>13 DEF Sound, Highest, Owed, Idle, Awarded
  <2>15. t3.award = t.award /\ t3.t_status = PRE_FLOP /\ Total(t3) = Total(t2)
    BY <1>16, <2>11 DEF Total, Coins
  <2> QED BY <1>22, <1>25, <2>14, <2>15 DEF r
<1> QED BY <1>1, <1>23, <1>24, <1>25, Zenon

-----------------------------------------------------------------------------
(* The first half of a tick: a hand or a round begins.                     *)

\* send_public_cards goes to the next round, with or without side pots, and moves no chips.
LEMMA PublicCards ==
    ASSUME NEW t, Sound(t), t.t_status \in PRE_FLOP .. RIVER
    PROVE  LET r == send_public_cards(t) IN Sound(r) /\ Kept(t, r)
<1> DEFINE t1 == IF t.gen = <<>> THEN t ELSE cal_side_pot(t)
           bets == [p \in Players |-> IF t1.t_bet[p] = NoBet THEN NoBet ELSE 0]
           t2 == [t1 EXCEPT !.t_status = @ + 1, !.max = 0, !.pass = 0,
                            !.play = Cardinality(With(t, "GAME")),
                            !.t_bet = [p \in Players |-> IF @[p] = NoBet THEN NoBet ELSE 0]]
           next == SeatAfter(t, t.SB.chair, With(t, "GAME"), t2.next)
           t3 == [t2 EXCEPT !.active = t.SB, !.next = SeatAfter(t, t.SB.chair, With(t, "GAME"), @)]
           t4 == [t3 EXCEPT !.due = FALSE, !.told = t.SB.guid]
           r == send_public_cards(t)
<1>1. r = IF t.t_status = RIVER THEN [t EXCEPT !.t_status = SHOW_DOWN]
          ELSE IF t2.play <= 1 THEN [t2 EXCEPT !.due = FALSE]
          ELSE IF t3.active.guid \notin With(t, "GAME") THEN [set_next_player(t3) EXCEPT !.due = FALSE]
          ELSE IF get_player(t, t3.active.chair) = None THEN Error(t3)
          ELSE t4
  BY Zenon DEF send_public_cards
<1>2. t2 = [t1 EXCEPT !.t_status = t1.t_status + 1, !.max = 0, !.pass = 0,
                      !.play = Cardinality(With(t, "GAME")), !.t_bet = bets]
  BY Zenon
<1>3. t3 = [t2 EXCEPT !.active = t.SB, !.next = next]
  BY Zenon
<1>4. Typed(t) /\ DOMAIN t = Fields /\ t.SB \in Seat /\ t.t_status \in WAITING .. SHOW_DOWN
  BY Zenon DEF Sound, Typed
<1> HIDE DEF r, t3, t2
<1>5. CASE t.t_status = RIVER
  <2> DEFINE s == [t EXCEPT !.t_status = SHOW_DOWN]
  <2>1. r = s
    BY <1>1, <1>5, Zenon
  <2>2. /\ DOMAIN s = Fields /\ s.t_status = 6
        /\ s.chair = t.chair /\ s.money = t.money /\ s.t_player = t.t_player
        /\ s.cards = t.cards /\ s.t_bet = t.t_bet /\ s.due = t.due /\ s.ready = t.ready
        /\ s.award = t.award /\ s.t_pot = t.t_pot /\ s.max = t.max /\ s.play = t.play
        /\ s.pass = t.pass /\ s.count = t.count /\ s.gen = t.gen /\ s.side = t.side
        /\ s.active = t.active /\ s.next = t.next /\ s.SB = t.SB /\ s.BB = t.BB
        /\ s.button = t.button /\ s.told = t.told /\ s.err = t.err
    BY <1>4 DEF Fields
  <2> HIDE DEF s
  <2>3. s.t_status \in WAITING .. SHOW_DOWN
    BY <2>2
  <2>4. Typed(s)
    BY <1>4, <2>2, <2>3, Zenon DEF Typed
  <2>5. Sound(s)
    BY <2>2, <2>4 DEF Sound, Highest, Owed, Idle, Awarded, Dealt
  <2> QED BY <2>1, <2>2, <2>5 DEF r, Kept
<1>6. CASE t.t_status # RIVER
  <2>1. Sound(t1) /\ Kept(t, t1) /\ t1.t_status = t.t_status /\ t1.next = t.next
    <3>1. CASE t.gen = <<>>
      <4>1. t1 = t
        BY <3>1
      <4> HIDE DEF t1
      <4> QED BY <4>1 DEF Kept
    <3>2. CASE t.gen # <<>>
      <4>1. t1 = cal_side_pot(t)
        BY <3>2
      <4> HIDE DEF t1
      <4> QED BY <4>1, SidePotsSound
    <3> QED BY <3>1, <3>2
  <2> HIDE DEF t1
  <2>2. /\ Typed(t1) /\ DOMAIN t1 = Fields /\ t1.t_bet \in [Players -> Nat \union {NoBet}]
        /\ t1.next \in Seat
    BY <2>1, Zenon DEF Sound, Typed
  <2>3. Cardinality(With(t, "GAME")) \in Nat
    <3>1. With(t, "GAME") \in SUBSET Players
      BY DEF With
    <3> QED BY <3>1, PlayersFinite
  <2> DEFINE n == Cardinality(With(t, "GAME"))
  <2>4. t1.t_status + 1 \in 3 .. 5
    BY <1>6, <2>1
  <2>5. bets \in [Players -> Nat \union {NoBet}] /\ \A p \in Players : bets[p] <= 0
    OBVIOUS
  <2>6. t2 = [t1 EXCEPT !.t_status = t1.t_status + 1, !.max = 0, !.pass = 0, !.play = n, !.t_bet = bets]
    BY <1>2
  <2> HIDE DEF bets, n
  <2>7. /\ DOMAIN t2 = Fields /\ t2.t_status = t1.t_status + 1 /\ t2.max = 0 /\ t2.pass = 0
        /\ t2.play = n /\ t2.t_bet = bets
        /\ t2.chair = t1.chair /\ t2.money = t1.money /\ t2.t_player = t1.t_player
        /\ t2.cards = t1.cards /\ t2.due = t1.due /\ t2.ready = t1.ready
        /\ t2.award = t1.award /\ t2.t_pot = t1.t_pot /\ t2.count = t1.count
        /\ t2.gen = t1.gen /\ t2.side = t1.side /\ t2.active = t1.active
        /\ t2.next = t1.next /\ t2.SB = t1.SB /\ t2.BB = t1.BB /\ t2.button = t1.button
        /\ t2.told = t1.told /\ t2.err = t1.err
    BY <2>2, <2>6 DEF Fields
  <2>8. Sound(t2) /\ Kept(t, t2)
    <3>1. t2.t_status \in WAITING .. SHOW_DOWN /\ t2.max \in Nat /\ t2.pass \in Nat
      BY <2>4, <2>7
    <3>2. t2.play \in Int
      BY <2>3, <2>7 DEF n
    <3>3. Typed(t2)
      BY <2>2, <2>5, <2>7, <3>1, <3>2, Zenon DEF Typed
    <3>4. t2.t_status # WAITING /\ t1.t_status # SHOW_DOWN
      BY <2>4, <2>7
    <3>5. ~t1.award
      BY <2>1, <3>4 DEF Sound, Awarded
    <3>6. Sound(t2)
      BY <2>1, <2>5, <2>7, <3>3, <3>4, <3>5 DEF Sound, Highest, Owed, Idle, Awarded, Dealt
    <3> QED BY <2>1, <2>7, <3>6 DEF Kept
  <2>9. Typed(t2) /\ DOMAIN t2 = Fields /\ t2.next \in Seat
    BY <2>8, Zenon DEF Sound, Typed
  <2>10. next \in Seat
    <3>1. t.SB.chair \in 0 .. Chairs
      BY <1>4 DEF Seat
    <3> QED BY <2>9, <3>1, SeatAfterIs
  <2> HIDE DEF next
  <2>11. /\ DOMAIN t3 = Fields /\ t3.active = t.SB /\ t3.next = next
         /\ t3.chair = t2.chair /\ t3.money = t2.money /\ t3.t_player = t2.t_player
         /\ t3.cards = t2.cards /\ t3.t_bet = t2.t_bet /\ t3.t_status = t2.t_status
         /\ t3.due = t2.due /\ t3.ready = t2.ready /\ t3.award = t2.award
         /\ t3.t_pot = t2.t_pot /\ t3.max = t2.max /\ t3.play = t2.play
         /\ t3.pass = t2.pass /\ t3.count = t2.count /\ t3.gen = t2.gen
         /\ t3.side = t2.side /\ t3.SB = t2.SB /\ t3.BB = t2.BB /\ t3.button = t2.button
         /\ t3.told = t2.told /\ t3.err = t2.err
    BY <1>3, <2>9 DEF Fields
  <2>12. Sound(t3) /\ Kept(t, t3)
    <3>1. Typed(t3)
      BY <1>4, <2>9, <2>10, <2>11, Zenon DEF Typed
    <3> QED BY <2>8, <2>11, <3>1 DEF Sound, Highest, Owed, Idle, Awarded, Dealt, AtTable, Kept
  <2>13. CASE r = [t2 EXCEPT !.due = FALSE]
    <3>1. Sound(r) /\ Kept(t2, r)
      BY <2>8, <2>13, DueSound
    <3> QED BY <2>8, <3>1 DEF r, Kept
  <2>14. CASE r = [set_next_player(t3) EXCEPT !.due = FALSE]
    <3> DEFINE s == set_next_player(t3)
    <3>1. Sound(s) /\ Kept(t3, s)
      BY <2>12, SetNextSound
    <3> HIDE DEF s
    <3>2. r = [s EXCEPT !.due = FALSE]
      BY <2>14 DEF s
    <3>3. Sound(r) /\ Kept(s, r)
      BY <3>1, <3>2, DueSound
    <3> QED BY <2>12, <3>1, <3>3 DEF r, Kept
  <2>15. CASE r = Error(t3)
    <3>1. Typed(t3)
      BY <2>12, Zenon DEF Sound
    <3>2. Sound(r) /\ Same(t3, r) /\ r.money = t3.money /\ r.t_pot = t3.t_pot
      BY <2>12, <2>15, <3>1, ErrorSound
    <3> QED BY <2>12, <3>2 DEF r, Kept, Same
  <2>16. CASE r = t4
    <3>1. DOMAIN t3 = Fields
      BY <2>11
    <3>2. /\ DOMAIN t4 = Fields /\ t4.due = FALSE /\ t4.told = t.SB.guid
          /\ t4.chair = t3.chair /\ t4.money = t3.money /\ t4.t_player = t3.t_player
          /\ t4.cards = t3.cards /\ t4.t_bet = t3.t_bet /\ t4.t_status = t3.t_status
          /\ t4.ready = t3.ready /\ t4.award = t3.award /\ t4.t_pot = t3.t_pot
          /\ t4.max = t3.max /\ t4.play = t3.play /\ t4.pass = t3.pass
          /\ t4.count = t3.count /\ t4.gen = t3.gen /\ t4.side = t3.side
          /\ t4.active = t3.active /\ t4.next = t3.next /\ t4.SB = t3.SB /\ t4.BB = t3.BB
          /\ t4.button = t3.button /\ t4.err = t3.err
      BY <3>1 DEF Fields
    <3> HIDE DEF t4
    <3>3. t4.told \in Players \union {None}
      BY <1>4, <3>2 DEF Seat
    <3>4. t4.due \in BOOLEAN
      BY <3>2, Zenon
    <3>5. Typed(t4)
      BY <2>12, <3>2, <3>3, <3>4, Zenon DEF Sound, Typed
    <3>6. t4.t_status # WAITING
      BY <2>4, <2>7, <2>11, <3>2
    <3>7. Sound(t4)
      BY <2>12, <3>2, <3>5, <3>6 DEF Sound, Highest, Owed, Idle, Awarded, Dealt
    <3> QED BY <2>12, <2>16, <3>2, <3>7 DEF r, Kept
  <2> QED BY <1>1, <1>6, <2>13, <2>14, <2>15, <2>16, Zenon
<1> QED BY <1>5, <1>6

\* What the first half of a tick does to what there is to be paid.
Started(t, r) ==
    /\ r.award = t.award
    /\ \/ Coins(r) = Coins(t) /\ r.t_pot = t.t_pot
       \/ Total(r) = Total(t) /\ Coins(r) <= Coins(t) /\ ~check_next_round(t)
       \/ /\ t.t_status = WAITING /\ r.t_status = PRE_FLOP
          /\ Total(r) >= Total(t) /\ (Total(r) = Total(t) \/ Payer(t))

\* start_game deals, goes on to the next round or lets time pass for the active player, who is
\* charged also when the hand has been settled, if the round is not over.
LEMMA StartGame ==
    ASSUME NEW t, Sound(t)
    PROVE  LET r == start_game(t) IN Sound(r) /\ Started(t, r)
<1> DEFINE t1 == RoundOver(t)
           t2 == IF t.active.guid \in With(t, "GAME") THEN cur_active_player_time_pass(t) ELSE t
           r == start_game(t)
<1>1. r = IF check_next_round(t)
          THEN IF t1.t_status = WAITING THEN send_user_cards(t1)
               ELSE IF t1.t_status < SHOW_DOWN THEN send_public_cards(t1) ELSE t1
          ELSE IF t2.err THEN t2 ELSE set_next_player(t2)
  BY Zenon DEF start_game
<1> HIDE DEF r
<1>2. Typed(t)
  BY Zenon DEF Sound
<1>3. ASSUME NEW s, Kept(t, s) PROVE Started(t, s)
  BY <1>3 DEF Started, Kept, Coins
<1>4. CASE check_next_round(t)
  <2>1. /\ Sound(t1) /\ Kept(t, t1) /\ t1.t_status \in {t.t_status, SHOW_DOWN}
        /\ t1.SB = t.SB /\ t1.BB = t.BB /\ t1.chair = t.chair
    BY RoundOverSound
  <2> HIDE DEF t1
  <2>2. CASE t1.t_status = WAITING
    <3>1. r = send_user_cards(t1)
      BY <1>1, <1>4, <2>2, Zenon
    <3>2. /\ Sound(r) /\ r.award = t1.award /\ r.t_status = PRE_FLOP
          /\ Total(r) >= Total(t1) /\ (Total(r) = Total(t1) \/ Payer(t1))
      BY <2>1, <2>2, <3>1, UserCards
    <3>3. t.t_status = WAITING
      <4>1. t1.t_status = t.t_status \/ t1.t_status = 6
        BY <2>1
      <4> QED BY <2>2, <4>1
    <3>4. Total(t1) = Total(t) /\ r.award = t.award
      BY <2>1, <3>2 DEF Total, Coins, Kept
    <3>5. Payer(t1) => Payer(t)
      BY <2>1, Zenon DEF Payer, Kept
    <3>6. Started(t, r)
      BY <3>2, <3>3, <3>4, <3>5, Zenon DEF Started
    <3> QED BY <3>2, <3>6 DEF r
  <2>3. CASE t1.t_status # WAITING /\ t1.t_status < SHOW_DOWN
    <3>1. r = send_public_cards(t1)
      BY <1>1, <1>4, <2>3, Zenon
    <3>2. t1.t_status \in PRE_FLOP .. RIVER
      <4>1. t1.t_status \in WAITING .. SHOW_DOWN
        BY <2>1, Zenon DEF Sound, Typed
      <4> QED BY <2>3, <4>1
    <3>3. Sound(r) /\ Kept(t1, r)
      BY <2>1, <3>1, <3>2, PublicCards
    <3>4. Kept(t, r)
      BY <2>1, <3>3 DEF Kept
    <3> QED BY <1>3, <3>3, <3>4 DEF r
  <2>4. CASE r = t1
    BY <1>3, <2>1, <2>4 DEF r
  <2> QED BY <1>1, <1>4, <2>2, <2>3, <2>4, Zenon
<1>5. CASE ~check_next_round(t)
  <2>1. t.t_status # WAITING
    BY <1>5, WaitingIsOver
  <2>2. Sound(t2) /\ Moved(t, t2)
    <3>1. CASE t.active.guid \in With(t, "GAME")
      <4>1. t2 = cur_active_player_time_pass(t)
        BY <3>1
      <4> HIDE DEF t2
      <4> QED BY <2>1, <4>1, TimePassMoved
    <3>2. CASE t.active.guid \notin With(t, "GAME")
      <4>1. t2 = t
        BY <3>2
      <4> HIDE DEF t2
      <4>2. Coins(t) \in Int
        BY <1>2, CoinsInt
      <4> QED BY <4>1, <4>2 DEF Moved
    <3> QED BY <3>1, <3>2
  <2> HIDE DEF t2
  <2>3. CASE r = t2
    <3>1. Started(t, r)
      BY <1>5, <2>2, <2>3, Zenon DEF Started, Moved, Total
    <3> QED BY <2>2, <2>3, <3>1 DEF r
  <2>4. CASE r = set_next_player(t2)
    <3>1. Sound(r) /\ Kept(t2, r)
      BY <2>2, <2>4, SetNextSound
    <3>3. r.award = t.award /\ Coins(r) = Coins(t2) /\ r.t_pot = t2.t_pot
      BY <2>2, <3>1 DEF Moved, Kept, Coins
    <3>4. Started(t, r)
      BY <1>5, <2>2, <3>3, Zenon DEF Started, Moved, Total
    <3> QED BY <3>1, <3>4 DEF r
  <2> QED BY <1>1, <1>5, <2>3, <2>4, Zenon
<1> QED BY <1>4, <1>5

\* The first half of a tick, with the button placed on b if it was nowhere.
LEMMA StartsSound ==
    ASSUME NEW t, Sound(t), NEW b, t.button = NoSeat => b \in Players
    PROVE  LET r == Starts(t, b) IN Sound(r) /\ Started(t, r)
<1> DEFINE r == Starts(t, b)
<1>1. ASSUME NEW s, Kept(t, s) PROVE Started(t, s)
  BY <1>1 DEF Started, Kept, Coins
<1>2. CASE r = t
  BY <1>1, <1>2 DEF Kept
<1>3. CASE r = position_init(t, b)
  BY <1>1, <1>3, PositionSound
<1>4. CASE r = start_game(t)
  BY <1>4, StartGame
<1>5. r = t \/ r = position_init(t, b) \/ r = start_game(t)
  BY Zenon DEF Starts
<1> QED BY <1>2, <1>3, <1>4, <1>5

-----------------------------------------------------------------------------
(* The settlement.                                                         *)

\* Who is dealt in, as the hands are compared.
InHand(t) == {p \in AtTable(t) : t.t_player[p] # "WAITING"}
\* There is no side pot with something in it.
NoSides(t) == \A k \in DOMAIN t.side : t.side[k].money = 0

\* Some hand is the best one of several, so that the pot is split among somebody.
LEMMA BestExists ==
    ASSUME NEW P, NEW N \in Nat, NEW rank \in [P -> 1 .. N], NEW S \in SUBSET P, S # {}
    PROVE  Best(S, rank) # {} /\ Best(S, rank) \subseteq S
<1> DEFINE R == {rank[p] : p \in S}
<1>1. \A p \in S : rank[p] \in 1 .. N
  OBVIOUS
<1>2. R \in SUBSET Int /\ R # {} /\ \A x \in R : x <= N
  <2>1. \A x \in R : x \in Int /\ x <= N
    BY <1>1
  <2>2. R # {}
    <3>1. PICK p \in S : TRUE
      OBVIOUS
    <3>2. rank[p] \in R
      BY <3>1
    <3> QED BY <3>2
  <2> QED BY <2>1, <2>2
<1>3. Max(R) \in R /\ \A x \in R : x <= Max(R)
  <2> HIDE DEF R
  <2>1. N \in Int
    OBVIOUS
  <2> QED BY <1>2, <2>1, MaxIs
<1>4. PICK p \in S : rank[p] = Max(R)
  BY <1>3, Zenon
<1>5. \A q \in S : rank[q] \in R
  BY Zenon
<1> HIDE DEF R
<1>6. \A q \in S : rank[q] <= rank[p]
  BY <1>3, <1>4, <1>5
<1> QED BY <1>6 DEF Best

\* An even split pays no more than there is, and leaves less than one chip each.
LEMMA Quotient ==
    ASSUME NEW a \in Nat, NEW n \in Nat \ {0}
    PROVE  a \div n \in Nat /\ n * (a \div n) <= a /\ a - n * (a \div n) < n
OBVIOUS

\* Nothing is split into nothing.
LEMMA QuotientZero == \A n \in Nat \ {0} : 0 \div n = 0
OBVIOUS

\* What a player wins of the main pot, and how the side pots add to it: a winner gets at
\* least his share, and everybody no more than it when there are no side pots.
LEMMA SharesAre ==
    ASSUME NEW t, Sound(t), ~Unsettled(t), ~Alone(t), NEW first,
           NEW N \in Nat, NEW rank \in [InHand(t) -> 1 .. N]
    PROVE  LET main == Best(StillIn(t), rank)
               c == t.t_pot \div Cardinality(main)
               final == Shares(t, rank, first)
           IN  /\ main # {} /\ main \subseteq StillIn(t)
               /\ final \in [Players -> Int]
               /\ \A p \in Players : /\ (IF p \in main THEN c ELSE NoBet) <= final[p]
                                     /\ NoSides(t) => final[p] <= (IF p \in main THEN c ELSE 0)
<1> DEFINE main == Best(StillIn(t), rank)
           c == t.t_pot \div Cardinality(main)
           add(final, k) ==
             LET pot == t.side[k]
                 listed == Listed(pot)
                 holders == {p \in listed : final[p] # NoBet}
                 best == Best(listed, rank)
                 once == IF first \in best THEN first ELSE CHOOSE p \in best : TRUE
                 parts == IF holders # {} THEN [p \in holders |-> pot.players[p]]
                          ELSE [p \in best |-> IF p = once THEN 1 ELSE pot.players[p]]
                 share == pot.money \div SumFunction(parts)
             IN  [p \in Players |-> IF p \notin DOMAIN parts THEN final[p]
                                    ELSE Max({final[p], 0}) + parts[p] * share]
           base == [p \in Players |-> IF p \in main THEN c ELSE NoBet]
           due == [p \in Players |-> IF p \in main THEN c ELSE 0]
           D == DOMAIN t.side
           seq == [k \in D |-> k]
           found == FoldLeft(add, base, seq)
           A == {f \in [Players -> Int] : \A p \in Players : /\ base[p] <= f[p]
                                                             /\ NoSides(t) => f[p] <= due[p]}
           ch == [s \in SUBSET D |-> Max(s)]
           tab == [y \in A \X D |-> add(y[1], y[2])]
           it == CHOOSE iter : iter = [s \in SUBSET D |-> IF s = {} THEN base
                                         ELSE add(iter[s \ {Max(s)}], seq[Max(s)])]
<1>0. /\ Typed(t) /\ t.side \in Seq(Pots) /\ D = 1 .. Len(t.side) /\ Len(t.side) \in Nat
      /\ t.t_pot \in Nat /\ t.cards \subseteq Players
      /\ t.t_player \in [Players -> {"nil", "WAITING", "GAME", "ALL_IN", "FOLD"}]
  <2>1. /\ Typed(t) /\ t.side \in Seq(Pots) /\ t.t_pot \in Nat /\ t.cards \subseteq Players
        /\ t.t_player \in [Players -> {"nil", "WAITING", "GAME", "ALL_IN", "FOLD"}]
    BY Zenon DEF Sound, Typed
  <2>2. D = 1 .. Len(t.side) /\ Len(t.side) \in Nat
    BY <2>1
  <2> QED BY <2>1, <2>2
<1>a. main # {} /\ main \subseteq StillIn(t) /\ StillIn(t) \in SUBSET Players /\ Cardinality(main) \in Nat \ {0}
  <2>1. StillIn(t) \in SUBSET Players /\ StillIn(t) \subseteq InHand(t)
    BY DEF StillIn, With, InHand, AtTable
  <2>2. Cardinality(StillIn(t)) \in Nat
    BY <2>1, PlayersFinite
  <2>3. StillIn(t) # {}
    <3>1. ~(Cardinality(StillIn(t)) < 2)
      BY Zenon DEF Alone
    <3>2. Cardinality({}) = 0
      BY FS_EmptySet
    <3> QED BY <2>2, <3>1, <3>2
  <2>4. StillIn(t) \in SUBSET InHand(t)
    BY <2>1
  <2>5. main # {} /\ main \subseteq StillIn(t)
    BY <2>3, <2>4, BestExists
  <2> HIDE DEF main
  <2>6. main \in SUBSET Players
    BY <2>1, <2>5
  <2>7. IsFiniteSet(main) /\ Cardinality(main) \in Nat
    BY <2>6, PlayersFinite
  <2>8. Cardinality(main) # 0
    BY <2>5, <2>7, FS_EmptySet
  <2> QED BY <2>1, <2>5, <2>7, <2>8
<1>b. c \in Nat
  <2> DEFINE n == Cardinality(main)
  <2>1. n \in Nat \ {0}
    BY <1>a
  <2> HIDE DEF n
  <2>2. t.t_pot \div n \in Nat
    BY <1>0, <2>1, Quotient
  <2> QED BY <2>2 DEF n
<1> HIDE DEF main, c
<1>c. base \in [Players -> Int] /\ due \in [Players -> Nat] /\ \A p \in Players : base[p] <= due[p]
  BY <1>b
<1> HIDE DEF base, due
<1>3. base \in A
  BY <1>c
<1>1. \A s \in SUBSET D : s # {} => Max(s) \in s /\ ch[s] = Max(s) /\ seq[Max(s)] = Max(s)
  <2> SUFFICES ASSUME NEW s \in SUBSET D, s # {} PROVE Max(s) \in s /\ ch[s] = Max(s) /\ seq[Max(s)] = Max(s)
    OBVIOUS
  <2>1. s \in SUBSET Int /\ Len(t.side) \in Int /\ \A x \in s : x <= Len(t.side)
    BY <1>0
  <2>2. Max(s) \in s
    BY <2>1, MaxIs
  <2> QED BY <2>2
<1>2. \A f \in A, k \in D : add(f, k) \in A
  <2> SUFFICES ASSUME NEW f \in A, NEW k \in D PROVE add(f, k) \in A
    OBVIOUS
  <2> DEFINE pot == t.side[k]
             listed == Listed(pot)
             holders == {p \in listed : f[p] # NoBet}
             best == Best(listed, rank)
             once == IF first \in best THEN first ELSE CHOOSE p \in best : TRUE
             parts == IF holders # {} THEN [p \in holders |-> pot.players[p]]
                      ELSE [p \in best |-> IF p = once THEN 1 ELSE pot.players[p]]
             share == pot.money \div SumFunction(parts)
             g == [p \in Players |-> IF p \notin DOMAIN parts THEN f[p]
                                     ELSE Max({f[p], 0}) + parts[p] * share]
  <2>1. add(f, k) = g
    OBVIOUS
  <2>2. pot \in Pots /\ pot.money >= 0
    BY <1>0 DEF Sound, Owed
  <2>3. pot.money \in Nat /\ pot.players \in [Players -> Nat]
    BY <2>2 DEF Pots
  <2>4. listed # {} /\ listed \subseteq Players /\ listed \subseteq InHand(t) /\ \A p \in listed : pot.players[p] >= 1
    <3>1. listed # {} /\ listed \subseteq AtTable(t) \intersect t.cards
      BY Zenon DEF Unsettled
    <3>2. \A p \in t.cards : t.t_player[p] \notin {"nil", "WAITING"}
      BY DEF Sound, Dealt
    <3>3. listed \subseteq InHand(t)
      BY <3>1, <3>2 DEF InHand
    <3>4. \A p \in listed : p \in Players /\ pot.players[p] > 0
      BY Zenon DEF Listed
    <3>5. \A p \in listed : pot.players[p] >= 1
      <4> HIDE DEF listed, pot
      <4> QED BY <2>3, <3>4
    <3> QED BY <3>1, <3>3, <3>4, <3>5
  <2>5. NoSides(t) => pot.money = 0
    BY DEF NoSides
  <2> HIDE DEF pot, listed
  <2>6. best # {} /\ best \subseteq listed
    <3>1. listed \in SUBSET InHand(t)
      BY <2>4
    <3> QED BY <2>4, <3>1, BestExists
  <2>7. once \in best
    BY <2>6
  <2> HIDE DEF best, once
  <2>8. PICK Q \in SUBSET Players : parts \in [Q -> Nat] /\ \E q \in Q : parts[q] >= 1
    <3>1. CASE holders # {}
      <4>1. parts = [p \in holders |-> pot.players[p]]
        BY <3>1
      <4>2. holders \subseteq listed
        OBVIOUS
      <4> HIDE DEF parts, holders
      <4>3. holders \in SUBSET Players /\ parts \in [holders -> Nat] /\ \A q \in holders : parts[q] >= 1
        BY <2>3, <2>4, <4>1, <4>2
      <4> QED BY <3>1, <4>3
    <3>2. CASE holders = {}
      <4>1. parts = [p \in best |-> IF p = once THEN 1 ELSE pot.players[p]]
        BY <3>2
      <4> HIDE DEF parts, holders
      <4>3. best \in SUBSET Players /\ parts \in [best -> Nat] /\ parts[once] >= 1
        BY <2>3, <2>4, <2>6, <2>7, <4>1
      <4> QED BY <2>7, <4>3
    <3> QED BY <3>1, <3>2
  <2>9. DOMAIN parts = Q
    BY <2>8
  <2> HIDE DEF parts
  <2>10. SumFunction(parts) \in Nat \ {0}
    <3>1. IsFiniteSet(Q)
      BY PlayersFinite
    <3>2. SumFunction(parts) \in Nat /\ \A q \in Q : parts[q] <= SumFunction(parts)
      BY <2>8, <3>1, SumPositive
    <3>3. PICK q \in Q : parts[q] >= 1
      BY <2>8
    <3>4. parts[q] \in Nat /\ parts[q] <= SumFunction(parts)
      BY <2>8, <3>2
    <3> QED BY <3>2, <3>3, <3>4
  <2>11. share \in Nat /\ (NoSides(t) => share = 0)
    <3> DEFINE w == SumFunction(parts)
    <3>1. w \in Nat \ {0}
      BY <2>10
    <3> HIDE DEF w
    <3>2. pot.money \div w \in Nat
      BY <2>3, <3>1, Quotient
    <3>3. NoSides(t) => pot.money \div w = 0
      BY <2>5, <3>1, QuotientZero
    <3> QED BY <3>2, <3>3 DEF w
  <2> HIDE DEF share
  <2>12. f \in [Players -> Int] /\ \A p \in Players : base[p] <= f[p] /\ (NoSides(t) => f[p] <= due[p])
    OBVIOUS
  <2>13. ASSUME NEW p \in Players
         PROVE  g[p] \in Int /\ base[p] <= g[p] /\ (NoSides(t) => g[p] <= due[p])
    <3>0. f[p] \in Int /\ base[p] \in Int /\ due[p] \in Nat /\ base[p] <= f[p] /\ (NoSides(t) => f[p] <= due[p])
      BY <1>c, <2>12
    <3>1. CASE p \notin Q
      <4>1. g[p] = f[p]
        BY <2>9, <3>1
      <4> QED BY <3>0, <4>1
    <3>2. CASE p \in Q
      <4> DEFINE mx == Max({f[p], 0})
                 ad == parts[p] * share
      <4>1. g[p] = mx + ad
        BY <2>9, <3>2
      <4>2. mx \in Int /\ f[p] <= mx /\ 0 <= mx /\ (mx = f[p] \/ mx = 0)
        BY <3>0 DEF Max
      <4>3. ad \in Nat /\ (NoSides(t) => ad = 0)
        <5>1. parts[p] \in Nat
          BY <2>8, <3>2
        <5> QED BY <2>11, <5>1
      <4> HIDE DEF mx, ad, g
      <4> QED BY <3>0, <4>1, <4>2, <4>3
    <3> QED BY <3>1, <3>2
  <2>14. g \in [Players -> Int]
    <3>1. \A p \in Players : g[p] \in Int
      BY <2>13
    <3>2. g = [p \in Players |-> g[p]]
      OBVIOUS
    <3> HIDE DEF g
    <3> QED BY <3>1, <3>2
  <2> HIDE DEF g, add
  <2>15. g \in A
    BY <2>13, <2>14
  <2> QED BY <2>1, <2>15
<1>4. IsFiniteSet(D)
  <2>1. IsFiniteSet(1 .. Len(t.side))
    BY <1>0, FS_Interval
  <2> QED BY <1>0, <2>1
<1> HIDE DEF add, seq, D, A
<1>5. tab \in [A \X D -> A]
  BY <1>2
<1>6. PICK G \in [SUBSET D -> A] : Folded(G, D, base, ch, tab)
  <2>1. \A s \in SUBSET D : s # {} => ch[s] \in s
    BY <1>1
  <2> HIDE DEF ch, tab
  <2> QED BY <1>3, <1>4, <1>5, <2>1, FoldExists
<1>7. \A s \in SUBSET D : s # {} => G[s] = add(G[s \ {Max(s)}], seq[Max(s)])
  <2> SUFFICES ASSUME NEW s \in SUBSET D, s # {} PROVE G[s] = add(G[s \ {Max(s)}], seq[Max(s)])
    OBVIOUS
  <2>1. Max(s) \in s /\ ch[s] = Max(s) /\ seq[Max(s)] = Max(s)
    BY <1>1
  <2>2. G[s] = tab[<<G[s \ {ch[s]}], ch[s]>>]
    BY <1>6, Zenon DEF Folded
  <2> HIDE DEF ch
  <2>3. s \ {Max(s)} \in SUBSET D /\ Max(s) \in D
    BY <2>1
  <2>4. G[s \ {Max(s)}] \in A
    BY <2>3
  <2>5. tab[<<G[s \ {Max(s)}], Max(s)>>] = add(G[s \ {Max(s)}], Max(s))
    BY <2>3, <2>4
  <2> QED BY <2>1, <2>2, <2>5
<1>8. G[{}] = base
  BY <1>6 DEF Folded
<1>9. G = [s \in SUBSET D |-> IF s = {} THEN base ELSE add(G[s \ {Max(s)}], seq[Max(s)])]
  <2>1. G = [s \in SUBSET D |-> G[s]]
    OBVIOUS
  <2> QED BY <1>7, <1>8, <2>1
<1>10. it = [s \in SUBSET D |-> IF s = {} THEN base ELSE add(it[s \ {Max(s)}], seq[Max(s)])]
  <2>1. \E iter : iter = [s \in SUBSET D |-> IF s = {} THEN base
                            ELSE add(iter[s \ {Max(s)}], seq[Max(s)])]
    BY <1>9
  <2> QED BY <2>1
<1>11. found = it[D]
  <2>1. DOMAIN seq = D
    BY DEF seq
  <2> QED BY <2>1, Zenon DEF FoldLeft, MapThenFoldSet
<1> HIDE DEF it, found
<1> DEFINE T == {s \in SUBSET D : it[s] \in A}
<1>12. ASSUME NEW s \in SUBSET D, \A r \in SUBSET D : r \subseteq s /\ r # s => r \in T
       PROVE  s \in T
  <2>1. CASE s = {}
    BY <1>3, <1>10, <2>1
  <2>2. CASE s # {}
    <3>1. Max(s) \in s /\ seq[Max(s)] = Max(s)
      BY <1>1, <2>2
    <3>2. it[s] = add(it[s \ {Max(s)}], seq[Max(s)])
      BY <1>10, <2>2
    <3>3. it[s \ {Max(s)}] \in A /\ Max(s) \in D
      BY <1>12, <3>1
    <3>4. it[s] \in A
      BY <1>2, <3>1, <3>2, <3>3
    <3> QED BY <3>4
  <2> QED BY <2>1, <2>2
<1>13. D \in T
  <2> HIDE DEF T
  <2>1. \A s \in SUBSET D : s \in T
    BY <1>4, <1>12, SubsetInduction
  <2> QED BY <2>1
<1>14. found \in A
  BY <1>11, <1>13
<1>15. Shares(t, rank, first) = found
  BY Zenon DEF Shares, found, add, base, seq, main, c, D
<1>16. /\ found \in [Players -> Int]
       /\ \A p \in Players : base[p] <= found[p] /\ (NoSides(t) => found[p] <= due[p])
  BY <1>14 DEF A
<1>17. \A p \in Players : /\ base[p] = (IF p \in main THEN c ELSE NoBet)
                          /\ due[p] = (IF p \in main THEN c ELSE 0)
  BY DEF base, due
<1>18. /\ main # {} /\ main \subseteq StillIn(t) /\ found \in [Players -> Int]
       /\ \A p \in Players : /\ (IF p \in main THEN c ELSE NoBet) <= found[p]
                             /\ NoSides(t) => found[p] <= (IF p \in main THEN c ELSE 0)
  <2> SUFFICES ASSUME NEW p \in Players
               PROVE  /\ (IF p \in main THEN c ELSE NoBet) <= found[p]
                      /\ NoSides(t) => found[p] <= (IF p \in main THEN c ELSE 0)
    BY <1>a, <1>16
  <2>1. base[p] <= found[p] /\ (NoSides(t) => found[p] <= due[p])
    BY <1>16
  <2>2. base[p] = (IF p \in main THEN c ELSE NoBet) /\ due[p] = (IF p \in main THEN c ELSE 0)
    BY <1>17
  <2> QED BY <2>1, <2>2, Zenon
<1> QED BY <1>15, <1>18 DEF main, c

\* One who is left is paid from the side pots only: show_down_with_one_player sets what he
\* wins to the pot and then to 0.
LEMMA AlonePaid ==
    ASSUME NEW t, Sound(t), NEW last
    PROVE  LET final == show_down_with_one_player(t, last)
           IN  final \in [Players -> Int] /\ (NoSides(t) => \A p \in Players : final[p] <= 0)
<1> DEFINE left == IF last \in StillIn(t) THEN {last} ELSE {p \in StillIn(t) : p = CHOOSE q \in StillIn(t) : TRUE}
           D == DOMAIN t.side
           pots(p) == [k \in D |-> t.side[k].players[p] * t.side[k].money]
           final == show_down_with_one_player(t, last)
<1>1. final = [p \in Players |-> IF p \in left THEN SumFunction(pots(p)) ELSE NoBet]
  BY Zenon DEF show_down_with_one_player
<1>2. /\ t.side \in Seq(Pots)
  BY Zenon DEF Sound, Typed
<1>3. IsFiniteSet(D)
  <2>1. D = 1 .. Len(t.side) /\ Len(t.side) \in Nat
    BY <1>2
  <2>2. IsFiniteSet(1 .. Len(t.side))
    BY <2>1, FS_Interval
  <2> QED BY <2>1, <2>2
<1>4. ASSUME NEW p \in Players
      PROVE  SumFunction(pots(p)) \in Int /\ (NoSides(t) => SumFunction(pots(p)) = 0)
  <2>0. ASSUME NEW k \in D
        PROVE  pots(p)[k] \in Int /\ (NoSides(t) => pots(p)[k] = 0)
    <3>1. t.side[k] \in Pots
      BY <1>2
    <3>2. t.side[k].players[p] \in Int /\ t.side[k].money \in Int
      BY <3>1 DEF Pots
    <3> DEFINE a == t.side[k].players[p]
               b == t.side[k].money
    <3>3. pots(p)[k] = a * b
      OBVIOUS
    <3>4. NoSides(t) => b = 0
      BY DEF NoSides
    <3>5. a \in Int /\ b \in Int
      BY <3>2
    <3> HIDE DEF a, b, pots
    <3>6. a * b \in Int /\ a * 0 = 0
      BY <3>5
    <3> QED BY <3>3, <3>4, <3>6
  <2>1. pots(p) = [k \in D |-> pots(p)[k]]
    OBVIOUS
  <2> HIDE DEF pots
  <2>2. pots(p) \in [D -> Int]
    BY <2>0, <2>1
  <2>3. SumFunction(pots(p)) \in Int
    BY <1>3, <2>2, SumInt
  <2>4. ASSUME NoSides(t) PROVE SumFunction(pots(p)) = 0
    <3>1. {} \in SUBSET D /\ 0 \in Int /\ \A k \in D : pots(p)[k] = IF k \in {} THEN 0 ELSE 0
      BY <2>0, <2>4
    <3> HIDE DEF D
    <3>2. SumFunction(pots(p)) = Cardinality({}) * 0
      BY <1>3, <2>2, <3>1, SumSame
    <3>3. Cardinality({}) = 0
      BY FS_EmptySet
    <3> QED BY <3>2, <3>3
  <2> QED BY <2>3, <2>4
<1> HIDE DEF pots, left, final
<1>5. \A p \in Players : final[p] = IF p \in left THEN SumFunction(pots(p)) ELSE NoBet
  BY <1>1
<1>6. \A p \in Players : final[p] \in Int /\ (NoSides(t) => final[p] <= 0)
  <2> SUFFICES ASSUME NEW p \in Players PROVE final[p] \in Int /\ (NoSides(t) => final[p] <= 0)
    OBVIOUS
  <2>1. final[p] = SumFunction(pots(p)) \/ final[p] = -1
    BY <1>5
  <2> QED BY <1>4, <2>1
<1>7. final \in [Players -> Int]
  <2>1. final = [p \in Players |-> final[p]]
    BY <1>1
  <2> QED BY <1>6, <2>1
<1> QED BY <1>6, <1>7 DEF final

\* What show_down_and_award reckons for everybody.
Final(t, rank, first) == IF Alone(t) THEN show_down_with_one_player(t, first) ELSE Shares(t, rank, first)
\* What it pays, which is never less than nothing.
Won(t, rank, first) == [p \in Players |-> Max({Final(t, rank, first)[p], 0})]

\* What is paid at the settlement, to all together: no more than the pot when there are no
\* side pots, and less than it by less than one chip for each player, if more than one is left.
LEMMA PaidOut ==
    ASSUME NEW t, Sound(t), ~Unsettled(t), NEW first,
           NEW N \in Nat, NEW rank \in [InHand(t) -> 1 .. N]
    PROVE  LET won == Won(t, rank, first)
           IN  /\ won \in [Players -> Nat]
               /\ NoSides(t) => SumFunction(won) <= t.t_pot
               /\ ~Alone(t) => t.t_pot - SumFunction(won) < Cardinality(StillIn(t))
<1> DEFINE final == Final(t, rank, first)
           won == Won(t, rank, first)
<1>0. Typed(t) /\ t.t_pot \in Nat /\ IsFiniteSet(Players)
  BY Zenon DEF Sound, Typed, TableAssumption
<1>1. ASSUME NEW x \in Int PROVE Max({x, 0}) \in Nat /\ Max({x, 0}) >= x /\ (Max({x, 0}) = x \/ Max({x, 0}) = 0)
  BY DEF Max
<1>2. ASSUME final \in [Players -> Int]
      PROVE  /\ won \in [Players -> Nat]
             /\ \A p \in Players : won[p] >= final[p] /\ (won[p] = final[p] \/ won[p] = 0)
  <2>0. won = [p \in Players |-> Max({final[p], 0})]
    BY Zenon DEF Won
  <2> HIDE DEF final, won
  <2>1. \A p \in Players : final[p] \in Int
    BY <1>2
  <2>2. \A p \in Players : won[p] = Max({final[p], 0})
    BY <2>0
  <2>3. won = [p \in Players |-> won[p]]
    BY <2>0
  <2> HIDE DEF won
  <2>4. \A p \in Players : won[p] \in Nat /\ won[p] >= final[p] /\ (won[p] = final[p] \/ won[p] = 0)
    BY <1>1, <2>1, <2>2
  <2> QED BY <2>3, <2>4
<1> HIDE DEF won
<1>3. CASE Alone(t)
  <2>1. final = show_down_with_one_player(t, first)
    BY <1>3, Zenon DEF Final
  <2> HIDE DEF final
  <2>2. final \in [Players -> Int] /\ (NoSides(t) => \A p \in Players : final[p] <= 0)
    BY <2>1, AlonePaid
  <2>3. won \in [Players -> Nat] /\ \A p \in Players : won[p] >= final[p] /\ (won[p] = final[p] \/ won[p] = 0)
    BY <1>2, <2>2
  <2>4. ASSUME NoSides(t) PROVE SumFunction(won) <= t.t_pot
    <3>1. \A p \in Players : won[p] = IF p \in {} THEN 0 ELSE 0
      <4> SUFFICES ASSUME NEW p \in Players PROVE won[p] = 0
        OBVIOUS
      <4>1. final[p] <= 0 /\ final[p] \in Int /\ won[p] \in Nat /\ (won[p] = final[p] \/ won[p] = 0)
        BY <2>2, <2>3, <2>4
      <4> QED BY <4>1
    <3>2. {} \in SUBSET Players /\ 0 \in Int /\ won \in [Players -> Int]
      BY <2>3
    <3>3. SumFunction(won) = Cardinality({}) * 0
      BY <1>0, <3>1, <3>2, SumSame
    <3>4. Cardinality({}) = 0
      BY FS_EmptySet
    <3> QED BY <1>0, <3>3, <3>4
  <2> QED BY <1>3, <2>3, <2>4 DEF won, final
<1>4. CASE ~Alone(t)
  <2> DEFINE main == Best(StillIn(t), rank)
             n == Cardinality(main)
             c == t.t_pot \div n
             due == [p \in Players |-> IF p \in main THEN c ELSE 0]
  <2>1. final = Shares(t, rank, first)
    BY <1>4, Zenon DEF Final
  <2> HIDE DEF final
  <2>2. /\ main # {} /\ main \subseteq StillIn(t)
        /\ final \in [Players -> Int]
        /\ \A p \in Players : /\ (IF p \in main THEN c ELSE NoBet) <= final[p]
                              /\ NoSides(t) => final[p] <= (IF p \in main THEN c ELSE 0)
    BY <1>4, <2>1, SharesAre
  <2>3. won \in [Players -> Nat] /\ \A p \in Players : won[p] >= final[p] /\ (won[p] = final[p] \/ won[p] = 0)
    BY <1>2, <2>2
  <2> HIDE DEF main
  <2>4. main \in SUBSET Players /\ StillIn(t) \in SUBSET Players
    BY <2>2 DEF StillIn, With
  <2>5. n \in Nat \ {0} /\ n <= Cardinality(StillIn(t)) /\ Cardinality(StillIn(t)) \in Nat
    <3>1. IsFiniteSet(main) /\ Cardinality(main) \in Nat
      BY <2>4, PlayersFinite
    <3>2. Cardinality(main) # 0
      BY <2>2, <3>1, FS_EmptySet
    <3>3. IsFiniteSet(StillIn(t)) /\ Cardinality(StillIn(t)) \in Nat
      BY <2>4, PlayersFinite
    <3>4. Cardinality(main) <= Cardinality(StillIn(t))
      BY <2>2, <3>3, FS_Subset
    <3> QED BY <3>1, <3>2, <3>3, <3>4
  <2>6. c \in Nat /\ n * c <= t.t_pot /\ t.t_pot - n * c < n
    <3> HIDE DEF n
    <3> QED BY <1>0, <2>5, Quotient
  <2>7. SumFunction(due) = n * c
    <3>1. c \in Int /\ due \in [Players -> Int] /\ \A p \in Players : due[p] = IF p \in main THEN c ELSE 0
      <4> HIDE DEF c
      <4> QED BY <2>6
    <3> HIDE DEF due, c
    <3> QED BY <1>0, <2>4, <3>1, SumSame
  <2>8. due \in [Players -> Int] /\ won \in [Players -> Int]
    <3> HIDE DEF c
    <3> QED BY <2>3, <2>6
  <2>9. \A p \in Players : due[p] = IF p \in main THEN c ELSE 0
    OBVIOUS
  <2> HIDE DEF due, c, n
  <2>10. SumFunction(due) <= SumFunction(won)
    <3>1. \A p \in Players : due[p] <= won[p]
      <4> SUFFICES ASSUME NEW p \in Players PROVE due[p] <= won[p]
        OBVIOUS
      <4>1. won[p] \in Nat /\ won[p] >= final[p] /\ final[p] \in Int
        BY <2>2, <2>3
      <4>2. CASE p \in main
        BY <2>2, <2>6, <2>9, <4>1, <4>2
      <4>3. CASE p \notin main
        BY <2>9, <4>1, <4>3
      <4> QED BY <4>2, <4>3
    <3> QED BY <1>0, <2>8, <3>1, SumLeq
  <2>11. ASSUME NoSides(t) PROVE SumFunction(won) <= SumFunction(due)
    <3>1. \A p \in Players : won[p] <= due[p]
      <4> SUFFICES ASSUME NEW p \in Players PROVE won[p] <= due[p]
        OBVIOUS
      <4>1. won[p] \in Nat /\ (won[p] = final[p] \/ won[p] = 0) /\ final[p] \in Int
        BY <2>2, <2>3
      <4>2. CASE p \in main
        BY <2>2, <2>6, <2>9, <2>11, <4>1, <4>2
      <4>3. CASE p \notin main
        BY <2>2, <2>9, <2>11, <4>1, <4>3
      <4> QED BY <4>2, <4>3
    <3> QED BY <1>0, <2>8, <3>1, SumLeq
  <2>12. SumFunction(won) \in Int
    BY <1>0, <2>8, SumInt
  <2> DEFINE q == n * c
  <2>13. q \in Int /\ SumFunction(due) = q /\ q <= t.t_pot /\ t.t_pot - q < n
    BY <2>5, <2>6, <2>7
  <2> HIDE DEF q
  <2>14. t.t_pot - SumFunction(won) < Cardinality(StillIn(t))
    BY <1>0, <2>5, <2>10, <2>12, <2>13
  <2>15. NoSides(t) => SumFunction(won) <= t.t_pot
    BY <1>0, <2>11, <2>12, <2>13
  <2> QED BY <2>3, <2>14, <2>15 DEF won, final
<1> QED BY <1>3, <1>4

\* Every outcome of the comparison gives each of those dealt in a rank.
LEMMA RanksIs ==
    ASSUME NEW t, t.t_status = SHOW_DOWN, ~t.award, ~t.err, NEW rank \in Ranks(t)
    PROVE  \E N \in Nat : rank \in [InHand(t) -> 1 .. N]
<1>1. Ranks(t) = {rk \in [InHand(t) -> 1 .. Cardinality(InHand(t))] :
                    \A p \in InHand(t) : rk[p] = 1 \/ \E q \in InHand(t) : rk[q] = rk[p] - 1}
  <2> DEFINE P == {p \in AtTable(t) : t.t_player[p] # "WAITING"}
  <2>1. Ranks(t) = IF t.t_status # SHOW_DOWN \/ t.award \/ t.err THEN {<<>>}
                   ELSE {rk \in [P -> 1 .. Cardinality(P)] :
                           \A p \in P : rk[p] = 1 \/ \E q \in P : rk[q] = rk[p] - 1}
    BY Zenon DEF Ranks
  <2>2. P = InHand(t)
    BY DEF InHand
  <2> HIDE DEF P
  <2> QED BY <2>1, <2>2, Zenon
<1>2. rank \in [InHand(t) -> 1 .. Cardinality(InHand(t))]
  BY <1>1, Zenon
<1>3. Cardinality(InHand(t)) \in Nat
  <2>1. InHand(t) \in SUBSET Players
    BY DEF InHand, AtTable
  <2> QED BY <2>1, PlayersFinite
<1> QED BY <1>2, <1>3

\* The settlement raises an error and pays nothing, or pays what the properties say.
Settled(t, r) ==
    \/ Kept(t, r)
    \/ /\ r.award
       /\ Coins(r) > Total(t) => \E k \in DOMAIN r.side : r.side[k].money > 0
       /\ Coins(r) < Total(t) => Alone(r) \/ Total(t) - Coins(r) < Cardinality(StillIn(r))

\* That is what show_down_and_award does.
LEMMA AwardSettled ==
    ASSUME NEW t, Sound(t), t.t_status = SHOW_DOWN, ~t.award, ~t.err, NEW rank \in Ranks(t), NEW first
    PROVE  LET r == show_down_and_award(t, rank, first) IN Sound(r) /\ Settled(t, r)
<1> DEFINE t1 == IF t.gen = <<>> THEN t ELSE cal_side_pot(t)
           final == IF Alone(t1) THEN show_down_with_one_player(t1, first) ELSE Shares(t1, rank, first)
           won == Won(t1, rank, first)
           money == [p \in Players |-> t1.money[p] + Max({final[p], 0})]
           t2 == [t1 EXCEPT !.money = [p \in Players |-> @[p] + Max({final[p], 0})],
                            !.award = TRUE, !.due = FALSE]
           r == show_down_and_award(t, rank, first)
<1>1. r = IF Unsettled(t1) THEN Error(t1) ELSE t2
  BY Zenon DEF show_down_and_award
<1>2. t2 = [t1 EXCEPT !.money = money, !.award = TRUE, !.due = FALSE]
  BY Zenon
<1> HIDE DEF r, t2
<1>3. /\ Sound(t1) /\ Kept(t, t1) /\ t1.t_player = t.t_player /\ t1.t_status = SHOW_DOWN
  <2>1. CASE t.gen = <<>>
    <3>1. t1 = t
      BY <2>1
    <3> HIDE DEF t1
    <3> QED BY <3>1 DEF Kept
  <2>2. CASE t.gen # <<>>
    <3>1. t1 = cal_side_pot(t)
      BY <2>2
    <3> HIDE DEF t1
    <3> QED BY <3>1, SidePotsSound
  <2> QED BY <2>1, <2>2
<1> HIDE DEF t1
<1>4. CASE Unsettled(t1)
  <2>1. r = Error(t1)
    BY <1>1, <1>4, Zenon
  <2>2. Typed(t1)
    BY <1>3, Zenon DEF Sound
  <2>3. Sound(r) /\ Same(t1, r) /\ r.money = t1.money /\ r.t_pot = t1.t_pot
    BY <1>3, <2>1, <2>2, ErrorSound
  <2>4. Kept(t, r)
    BY <1>3, <2>3 DEF Kept, Same
  <2> QED BY <2>3, <2>4 DEF r, Settled
<1>5. CASE ~Unsettled(t1)
  <2>1. r = t2
    BY <1>1, <1>5, Zenon
  <2>2. PICK N \in Nat : rank \in [InHand(t1) -> 1 .. N]
    <3>1. InHand(t1) = InHand(t)
      BY <1>3 DEF InHand, AtTable
    <3>2. \E N \in Nat : rank \in [InHand(t) -> 1 .. N]
      BY RanksIs
    <3> QED BY <3>1, <3>2
  <2>3. /\ won \in [Players -> Nat]
        /\ NoSides(t1) => SumFunction(won) <= t1.t_pot
        /\ ~Alone(t1) => t1.t_pot - SumFunction(won) < Cardinality(StillIn(t1))
    <3>1. Sound(t1) /\ ~Unsettled(t1) /\ N \in Nat /\ rank \in [InHand(t1) -> 1 .. N]
      BY <1>3, <1>5, <2>2
    <3> QED BY <3>1, PaidOut
  <2>4. \A p \in Players : won[p] = Max({final[p], 0}) /\ money[p] = t1.money[p] + Max({final[p], 0})
    <3>1. final = Final(t1, rank, first)
      BY Zenon DEF Final
    <3> HIDE DEF final
    <3>2. won = [p \in Players |-> Max({final[p], 0})]
      BY <3>1, Zenon DEF Won
    <3> HIDE DEF won
    <3> QED BY <3>2
  <2>5. Typed(t1) /\ DOMAIN t1 = Fields /\ t1.money \in [Players -> Nat] /\ t1.t_pot \in Nat
    BY <1>3, Zenon DEF Sound, Typed
  <2>6. money = [p \in Players |-> money[p]]
    OBVIOUS
  <2> HIDE DEF won, money, final
  <2>7. \A p \in Players : money[p] = t1.money[p] + won[p]
    BY <2>4
  <2>8. money \in [Players -> Nat]
    <3>1. \A p \in Players : money[p] \in Nat
      BY <2>3, <2>5, <2>7
    <3> QED BY <2>6, <3>1
  <2>9. SumFunction(money) = SumFunction(t1.money) + SumFunction(won)
    <3>1. IsFiniteSet(Players) /\ money \in [Players -> Int] /\ t1.money \in [Players -> Int]
          /\ won \in [Players -> Int]
      BY <2>3, <2>5, <2>8
    <3> QED BY <2>7, <3>1, SumAdd
  <2>10. /\ DOMAIN t2 = Fields /\ t2.money = money /\ t2.award = TRUE /\ t2.due = FALSE
         /\ t2.chair = t1.chair /\ t2.t_player = t1.t_player /\ t2.cards = t1.cards
         /\ t2.t_bet = t1.t_bet /\ t2.t_status = t1.t_status /\ t2.ready = t1.ready
         /\ t2.t_pot = t1.t_pot /\ t2.max = t1.max /\ t2.play = t1.play
         /\ t2.pass = t1.pass /\ t2.count = t1.count /\ t2.gen = t1.gen
         /\ t2.side = t1.side /\ t2.active = t1.active /\ t2.next = t1.next
         /\ t2.SB = t1.SB /\ t2.BB = t1.BB /\ t2.button = t1.button /\ t2.told = t1.told
         /\ t2.err = t1.err
    BY <1>2, <2>5 DEF Fields
  <2>11. t2.due \in BOOLEAN /\ t2.award \in BOOLEAN
    BY <2>10, Zenon
  <2>12. Typed(t2)
    BY <2>5, <2>8, <2>10, <2>11, Zenon DEF Typed
  <2>13. t2.t_status = SHOW_DOWN /\ t2.t_status # WAITING
    BY <1>3, <2>10
  <2>14. Sound(t2)
    BY <1>3, <2>10, <2>12, <2>13 DEF Sound, Highest, Owed, Idle, Awarded, Dealt
  <2>15. Coins(t2) = Coins(t1) + SumFunction(won) /\ Coins(t1) \in Int /\ SumFunction(won) \in Int
    <3>1. IsFiniteSet(Players) /\ won \in [Players -> Int]
      BY <2>3
    <3>2. SumFunction(won) \in Int
      BY <3>1, SumInt
    <3> QED BY <2>5, <2>9, <2>10, <3>2, CoinsInt DEF Coins
  <2>16. Total(t) = Coins(t1) + t1.t_pot
    BY <1>3 DEF Total, Coins, Kept
  <2>17. ASSUME Coins(t2) > Total(t) PROVE \E k \in DOMAIN t2.side : t2.side[k].money > 0
    <3>1. ~NoSides(t1)
      BY <2>3, <2>5, <2>15, <2>16, <2>17
    <3>2. PICK k \in DOMAIN t1.side : t1.side[k].money # 0
      BY <3>1 DEF NoSides
    <3>3. t1.side[k].money >= 0 /\ t1.side[k].money \in Int
      <4>1. t1.side \in Seq(Pots)
        BY <2>5, Zenon DEF Typed
      <4>2. t1.side[k] \in Pots
        BY <4>1
      <4> QED BY <1>3, <4>2 DEF Sound, Owed, Pots
    <3>4. t1.side[k].money > 0
      BY <3>2, <3>3
    <3> QED BY <2>10, <3>4
  <2>18. Alone(t2) = Alone(t1) /\ StillIn(t2) = StillIn(t1)
    <3>1. StillIn(t2) = StillIn(t1)
      BY <2>10 DEF StillIn, With
    <3> QED BY <2>10, <3>1 DEF Alone
  <2>19. ASSUME ~Alone(t2) PROVE Total(t) - Coins(t2) < Cardinality(StillIn(t2))
    <3>1. t1.t_pot - SumFunction(won) < Cardinality(StillIn(t2))
      BY <2>3, <2>18, <2>19
    <3>2. Total(t) - Coins(t2) = t1.t_pot - SumFunction(won)
      BY <2>5, <2>15, <2>16
    <3> QED BY <3>1, <3>2
  <2>20. Settled(t, t2)
    BY <2>10, <2>17, <2>19 DEF Settled
  <2> QED BY <2>1, <2>14, <2>20 DEF r
<1> QED BY <1>4, <1>5

\* What the second half of a tick does to what there is to be paid: nothing, the
\* settlement, or the pot is put aside when it has been paid.
LEMMA EndsSound ==
    ASSUME NEW t, Sound(t), NEW rank \in Ranks(t), NEW first
    PROVE  LET r == Ends(t, rank, first)
           IN  /\ Sound(r)
               /\ \/ Kept(t, r) /\ r.t_status = t.t_status
                  \/ t.award /\ r.award = FALSE /\ r.t_pot = 0 /\ r.money = t.money
                  \/ ~t.award /\ t.t_status = SHOW_DOWN /\ Settled(t, r)
<1> DEFINE r == Ends(t, rank, first)
<1>1. r = IF t.err \/ t.t_status # SHOW_DOWN THEN t
          ELSE IF t.award THEN info_ready_to_all(t)
          ELSE show_down_and_award(t, rank, first)
  BY Zenon DEF Ends
<1> HIDE DEF r
<1>2. CASE t.err \/ t.t_status # SHOW_DOWN
  <2>1. r = t
    BY <1>1, <1>2, Zenon
  <2> QED BY <2>1 DEF r, Kept
<1>3. CASE ~t.err /\ t.t_status = SHOW_DOWN /\ t.award
  <2>1. r = info_ready_to_all(t)
    BY <1>1, <1>3, Zenon
  <2>2. Sound(r) /\ r.money = t.money /\ (r = t \/ (r.award = FALSE /\ r.t_pot = 0))
    BY <2>1, ReadySound
  <2> QED BY <1>3, <2>2 DEF r, Kept
<1>4. CASE ~t.err /\ t.t_status = SHOW_DOWN /\ ~t.award
  <2>1. r = show_down_and_award(t, rank, first)
    BY <1>1, <1>4, Zenon
  <2>2. Sound(r) /\ Settled(t, r)
    BY <1>4, <2>1, AwardSettled
  <2> QED BY <1>4, <2>2 DEF r
<1> QED BY <1>2, <1>3, <1>4

-----------------------------------------------------------------------------
(* The actions.                                                            *)

\* Taking a chair pays and takes nothing.
LEMMA ChairSound ==
    ASSUME NEW t, Sound(t), NEW p \in Players, NEW c \in 1 .. Chairs
    PROVE  LET r == [t EXCEPT !.chair[p] = c] IN Sound(r) /\ Kept(t, r)
<1> DEFINE r == [t EXCEPT !.chair[p] = c]
<1>1. /\ DOMAIN t = Fields /\ t.chair \in [Players -> 0 .. Chairs] /\ t.pass \in Nat /\ t.play \in Int
      /\ t.t_player \in [Players -> {"nil", "WAITING", "GAME", "ALL_IN", "FOLD"}]
  BY Zenon DEF Sound, Typed
<1>2. /\ DOMAIN r = Fields /\ r.chair = [t.chair EXCEPT ![p] = c]
      /\ r.money = t.money /\ r.t_player = t.t_player /\ r.cards = t.cards
      /\ r.t_bet = t.t_bet /\ r.t_status = t.t_status /\ r.due = t.due
      /\ r.ready = t.ready /\ r.award = t.award /\ r.t_pot = t.t_pot /\ r.max = t.max
      /\ r.play = t.play /\ r.pass = t.pass /\ r.count = t.count /\ r.gen = t.gen
      /\ r.side = t.side /\ r.active = t.active /\ r.next = t.next /\ r.SB = t.SB
      /\ r.BB = t.BB /\ r.button = t.button /\ r.told = t.told /\ r.err = t.err
  BY <1>1 DEF Fields
<1> HIDE DEF r
<1>3. r.chair \in [Players -> 0 .. Chairs]
  BY <1>1, <1>2
<1>4. Typed(r)
  BY <1>2, <1>3, Zenon DEF Sound, Typed
<1>5. Sound(r)
  BY <1>1, <1>2, <1>4 DEF Sound, Highest, Owed, Idle, Awarded, Dealt, AtTable
<1> QED BY <1>2, <1>5 DEF r, Kept

\* Nor does passing.
LEMMA PassSound ==
    ASSUME NEW t, Sound(t)
    PROVE  LET r == [t EXCEPT !.pass = @ + 1] IN Sound(r) /\ Kept(t, r)
<1> DEFINE r == [t EXCEPT !.pass = @ + 1]
<1>1. /\ DOMAIN t = Fields /\ t.chair \in [Players -> 0 .. Chairs] /\ t.pass \in Nat /\ t.play \in Int
      /\ t.t_player \in [Players -> {"nil", "WAITING", "GAME", "ALL_IN", "FOLD"}]
  BY Zenon DEF Sound, Typed
<1>2. /\ DOMAIN r = Fields /\ r.pass = t.pass + 1
      /\ r.chair = t.chair /\ r.money = t.money /\ r.t_player = t.t_player
      /\ r.cards = t.cards /\ r.t_bet = t.t_bet /\ r.t_status = t.t_status
      /\ r.due = t.due /\ r.ready = t.ready /\ r.award = t.award /\ r.t_pot = t.t_pot
      /\ r.max = t.max /\ r.play = t.play /\ r.count = t.count /\ r.gen = t.gen
      /\ r.side = t.side /\ r.active = t.active /\ r.next = t.next /\ r.SB = t.SB
      /\ r.BB = t.BB /\ r.button = t.button /\ r.told = t.told /\ r.err = t.err
  BY <1>1 DEF Fields
<1> HIDE DEF r
<1>3. r.pass \in Nat
  BY <1>1, <1>2
<1>4. Typed(r)
  BY <1>2, <1>3, Zenon DEF Sound, Typed
<1>5. Sound(r)
  BY <1>1, <1>2, <1>4 DEF Sound, Highest, Owed, Idle, Awarded, Dealt, AtTable
<1> QED BY <1>2, <1>5 DEF r, Kept

\* Nor does being told no more to think.
LEMMA ToldSound ==
    ASSUME NEW t, Sound(t)
    PROVE  LET r == [t EXCEPT !.told = None] IN Sound(r) /\ Kept(t, r)
<1> DEFINE r == [t EXCEPT !.told = None]
<1>1. /\ DOMAIN t = Fields /\ t.chair \in [Players -> 0 .. Chairs] /\ t.pass \in Nat /\ t.play \in Int
      /\ t.t_player \in [Players -> {"nil", "WAITING", "GAME", "ALL_IN", "FOLD"}]
  BY Zenon DEF Sound, Typed
<1>2. /\ DOMAIN r = Fields /\ r.told = None
      /\ r.chair = t.chair /\ r.money = t.money /\ r.t_player = t.t_player
      /\ r.cards = t.cards /\ r.t_bet = t.t_bet /\ r.t_status = t.t_status
      /\ r.due = t.due /\ r.ready = t.ready /\ r.award = t.award /\ r.t_pot = t.t_pot
      /\ r.max = t.max /\ r.play = t.play /\ r.pass = t.pass /\ r.count = t.count
      /\ r.gen = t.gen /\ r.side = t.side /\ r.active = t.active /\ r.next = t.next
      /\ r.SB = t.SB /\ r.BB = t.BB /\ r.button = t.button /\ r.err = t.err
  BY <1>1 DEF Fields
<1> HIDE DEF r
<1>3. r.told \in Players \union {None}
  BY <1>1, <1>2
<1>4. Typed(r)
  BY <1>2, <1>3, Zenon DEF Sound, Typed
<1>5. Sound(r)
  BY <1>1, <1>2, <1>4 DEF Sound, Highest, Owed, Idle, Awarded, Dealt, AtTable
<1> QED BY <1>2, <1>5 DEF r, Kept

\* Nor does folding.
LEMMA FoldSound ==
    ASSUME NEW t, Sound(t), t.t_status # WAITING, NEW p \in Players
    PROVE  LET r == [t EXCEPT !.t_player[p] = "FOLD", !.play = @ - 1] IN Sound(r) /\ Kept(t, r)
<1> DEFINE r == [t EXCEPT !.t_player[p] = "FOLD", !.play = @ - 1]
<1>1. /\ DOMAIN t = Fields /\ t.chair \in [Players -> 0 .. Chairs] /\ t.pass \in Nat /\ t.play \in Int
      /\ t.t_player \in [Players -> {"nil", "WAITING", "GAME", "ALL_IN", "FOLD"}]
  BY Zenon DEF Sound, Typed
<1>2. /\ DOMAIN r = Fields /\ r.t_player = [t.t_player EXCEPT ![p] = "FOLD"] /\ r.play = t.play - 1
      /\ r.chair = t.chair /\ r.money = t.money /\ r.cards = t.cards
      /\ r.t_bet = t.t_bet /\ r.t_status = t.t_status /\ r.due = t.due
      /\ r.ready = t.ready /\ r.award = t.award /\ r.t_pot = t.t_pot /\ r.max = t.max
      /\ r.pass = t.pass /\ r.count = t.count /\ r.gen = t.gen /\ r.side = t.side
      /\ r.active = t.active /\ r.next = t.next /\ r.SB = t.SB /\ r.BB = t.BB
      /\ r.button = t.button /\ r.told = t.told /\ r.err = t.err
  BY <1>1 DEF Fields
<1> HIDE DEF r
<1>3. r.play \in Int /\ r.t_player \in [Players -> {"nil", "WAITING", "GAME", "ALL_IN", "FOLD"}]
  BY <1>1, <1>2
<1>4. Typed(r)
  BY <1>2, <1>3, Zenon DEF Sound, Typed
<1>5. Sound(r)
  BY <1>1, <1>2, <1>4 DEF Sound, Highest, Owed, Idle, Awarded, Dealt
<1> QED BY <1>2, <1>5 DEF r, Kept

\* An error is gone with the handler it has ended.
LEMMA AfterSound ==
    ASSUME NEW t, Sound(t)
    PROVE  LET r == After(t)
           IN  /\ Sound(r) /\ Kept(t, r) /\ r.err = FALSE
               /\ r.t_status = t.t_status /\ r.side = t.side /\ r.count = t.count
               /\ r.t_player = t.t_player /\ r.chair = t.chair
<1> DEFINE r == After(t)
<1>1. DOMAIN t = Fields
  BY Zenon DEF Sound, Typed
<1>2. /\ DOMAIN r = Fields /\ r.err = FALSE
      /\ r.chair = t.chair /\ r.money = t.money /\ r.t_player = t.t_player
      /\ r.cards = t.cards /\ r.t_bet = t.t_bet /\ r.t_status = t.t_status
      /\ r.due = t.due /\ r.ready = t.ready /\ r.award = t.award /\ r.t_pot = t.t_pot
      /\ r.max = t.max /\ r.play = t.play /\ r.pass = t.pass /\ r.count = t.count
      /\ r.gen = t.gen /\ r.side = t.side /\ r.active = t.active /\ r.next = t.next
      /\ r.SB = t.SB /\ r.BB = t.BB /\ r.button = t.button /\ r.told = t.told
  BY <1>1 DEF After, Fields
<1> HIDE DEF r
<1>3. r.err \in BOOLEAN
  BY <1>2, Zenon
<1>4. Typed(r)
  BY <1>2, <1>3, Zenon DEF Sound, Typed
<1>5. Sound(r)
  BY <1>2, <1>4 DEF Sound, Highest, Owed, Idle, Awarded, Dealt, AtTable
<1> QED BY <1>2, <1>5 DEF r, Kept

\* The invariant: between two handlers the table is sound and there is no error.
IInv ==
    /\ Sound(self) /\ self.err = FALSE
    /\ coming \in 0 .. MaxComing /\ hands \in 0 .. MaxHands

\* The step of ChipsMade.
Gains ==
    Chips' > Chips =>
         \/ Settles /\ \E k \in DOMAIN self'.side : self'.side[k].money > 0
         \/ self.t_status = WAITING /\ self'.t_status = PRE_FLOP
            /\ \E p \in Players :
                 /\ self.chair[p] \in {self.SB.chair, self.BB.chair} \ {0}
                 /\ self.money[p] < Big + (IF self.SB.chair = self.BB.chair THEN Small ELSE 0)

\* The step of ChipsLost.
Loses ==
    Chips' < Chips =>
         \/ Settles /\ (Alone(self') \/ Chips - Chips' < Cardinality(StillIn(self')))
         \/ ~self.award /\ \E p \in Players : self.chair[p] # 0 /\ self'.chair[p] = 0 /\ self.count <= 1
         \/ self.award /\ (self.told # None \/ ~check_next_round(self))

\* What is there to be paid of a table: the pot is not, once it has been paid.
LEMMA ChipsAre ==
    ASSUME Sound(self), Sound(self')
    PROVE  /\ Chips = (IF self.award THEN Coins(self) ELSE Total(self))
           /\ Chips' = (IF self'.award THEN Coins(self') ELSE Total(self'))
           /\ Coins(self) \in Int /\ Coins(self') \in Int
           /\ Total(self) \in Int /\ Total(self') \in Int
           /\ self.t_pot \in Nat /\ self'.t_pot \in Nat
<1>1. ASSUME NEW t, Sound(t)
      PROVE  Coins(t) \in Int /\ t.t_pot \in Nat /\ Total(t) \in Int
  <2>1. Typed(t) /\ t.t_pot \in Nat
    BY <1>1, Zenon DEF Sound, Typed
  <2>2. Coins(t) \in Int
    BY <2>1, CoinsInt
  <2> QED BY <2>1, <2>2 DEF Total
<1>2. Coins(self) \in Int /\ self.t_pot \in Nat /\ Total(self) \in Int
  BY <1>1
<1>3. Coins(self') \in Int /\ self'.t_pot \in Nat /\ Total(self') \in Int
  BY <1>1
<1>4. Chips = Coins(self) + (IF self.award THEN 0 ELSE self.t_pot)
  BY DEF Chips, Coins
<1>5. Chips' = Coins(self') + (IF self'.award THEN 0 ELSE self'.t_pot)
  BY DEF Chips, Coins
<1>6. Chips = (IF self.award THEN Coins(self) ELSE Total(self))
  BY <1>2, <1>4 DEF Total
<1>7. Chips' = (IF self'.award THEN Coins(self') ELSE Total(self'))
  BY <1>3, <1>5 DEF Total
<1> QED BY <1>2, <1>3, <1>6, <1>7

\* A step that keeps what is there neither gains nor loses.
LEMMA ChipsKept ==
    ASSUME Sound(self), Sound(self'), Kept(self, self')
    PROVE  Gains /\ Loses
<1>1. Coins(self') = Coins(self) /\ Total(self') = Total(self) /\ self'.award = self.award
  BY DEF Kept, Coins, Total
<1>2. Chips' = Chips /\ Chips \in Int
  BY <1>1, ChipsAre
<1>3. ~(Chips' > Chips) /\ ~(Chips' < Chips)
  BY <1>2
<1> QED BY <1>3, Zenon DEF Gains, Loses

\* enter_room_and_sit_down: the player takes the first free chair.
LEMMA SitsDown ==
    ASSUME IInv, NEW p \in Players, PlayerSitDown(p) PROVE IInv' /\ Gains /\ Loses
<1>1. PICK c \in 1 .. Chairs : self' = After([self EXCEPT !.chair[p] = c])
  BY DEF PlayerSitDown, Step
<1> DEFINE t == [self EXCEPT !.chair[p] = c]
<1>2. Sound(t) /\ Kept(self, t)
  BY ChairSound DEF IInv
<1> HIDE DEF t
<1>3. Sound(self') /\ Kept(t, self') /\ self'.err = FALSE
  BY <1>1, <1>2, AfterSound DEF t
<1>4. Kept(self, self')
  BY <1>2, <1>3 DEF Kept
<1>5. IInv'
  BY <1>3 DEF IInv, PlayerSitDown
<1> QED BY <1>3, <1>4, <1>5, ChipsKept DEF IInv

\* CS_TexasEnterTable: he is counted, and may be the one the table has waited for.
LEMMA Enters ==
    ASSUME IInv, NEW p \in Players, EnterTable(p) PROVE IInv' /\ Gains /\ Loses
<1>1. self' = After(do_sit_down(self, p))
  BY DEF EnterTable, Step
<1> DEFINE t == do_sit_down(self, p)
<1>2. Sound(t) /\ Kept(self, t)
  BY SitDownSound DEF IInv
<1> HIDE DEF t
<1>3. Sound(self') /\ Kept(t, self') /\ self'.err = FALSE
  BY <1>1, <1>2, AfterSound DEF t
<1>4. Kept(self, self')
  BY <1>2, <1>3 DEF Kept
<1>5. IInv'
  BY <1>3 DEF IInv, EnterTable
<1> QED BY <1>3, <1>4, <1>5, ChipsKept DEF IInv

\* change_table: who comes from another table takes the first free chair and is counted at once.
LEMMA Changes ==
    ASSUME IInv, NEW p \in Players, ChangeTable(p) PROVE IInv' /\ Gains /\ Loses
<1>1. PICK c \in 1 .. Chairs : self' = After(do_sit_down([self EXCEPT !.chair[p] = c], p))
  BY DEF ChangeTable, Step
<1> DEFINE t == [self EXCEPT !.chair[p] = c]
           s == do_sit_down(t, p)
<1>2. Sound(t) /\ Kept(self, t)
  BY ChairSound DEF IInv
<1> HIDE DEF t
<1>3. Sound(s) /\ Kept(t, s)
  BY <1>2, SitDownSound
<1> HIDE DEF s
<1>4. Sound(self') /\ Kept(s, self') /\ self'.err = FALSE
  BY <1>1, <1>3, AfterSound DEF s, t
<1>5. Kept(self, self')
  BY <1>2, <1>3, <1>4 DEF Kept
<1>6. IInv'
  BY <1>4 DEF IInv, ChangeTable
<1> QED BY <1>4, <1>5, <1>6, ChipsKept DEF IInv

\* player_stand_up: he leaves, and with the last who is counted the pot may go.
LEMMA StandsUp ==
    ASSUME IInv, NEW p \in Players, StandUp(p) PROVE IInv' /\ Gains /\ Loses
<1>1. PICK due \in {TRUE, self.due} : self' = After(player_stand_up([self EXCEPT !.due = due], p))
  BY DEF StandUp, Step
<1>2. due \in BOOLEAN
  BY DEF IInv, Sound, Typed
<1> DEFINE t == [self EXCEPT !.due = due]
           s == player_stand_up(t, p)
<1>3. Sound(t) /\ Kept(self, t) /\ t.count = self.count
  BY <1>2, DueSound DEF IInv
<1> HIDE DEF t
<1>4. /\ Sound(s) /\ s.money = t.money /\ s.chair[p] = 0
      /\ Kept(t, s) \/ (s.award = FALSE /\ s.t_pot = 0 /\ (t.count <= 1 \/ t.t_pot = 0))
  BY <1>3, StandUpSound
<1> HIDE DEF s
<1>5. Sound(self') /\ Kept(s, self') /\ self'.err = FALSE /\ self'.chair = s.chair
  BY <1>1, <1>4, AfterSound DEF s, t
<1>6. IInv'
  BY <1>5 DEF IInv, StandUp
<1>7. CASE Kept(t, s)
  <2>1. Kept(self, self')
    BY <1>3, <1>5, <1>7 DEF Kept
  <2> QED BY <1>5, <1>6, <2>1, ChipsKept DEF IInv
<1>8. CASE s.award = FALSE /\ s.t_pot = 0 /\ (t.count <= 1 \/ t.t_pot = 0)
  <2>1. self'.award = FALSE /\ self'.t_pot = 0 /\ Coins(self') = Coins(self)
    BY <1>3, <1>4, <1>5, <1>8 DEF Kept, Coins
  <2>2. Chips' = Coins(self) /\ Coins(self) \in Int /\ self.t_pot \in Nat
        /\ Chips = (IF self.award THEN Coins(self) ELSE Total(self))
    BY <1>5, <2>1, ChipsAre DEF IInv, Total
  <2>3. Chips = Coins(self) \/ (~self.award /\ Chips = Coins(self) + self.t_pot)
    BY <2>2 DEF Total
  <2>4. ~(Chips' > Chips)
    BY <2>2, <2>3
  <2>5. ASSUME Chips' < Chips PROVE ~self.award /\ self.count <= 1
    <3>1. ~self.award /\ self.t_pot # 0
      BY <2>2, <2>3, <2>5
    <3> QED BY <1>3, <1>8, <3>1 DEF Kept
  <2>6. self.chair[p] # 0 /\ self'.chair[p] = 0
    BY <1>4, <1>5 DEF StandUp
  <2>7. Gains
    BY <2>4, Zenon DEF Gains
  <2>8. Loses
    BY <2>5, <2>6, Zenon DEF Loses
  <2> QED BY <1>6, <2>7, <2>8
<1> QED BY <1>4, <1>7, <1>8

\* It is nobody's turn while the table waits.
LEMMA TurnsAreGames ==
    ASSUME IInv, NEW p \in Players, self.told = p PROVE self.t_status # WAITING
BY DEF IInv, Sound, Idle

\* A player who has been told to think does something that moves chips to the pot, and
\* the turn is passed.
LEMMA Acts ==
    ASSUME IInv, NEW p \in Players, NEW t, Sound(t), Moved(self, t), Act(p, t)
    PROVE  IInv' /\ Gains /\ Loses
<1> DEFINE t1 == [t EXCEPT !.told = None]
           s == IF t.err THEN t1 ELSE set_next_player(t1)
<1>1. self' = After(s) /\ self.told = p /\ UNCHANGED <<coming, hands>>
  BY Zenon DEF Act, Step
<1>2. Sound(t1) /\ Kept(t, t1)
  BY ToldSound
<1> HIDE DEF t1
<1>3. Sound(s) /\ Kept(t, s)
  <2>1. Sound(set_next_player(t1)) /\ Kept(t1, set_next_player(t1))
    BY <1>2, SetNextSound
  <2>2. CASE t.err
    <3>1. s = t1
      BY <2>2
    <3> HIDE DEF s
    <3> QED BY <1>2, <3>1
  <2>3. CASE ~t.err
    <3>1. s = set_next_player(t1)
      BY <2>3
    <3> HIDE DEF s
    <3> QED BY <1>2, <2>1, <3>1 DEF Kept
  <2> QED BY <2>2, <2>3
<1> HIDE DEF s
<1>4. Sound(self') /\ Kept(s, self') /\ self'.err = FALSE
  BY <1>1, <1>3, AfterSound
<1>5. IInv'
  BY <1>1, <1>4 DEF IInv
<1>6. self'.award = self.award /\ Total(self') = Total(self) /\ Coins(self') <= Coins(self)
  <2>1. self'.money = t.money /\ self'.t_pot = t.t_pot /\ self'.award = t.award
    BY <1>3, <1>4 DEF Kept
  <2>2. Coins(self') = Coins(t) /\ Total(self') = Total(t)
    BY <2>1 DEF Coins, Total
  <2>3. t.award = self.award /\ Total(t) = Total(self) /\ Coins(t) <= Coins(self)
    BY DEF Moved, Total
  <2> QED BY <2>1, <2>2, <2>3
<1>7. Chips' <= Chips /\ (~self.award => Chips' = Chips) /\ Chips \in Int /\ Chips' \in Int
  <2>1. /\ Chips = (IF self.award THEN Coins(self) ELSE Total(self))
        /\ Chips' = (IF self'.award THEN Coins(self') ELSE Total(self'))
        /\ Coins(self) \in Int /\ Coins(self') \in Int
        /\ Total(self) \in Int /\ Total(self') \in Int
    BY <1>4, ChipsAre DEF IInv
  <2>2. CASE self.award
    BY <1>6, <2>1, <2>2
  <2>3. CASE ~self.award
    BY <1>6, <2>1, <2>3
  <2> QED BY <2>2, <2>3
<1>8. ~(Chips' > Chips) /\ (Chips' < Chips => self.award)
  BY <1>7
<1>9. self.told # None
  BY <1>1
<1>10. Gains /\ Loses
  BY <1>8, <1>9, Zenon DEF Gains, Loses
<1> QED BY <1>5, <1>10

\* What keeps the chips where they are moves none out of the table.
LEMMA KeptMoved ==
    ASSUME NEW t, Sound(t), NEW r, Kept(t, r), r.t_status = t.t_status, r.told = t.told PROVE Moved(t, r)
<1>1. Coins(r) = Coins(t) /\ Coins(t) \in Int
  <2>1. Typed(t)
    BY Zenon DEF Sound
  <2> QED BY <2>1, KeptCoins
<1> QED BY <1>1 DEF Kept, Moved

\* ACT_CHECK.
LEMMA Checks ==
    ASSUME IInv, NEW p \in Players, Check(p) PROVE IInv' /\ Gains /\ Loses
<1> DEFINE t == [self EXCEPT !.pass = @ + 1]
<1>1. Act(p, t)
  BY Zenon DEF Check
<1>2. Sound(self) /\ DOMAIN self = Fields
  BY DEF IInv, Sound, Typed
<1>3. t.t_status = self.t_status /\ t.told = self.told
  BY <1>2 DEF Fields
<1>4. Sound(t) /\ Kept(self, t)
  BY <1>2, PassSound
<1> HIDE DEF t
<1>5. Moved(self, t)
  BY <1>2, <1>3, <1>4, KeptMoved
<1> QED BY <1>1, <1>4, <1>5, Acts

\* ACT_FOLD.
LEMMA Folds ==
    ASSUME IInv, NEW p \in Players, Fold(p) PROVE IInv' /\ Gains /\ Loses
<1> DEFINE t == [self EXCEPT !.t_player[p] = "FOLD", !.play = @ - 1]
<1>1. Act(p, t)
  BY Zenon DEF Fold
<1>2. Sound(self) /\ DOMAIN self = Fields
  BY DEF IInv, Sound, Typed
<1>3. t.t_status = self.t_status /\ t.told = self.told
  BY <1>2 DEF Fields
<1>4. Sound(t) /\ Kept(self, t)
  <2>1. self.told = p
    BY <1>1, Zenon DEF Act
  <2>2. self.t_status # WAITING
    BY <2>1, TurnsAreGames
  <2> QED BY <1>2, <2>2, FoldSound
<1> HIDE DEF t
<1>5. Moved(self, t)
  BY <1>2, <1>3, <1>4, KeptMoved
<1> QED BY <1>1, <1>4, <1>5, Acts

\* The three actions that bet.
LEMMA ActsBets ==
    ASSUME IInv, NEW p \in Players, NEW m \in Nat, Act(p, Bets(self, p, m)) PROVE IInv' /\ Gains /\ Loses
<1>1. self.told = p
  BY Zenon DEF Act
<1>2. self.t_status # WAITING
  BY <1>1, TurnsAreGames
<1>3. Sound(Bets(self, p, m)) /\ Moved(self, Bets(self, p, m))
  BY <1>2, BetsMoved DEF IInv
<1> QED BY <1>3, Acts

\* ACT_RAISE.
LEMMA RaisesOn ==
    ASSUME IInv, NEW p \in Players, Raise(p) PROVE IInv' /\ Gains /\ Loses
<1>1. PICK m \in Raises : Act(p, Bets(self, p, m))
  BY Zenon DEF Raise
<1>2. m \in Nat
  OBVIOUS
<1> QED BY <1>1, <1>2, ActsBets

\* ACT_CALL.
LEMMA Calls ==
    ASSUME IInv, NEW p \in Players, Call(p) PROVE IInv' /\ Gains /\ Loses
<1>1. Act(p, Bets(self, p, self.max - self.t_bet[p]))
  BY Zenon DEF Call
<1>2. self.max - self.t_bet[p] \in Nat
  <2>1. self.t_bet[p] \in Int /\ self.max \in Nat /\ self.t_bet[p] <= self.max
    BY DEF IInv, Sound, Typed, Highest
  <2> QED BY <2>1
<1> QED BY <1>1, <1>2, ActsBets

\* ACT_ALL_IN.
LEMMA GoesAllIn ==
    ASSUME IInv, NEW p \in Players, AllIn(p) PROVE IInv' /\ Gains /\ Loses
<1>1. Act(p, Bets(self, p, self.money[p]))
  BY Zenon DEF AllIn
<1>2. self.money[p] \in Nat
  BY DEF IInv, Sound, Typed
<1> QED BY <1>1, <1>2, ActsBets

\* A tick is its two halves, with some button and some outcome of the comparison.
LEMMA TicksAre ==
    ASSUME NEW s \in Ticks
    PROVE  \E b : /\ self.button = NoSeat => b \in Players
                  /\ \E rank \in Ranks(Starts([self EXCEPT !.due = TRUE], b)) : \E first :
                       s = After(Ends(Starts([self EXCEPT !.due = TRUE], b), rank, first))
<1> DEFINE B == IF self.button = NoSeat THEN AtTable(self) ELSE {None}
           T(b) == Starts([self EXCEPT !.due = TRUE], b)
           F(rank) == IF rank = <<>> THEN {None} ELSE DOMAIN rank
           R(b, rank) == {After(Ends(T(b), rank, first)) : first \in F(rank)}
           W(b) == UNION {R(b, rank) : rank \in Ranks(T(b))}
<1>1. Ticks = UNION {W(b) : b \in B}
  BY Zenon DEF Ticks
<1>2. PICK b \in B : s \in W(b)
  <2> HIDE DEF W, B
  <2> QED BY <1>1
<1>3. PICK rank \in Ranks(T(b)) : s \in R(b, rank)
  <2> HIDE DEF R, T
  <2> QED BY <1>2
<1>4. PICK first \in F(rank) : s = After(Ends(T(b), rank, first))
  <2> HIDE DEF F, T
  <2> QED BY <1>3
<1>5. self.button = NoSeat => b \in Players
  BY DEF AtTable
<1> QED BY <1>3, <1>4, <1>5

\* texas_table:tick: at most one of the two halves changes what there is to be paid.
LEMMA TicksOn ==
    ASSUME IInv, Tick PROVE IInv' /\ Gains /\ Loses
<1>1. PICK b : /\ self.button = NoSeat => b \in Players
               /\ \E rank \in Ranks(Starts([self EXCEPT !.due = TRUE], b)) : \E first :
                    self' = After(Ends(Starts([self EXCEPT !.due = TRUE], b), rank, first))
  <2>1. self' \in Ticks
    BY Zenon DEF Tick
  <2> QED BY <2>1, TicksAre
<1> DEFINE t0 == [self EXCEPT !.due = TRUE]
           t == Starts(t0, b)
<1>2. PICK rank \in Ranks(t) : \E first : self' = After(Ends(t, rank, first))
  BY <1>1
<1>3. PICK first : self' = After(Ends(t, rank, first))
  BY <1>2
<1> DEFINE r == Ends(t, rank, first)
<1>4. Sound(self) /\ self.err = FALSE
  BY DEF IInv
<1>5. /\ Sound(t0) /\ Kept(self, t0) /\ t0.button = self.button /\ t0.t_status = self.t_status
      /\ t0.chair = self.chair /\ t0.SB = self.SB /\ t0.BB = self.BB
      /\ t0.t_player = self.t_player /\ t0.t_bet = self.t_bet /\ t0.max = self.max
      /\ t0.play = self.play /\ t0.pass = self.pass
  BY <1>4, DueSound
<1> HIDE DEF t0
<1>6. Sound(t) /\ Started(t0, t)
  BY <1>1, <1>5, StartsSound
<1> HIDE DEF t
<1>7. /\ Sound(r)
      /\ \/ Kept(t, r) /\ r.t_status = t.t_status
         \/ t.award /\ r.award = FALSE /\ r.t_pot = 0 /\ r.money = t.money
         \/ ~t.award /\ t.t_status = SHOW_DOWN /\ Settled(t, r)
  BY <1>6, EndsSound
<1> HIDE DEF r
<1>8. /\ Sound(self') /\ Kept(r, self') /\ self'.err = FALSE
      /\ self'.t_status = r.t_status /\ self'.side = r.side /\ self'.count = r.count
      /\ self'.t_player = r.t_player /\ self'.chair = r.chair
  BY <1>3, <1>7, AfterSound DEF r
<1>9. IInv'
  <2>1. hands' \in 0 .. MaxHands
    <3>1. hands \in Nat /\ MaxHands \in Nat
      BY DEF IInv
    <3>2. hands' = hands + (IF Begins(self') THEN 1 ELSE 0) /\ hands' <= MaxHands
      BY Zenon DEF Tick
    <3> QED BY <3>1, <3>2
  <2>2. coming' = coming
    BY Zenon DEF Tick
  <2> QED BY <1>8, <2>1, <2>2 DEF IInv
<1>10. check_next_round(t0) <=> check_next_round(self)
  BY <1>5 DEF check_next_round, With
<1>11. Payer(t0) => \E p \in Players :
                 /\ self.chair[p] \in {self.SB.chair, self.BB.chair} \ {0}
                 /\ self.money[p] < Big + (IF self.SB.chair = self.BB.chair THEN Small ELSE 0)
  BY <1>5, Zenon DEF Payer, Kept
<1>12. /\ Chips = (IF self.award THEN Coins(self) ELSE Total(self))
       /\ Chips' = (IF self'.award THEN Coins(self') ELSE Total(self'))
       /\ Coins(self) \in Int /\ Coins(self') \in Int
       /\ Total(self) \in Int /\ Total(self') \in Int
       /\ self.t_pot \in Nat /\ self'.t_pot \in Nat
  BY <1>4, <1>8, ChipsAre
<1>13. Coins(t0) = Coins(self) /\ Total(t0) = Total(self) /\ t0.award = self.award
  BY <1>5 DEF Kept, Coins, Total
<1>14. Coins(self') = Coins(r) /\ Total(self') = Total(r) /\ self'.award = r.award
       /\ self'.t_pot = r.t_pot
  BY <1>8 DEF Kept, Coins, Total
<1>15. Coins(t) \in Int /\ Total(t) \in Int /\ t.t_pot \in Nat
  <2>1. Typed(t) /\ t.t_pot \in Nat
    BY <1>6, Zenon DEF Sound, Typed
  <2>2. Coins(t) \in Int
    BY <2>1, CoinsInt
  <2> QED BY <2>1, <2>2 DEF Total
<1>16. /\ t.award = self.award
       /\ \/ Coins(t) = Coins(self) /\ Total(t) = Total(self)
          \/ Total(t) = Total(self) /\ Coins(t) <= Coins(self) /\ ~check_next_round(self)
          \/ /\ self.t_status = WAITING /\ t.t_status = PRE_FLOP
             /\ Total(t) >= Total(self) /\ (Total(t) = Total(self) \/ Payer(t0))
  <2>1. t.award = self.award
    BY <1>6, <1>13, Zenon DEF Started
  <2>2. CASE Coins(t) = Coins(t0) /\ t.t_pot = t0.t_pot
    <3>1. Coins(t) = Coins(self) /\ Total(t) = Total(self)
      BY <1>13, <2>2 DEF Total
    <3> QED BY <2>1, <3>1
  <2> QED BY <1>5, <1>6, <1>10, <1>13, <2>1, <2>2, Zenon DEF Started
<1> HIDE DEF WAITING, PRE_FLOP, SHOW_DOWN
<1>17. CASE Kept(t, r) /\ r.t_status = t.t_status
  <2>1. Coins(self') = Coins(t) /\ Total(self') = Total(t) /\ self'.award = self.award
    BY <1>14, <1>16, <1>17 DEF Kept, Coins, Total
  <2>2. CASE Coins(t) = Coins(self) /\ Total(t) = Total(self)
    <3>1. ~(Chips' > Chips) /\ ~(Chips' < Chips)
      BY <1>12, <2>1, <2>2
    <3> QED BY <1>9, <3>1, Zenon DEF Gains, Loses
  <2>3. CASE Total(t) = Total(self) /\ Coins(t) <= Coins(self) /\ ~check_next_round(self)
    <3>1. ~(Chips' > Chips) /\ (Chips' < Chips => self.award)
      <4>1. CASE self.award
        BY <1>12, <1>15, <2>1, <2>3, <4>1
      <4>2. CASE ~self.award
        BY <1>12, <1>15, <2>1, <2>3, <4>2
      <4> QED BY <4>1, <4>2
    <3>2. Gains
      BY <3>1, Zenon DEF Gains
    <3>3. Loses
      BY <2>3, <3>1, Zenon DEF Loses
    <3> QED BY <1>9, <3>2, <3>3
  <2>4. CASE /\ self.t_status = WAITING /\ t.t_status = PRE_FLOP
             /\ Total(t) >= Total(self) /\ (Total(t) = Total(self) \/ Payer(t0))
    <3>1. ~self.award
      BY <1>4, <2>4 DEF Sound, Idle
    <3>2. ~(Chips' < Chips) /\ (Chips' > Chips => Payer(t0))
      BY <1>12, <1>15, <2>1, <2>4, <3>1
    <3>3. self'.t_status = PRE_FLOP
      BY <1>8, <1>17, <2>4
    <3>4. Gains
      BY <1>11, <2>4, <3>2, <3>3, Zenon DEF Gains
    <3>5. Loses
      BY <3>2, Zenon DEF Loses
    <3> QED BY <1>9, <3>4, <3>5
  <2> QED BY <1>16, <2>2, <2>3, <2>4, Zenon
<1>18. CASE t.award /\ r.award = FALSE /\ r.t_pot = 0 /\ r.money = t.money
  <2>1. self.award /\ self.t_status = SHOW_DOWN
    BY <1>4, <1>16, <1>18 DEF Sound, Awarded
  <2>2. self.t_status # WAITING
    BY <2>1 DEF WAITING, SHOW_DOWN
  <2>3. Coins(self') = Coins(t) /\ self'.award = FALSE /\ self'.t_pot = 0
    BY <1>14, <1>18 DEF Coins
  <2>4. Chips' = Coins(t) /\ Chips = Coins(self)
    <3>1. Total(self') = Coins(self')
      BY <1>12, <2>3 DEF Total
    <3> QED BY <1>12, <2>1, <2>3, <3>1
  <2>5. Coins(t) = Coins(self) \/ (Coins(t) <= Coins(self) /\ ~check_next_round(self))
    BY <1>16, <2>2, Zenon
  <2>6. ~(Chips' > Chips) /\ (Chips' < Chips => ~check_next_round(self))
    BY <1>12, <1>15, <2>4, <2>5
  <2>7. Gains
    BY <2>6, Zenon DEF Gains
  <2>8. Loses
    BY <2>1, <2>6, Zenon DEF Loses
  <2> QED BY <1>9, <2>7, <2>8
<1>19. CASE ~t.award /\ t.t_status = SHOW_DOWN /\ Settled(t, r) /\ ~Kept(t, r)
  <2>1. Total(t) = Total(self)
    <3>1. t.t_status # PRE_FLOP
      BY <1>19 DEF PRE_FLOP, SHOW_DOWN
    <3> QED BY <1>16, <3>1, Zenon
  <2>2. ~self.award /\ Chips = Total(t)
    BY <1>12, <1>16, <1>19, <2>1
  <2>3. /\ r.award
        /\ Coins(r) > Total(t) => \E k \in DOMAIN r.side : r.side[k].money > 0
        /\ Coins(r) < Total(t) => Alone(r) \/ Total(t) - Coins(r) < Cardinality(StillIn(r))
    BY <1>19, Zenon DEF Settled
  <2>4. Settles /\ Chips' = Coins(r)
    BY <1>12, <1>14, <2>2, <2>3 DEF Settles
  <2>5. StillIn(self') = StillIn(r) /\ (Alone(self') <=> Alone(r))
    <3>1. StillIn(self') = StillIn(r)
      BY <1>8 DEF StillIn, With
    <3> QED BY <1>8, <3>1 DEF Alone
  <2>6. Gains
    BY <1>8, <2>2, <2>3, <2>4, Zenon DEF Gains
  <2>7. Loses
    BY <2>2, <2>3, <2>4, <2>5, Zenon DEF Loses
  <2> QED BY <1>9, <2>6, <2>7
<1>20. CASE ~t.award /\ t.t_status = SHOW_DOWN /\ Kept(t, r)
  <2>1. t.t_status # PRE_FLOP
    BY <1>20 DEF PRE_FLOP, SHOW_DOWN
  <2>2. ~self.award /\ Total(t) = Total(self)
    BY <1>16, <1>20, <2>1, Zenon
  <2>3. Total(self') = Total(t) /\ self'.award = self.award
    BY <1>14, <1>16, <1>20 DEF Kept, Coins, Total
  <2>4. ~(Chips' > Chips) /\ ~(Chips' < Chips)
    BY <1>12, <2>2, <2>3
  <2> QED BY <1>9, <2>4, Zenon DEF Gains, Loses
<1> QED BY <1>7, <1>17, <1>18, <1>19, <1>20, Zenon

\* A new table has the invariant.
LEMMA InitInv == Init => IInv
<1> SUFFICES ASSUME Init PROVE IInv
  OBVIOUS
<1>1. self = init /\ coming = 0 /\ hands = 0
  BY Zenon DEF Init
<1>2. init.err = FALSE
  BY DEF init
<1>3. Sound(self) /\ self.err = FALSE
  BY <1>1, <1>2, InitSound
<1> QED BY <1>1, <1>3 DEF IInv

\* Every handler and every tick keeps the invariant and gains and loses only as stated.
LEMMA StepInv == IInv /\ [Next]_vars => IInv' /\ [Gains]_vars /\ [Loses]_vars
<1> SUFFICES ASSUME IInv, [Next]_vars PROVE IInv' /\ [Gains]_vars /\ [Loses]_vars
  OBVIOUS
<1>1. CASE UNCHANGED vars
  <2>1. IInv'
    BY <1>1 DEF IInv, vars
  <2> QED BY <1>1, <2>1
<1>2. CASE Tick
  BY <1>2, TicksOn
<1>3. ASSUME NEW p \in Players,
             PlayerSitDown(p) \/ EnterTable(p) \/ ChangeTable(p) \/ StandUp(p)
               \/ Check(p) \/ Fold(p) \/ Raise(p) \/ Call(p) \/ AllIn(p)
      PROVE  IInv' /\ Gains /\ Loses
  BY <1>3, SitsDown, Enters, Changes, StandsUp, Checks, Folds, RaisesOn, Calls, GoesAllIn, Zenon
<1> QED BY <1>1, <1>2, <1>3, Zenon DEF Next

\* Between two handlers a table is sound, whatever players do and wherever a handler of
\* texas_table.lua was ended by an error.
THEOREM Invariance == Spec => []IInv
<1>1. IInv /\ [Next]_vars => IInv'
  BY StepInv
<1> QED BY <1>1, InitInv, PTL DEF Spec

\* The invariant includes TypeOK.
LEMMA InvType == IInv => TypeOK
<1> SUFFICES ASSUME IInv PROVE TypeOK
  OBVIOUS
<1>1. Typed(self) /\ self.count >= 0 /\ self.err = FALSE
  BY DEF IInv, Sound
<1>2. self.count \in Nat /\ self.t_pot \in Nat
  BY <1>1 DEF Typed
<1>3. {self.active, self.next, self.SB, self.BB, self.button} \subseteq Seat
  BY <1>1 DEF Typed
<1> QED BY <1>1, <1>2, <1>3, Zenon DEF IInv, Typed, TypeOK

\* A table keeps its shape: no error lasts, nobody owes money (add_bet, cost_money), seats and
\* side pots are well-formed and t_player_count is not negative.
THEOREM TypeCorrect == Spec => []TypeOK
BY Invariance, InvType, PTL

\* No step makes chips but a settlement with something in a side pot, which add_bet has put in
\* the pot too, and the dealing of a hand with a blind its payer is short of (add_bet).
THEOREM ChipsMadeSafe == Spec => ChipsMade
<1>1. IInv /\ [Next]_vars => [Gains]_vars
  BY StepInv
<1>2. ChipsMade <=> [][Gains]_vars
  BY DEF ChipsMade, Gains
<1> HIDE DEF Gains, ChipsMade
<1> QED BY <1>1, <1>2, Invariance, PTL DEF Spec

\* No step loses chips but a settlement, by less than one chip for each player left or with one
\* player left, the leaving of the last player counted (player_stand_up), and a bet after the
\* settlement.
THEOREM ChipsLostSafe == Spec => ChipsLost
<1>1. IInv /\ [Next]_vars => [Loses]_vars
  BY StepInv
<1>2. ChipsLost <=> [][Loses]_vars
  BY DEF ChipsLost, Loses
<1> QED BY <1>1, <1>2, Invariance, PTL DEF Spec

=============================================================================
