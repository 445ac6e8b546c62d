----------------------------- MODULE TradeProofs -----------------------------
(***************************************************************************)
(* What holds of items and trades for any number of players, bags and      *)
(* things, bags of any size and any capacities.  First what the operators  *)
(* of Items give: what a bag holds at any depth, what is left when an item *)
(* is taken and what comes of it when one is put somewhere, in a world     *)
(* where everything is in one place.  Then what a move leaves alone, which *)
(* offers that are not closed are part of, and the inductive invariant.    *)
(***************************************************************************)
EXTENDS Trade, RecursionProofs

-----------------------------------------------------------------------------
(* What is in a bag at any depth                                           *)

Filled(w) == w.contents \in [Bags -> Seq(Items)]
In(w, b) == Elems(w.contents[b])

\* What is in the bags of S, those of `closed` left out, is in S.
Complete(w, S, closed) == \A c \in (S \cap Bags) \ closed : In(w, c) \subseteq S

LEMMA InItems ==
    ASSUME NEW w, Filled(w), NEW b \in Bags
    PROVE  In(w, b) \subseteq Items
<1>1. w.contents[b] \in Seq(Items)
  BY DEF Filled
<1>2. QED BY <1>1 DEF In, Elems

\* Within has what is in the bag and in its bags, and nothing else.
LEMMA WithinIs ==
    ASSUME ItemsAssumption, NEW w, Filled(w), NEW b \in Bags, NEW closed
    PROVE  /\ In(w, b) \subseteq Within(w, b, closed)
           /\ Complete(w, Within(w, b, closed), closed)
           /\ \A S : In(w, b) \subseteq S /\ Complete(w, S, closed)
              => Within(w, b, closed) \subseteq S
<1> DEFINE N == Cardinality(Bags)
           first == In(w, b)
           grown(D) == D \cup UNION {In(w, c) : c \in (D \cap Bags) \ closed}
           Depth[n \in 1..N] ==
             IF n = 1 THEN Elems(w.contents[b])
             ELSE LET above == Depth[n - 1]
                  IN above \cup UNION {Elems(w.contents[c]) : c \in (above \cap Bags) \ closed}
           Is(f, m) == f = [n \in 1..m |-> IF n = 1 THEN first ELSE grown(f[n - 1])]
           T == {m \in Nat : \E f : Is(f, m)}
<1>1. N \in Nat /\ IsFiniteSet(Bags) /\ N # 0
  BY FS_Subset, FS_CardinalityType, FS_EmptySet DEF ItemsAssumption
<1>2. 0 \in T
  <2> DEFINE f == [n \in 1..0 |-> first]
  <2>1. Is(f, 0)
    OBVIOUS
  <2>2. QED BY <2>1
<1>3. ASSUME NEW m \in Nat, m \in T PROVE m + 1 \in T
  <2>1. PICK f : Is(f, m)
    BY <1>3
  <2> HIDE DEF grown, first
  <2> DEFINE g == [n \in 1..m+1 |-> IF n = m + 1 /\ n # 1 THEN grown(f[m]) ELSE IF n = 1 THEN first ELSE f[n]]
  <2>2. ASSUME NEW n \in 1..m+1 PROVE g[n] = IF n = 1 THEN first ELSE grown(g[n - 1])
    <3>1. CASE n = 1
      BY <3>1
    <3>2. CASE n = m + 1 /\ n # 1
      <4>1. m \in 1..m+1 /\ m \in 1..m /\ m # m + 1 /\ n - 1 = m
        BY <3>2
      <4>2. g[m] = f[m]
        BY <2>1, <4>1
      <4>3. QED BY <3>2, <4>1, <4>2
    <3>3. CASE n # 1 /\ n # m + 1
      <4>1. n \in 1..m /\ n - 1 \in 1..m /\ n - 1 \in 1..m+1 /\ n - 1 # m + 1
        BY <3>3
      <4>2. g[n - 1] = f[n - 1] /\ g[n] = f[n]
        BY <2>1, <3>3, <4>1
      <4>3. f[n] = grown(f[n - 1])
        BY <2>1, <3>3, <4>1
      <4>4. QED BY <3>3, <4>2, <4>3
    <3>4. QED BY <3>1, <3>2, <3>3
  <2>3. Is(g, m + 1)
    BY <2>2
  <2>4. m + 1 \in Nat
    OBVIOUS
  <2> HIDE DEF g, Is
  <2>5. QED BY <2>3, <2>4
<1>4. PICK f0 : Is(f0, N)
  <2> HIDE DEF T
  <2>1. \A m \in Nat : m \in T
    BY <1>2, <1>3, SetOfNaturals
  <2>2. N \in T
    BY <1>1, <2>1
  <2>3. QED BY <2>2 DEF T
<1>5. Is(Depth, N)
  <2>1. Depth = CHOOSE f : Is(f, N)
    BY DEF In
  <2>2. QED BY <1>4, <2>1
<1>6. Within(w, b, closed) = Depth[N]
  BY DEF Within
<1> HIDE DEF Depth
<1>7. Depth[1] = first /\ \A n \in 1..N-1 : Depth[n + 1] = grown(Depth[n])
  <2>1. Depth[1] = first
    <3>1. 1 \in 1..N
      BY <1>1
    <3>2. QED BY <1>5, <3>1
  <2>2. ASSUME NEW n \in 1..N-1 PROVE Depth[n + 1] = grown(Depth[n])
    <3>1. n + 1 \in 1..N /\ n + 1 # 1 /\ (n + 1) - 1 = n
      BY <1>1
    <3>2. QED BY <1>5, <3>1
  <2>3. QED BY <2>1, <2>2
<1> DEFINE Least(D) == /\ first \subseteq D
                       /\ \A S : first \subseteq S /\ Complete(w, S, closed) => D \subseteq S
<1>8. Cardinality(Bags \ {b}) = N - 1 /\ IsFiniteSet(Bags \ {b})
  BY <1>1, FS_RemoveElement
<1> HIDE DEF N
<1>9. \A n \in 1..N : Least(Depth[n])
  <2> DEFINE U == {n \in Nat : n \in 1..N => Least(Depth[n])}
  <2>1. 0 \in U
    OBVIOUS
  <2>2. ASSUME NEW n \in Nat, n \in U PROVE n + 1 \in U
    <3>1. CASE n + 1 \notin 1..N
      BY <3>1
    <3>2. CASE n = 0
      BY <1>7, <3>2
    <3>3. CASE n + 1 \in 1..N /\ n # 0
      <4>1. n \in 1..N /\ n \in 1..N-1
        BY <1>1, <3>3
      <4>2. Least(Depth[n]) /\ Depth[n + 1] = grown(Depth[n])
        BY <1>7, <2>2, <4>1
      <4>3. ASSUME NEW S, first \subseteq S, Complete(w, S, closed) PROVE grown(Depth[n]) \subseteq S
        BY <4>2, <4>3 DEF Complete
      <4>4. Least(Depth[n + 1])
        BY <4>2, <4>3
      <4>5. QED BY <4>4
    <3>4. QED BY <3>1, <3>2, <3>3
  <2> HIDE DEF U
  <2>3. \A n \in Nat : n \in U
    BY <2>1, <2>2, SetOfNaturals
  <2>4. QED BY <1>1, <2>3 DEF U
<1> DEFINE others(D) == (D \cap Bags) \ {b}
<1>10. \A D : IsFiniteSet(others(D)) /\ Cardinality(others(D)) \in Nat
       /\ Cardinality(others(D)) <= N - 1
  <2>1. \A D : others(D) \subseteq Bags \ {b}
    OBVIOUS
  <2>2. QED BY <1>8, <2>1, FS_Subset, FS_CardinalityType
<1>11. \A n \in 1..N : Complete(w, Depth[n], closed) \/ Cardinality(others(Depth[n])) >= n
  <2> DEFINE U == {n \in Nat : n \in 1..N =>
                     Complete(w, Depth[n], closed) \/ Cardinality(others(Depth[n])) >= n}
  <2>1. 0 \in U
    OBVIOUS
  <2>2. ASSUME NEW n \in Nat, n \in U PROVE n + 1 \in U
    <3> SUFFICES ASSUME n + 1 \in 1..N, ~Complete(w, Depth[n + 1], closed)
                 PROVE  Cardinality(others(Depth[n + 1])) >= n + 1
      OBVIOUS
    <3>1. n + 1 \in 1..N /\ first \subseteq Depth[n + 1]
      BY <1>9
    <3>2. PICK c \in (Depth[n + 1] \cap Bags) \ closed : ~(In(w, c) \subseteq Depth[n + 1])
      BY DEF Complete
    <3>3. c # b /\ c \in others(Depth[n + 1])
      BY <3>1, <3>2
    <3>4. CASE n = 0
      <4>1. others(Depth[n + 1]) # {}
        BY <3>3
      <4>2. Cardinality(others(Depth[n + 1])) # 0
        BY <1>10, <4>1, FS_EmptySet
      <4> HIDE DEF others
      <4>3. QED BY <1>10, <3>4, <4>2
    <3>5. CASE n # 0
      <4>1. n \in 1..N /\ n \in 1..N-1
        BY <1>1, <3>5
      <4>2. Depth[n + 1] = grown(Depth[n])
        BY <1>7, <4>1
      <4>3. c \notin Depth[n]
        BY <3>2, <4>2
      <4>4. ~Complete(w, Depth[n], closed)
        <5>1. Complete(w, Depth[n], closed) => Depth[n + 1] = Depth[n]
          BY <4>2 DEF Complete
        <5>2. QED BY <3>2, <4>3, <5>1
      <4>5. Cardinality(others(Depth[n])) >= n
        BY <2>2, <4>1, <4>4
      <4>6. others(Depth[n]) \cup {c} \subseteq others(Depth[n + 1]) /\ c \notin others(Depth[n])
        BY <3>3, <4>2, <4>3
      <4> DEFINE few == others(Depth[n])
                 more == others(Depth[n + 1])
      <4>7. /\ few \cup {c} \subseteq more /\ c \notin few /\ IsFiniteSet(few) /\ IsFiniteSet(more)
            /\ Cardinality(few) \in Nat /\ Cardinality(more) \in Nat /\ Cardinality(few) >= n
        BY <1>10, <4>5, <4>6
      <4> HIDE DEF few, more
      <4>8. Cardinality(few \cup {c}) = Cardinality(few) + 1
            /\ Cardinality(few \cup {c}) <= Cardinality(more)
        BY <4>7, FS_AddElement, FS_Subset
      <4>9. Cardinality(more) >= n + 1
        BY <4>7, <4>8
      <4>10. QED BY <4>9 DEF more
    <3>6. QED BY <3>4, <3>5
  <2> HIDE DEF U
  <2>3. \A n \in Nat : n \in U
    BY <2>1, <2>2, SetOfNaturals
  <2>4. QED BY <1>1, <2>3 DEF U
<1>12. N \in 1..N
  BY <1>1
<1>13. Complete(w, Depth[N], closed)
  <2>1. Cardinality(others(Depth[N])) <= N - 1 /\ Cardinality(others(Depth[N])) \in Nat
    BY <1>10
  <2> HIDE DEF others
  <2>2. QED BY <1>1, <1>11, <1>12, <2>1
<1>14. Least(Depth[N])
  BY <1>9, <1>12
<1>15. QED BY <1>6, <1>13, <1>14

-----------------------------------------------------------------------------
(* Items with all that is in them                                          *)

Sealed(w, S) == \A c \in S \cap Bags : In(w, c) \subseteq S

\* A is X with all that is in it: the least set with X that has what is in its bags.
LeastWith(w, A, X) ==
    /\ X \subseteq A /\ Sealed(w, A)
    /\ \A S : X \subseteq S /\ Sealed(w, S) => A \subseteq S

LEMMA HoldingIs ==
    ASSUME ItemsAssumption, NEW w, Filled(w), NEW b \in Bags
    PROVE  LeastWith(w, Holding(w, b), In(w, b))
<1>1. Holding(w, b) = Within(w, b, {})
  BY DEF Holding
<1>2. \A S : Complete(w, S, {}) <=> Sealed(w, S)
  BY DEF Complete, Sealed
<1>3. QED BY <1>1, <1>2, WithinIs DEF LeastWith

LEMMA AllIs ==
    ASSUME ItemsAssumption, NEW w, Filled(w), NEW X, X \subseteq Items
    PROVE  LeastWith(w, AndAllIn(w, X), X) /\ AndAllIn(w, X) \subseteq Items
<1> DEFINE A == AndAllIn(w, X)
<1>1. \A x : x \in A <=> x \in X \/ \E b \in X \cap Bags : x \in Holding(w, b)
  BY DEF AndAllIn, Holding
<1> HIDE DEF A
<1>2. \A b \in Bags : LeastWith(w, Holding(w, b), In(w, b))
  BY HoldingIs
<1>3. Sealed(w, A)
  <2> SUFFICES ASSUME NEW c \in A \cap Bags PROVE In(w, c) \subseteq A
    BY DEF Sealed
  <2>1. CASE c \in X
    BY <1>1, <1>2, <2>1 DEF LeastWith
  <2>2. CASE c \notin X
    <3>1. PICK b \in X \cap Bags : c \in Holding(w, b)
      BY <1>1, <2>2
    <3>2. In(w, c) \subseteq Holding(w, b)
      BY <1>2, <3>1 DEF LeastWith, Sealed
    <3>3. QED BY <1>1, <3>1, <3>2
  <2>3. QED BY <2>1, <2>2
<1>4. ASSUME NEW S, X \subseteq S, Sealed(w, S) PROVE A \subseteq S
  <2>1. \A b \in X \cap Bags : Holding(w, b) \subseteq S
    BY <1>2, <1>4 DEF LeastWith, Sealed
  <2>2. QED BY <1>1, <1>4, <2>1
<1>5. X \subseteq A
  BY <1>1
<1>6. LeastWith(w, A, X)
  BY <1>3, <1>4, <1>5 DEF LeastWith
<1>7. Sealed(w, Items)
  BY InItems DEF Sealed
<1>8. A \subseteq Items
  BY <1>6, <1>7 DEF LeastWith
<1>9. QED BY <1>6, <1>8 DEF A

LEMMA AllUp ==
    ASSUME ItemsAssumption, NEW w, Filled(w), NEW X, X \subseteq Items, NEW x \in AndAllIn(w, X), x \notin X
    PROVE  \E c \in AndAllIn(w, X) \cap Bags : x \in In(w, c)
<1> DEFINE A == AndAllIn(w, X)
           S == X \cup UNION {In(w, c) : c \in A \cap Bags}
<1>1. LeastWith(w, A, X)
  BY AllIs
<1> HIDE DEF A
<1>2. S \subseteq A
  BY <1>1 DEF LeastWith, Sealed
<1>3. Sealed(w, S)
  BY <1>2 DEF Sealed
<1>4. A \subseteq S
  BY <1>1, <1>3 DEF LeastWith
<1>5. x \in A
  BY DEF A
<1>6. QED BY <1>4, <1>5 DEF A

\* What is taken with one of Y is taken with Y.
LEMMA AllMono ==
    ASSUME ItemsAssumption, NEW w, Filled(w), NEW X, NEW Y, Y \subseteq Items, X \subseteq AndAllIn(w, Y)
    PROVE  AndAllIn(w, X) \subseteq AndAllIn(w, Y)
<1>1. LeastWith(w, AndAllIn(w, Y), Y) /\ AndAllIn(w, Y) \subseteq Items
  BY AllIs
<1>2. LeastWith(w, AndAllIn(w, X), X)
  BY <1>1, AllIs
<1>3. QED BY <1>1, <1>2 DEF LeastWith

LEMMA HoldingAll ==
    ASSUME ItemsAssumption, NEW w, Filled(w), NEW b \in Bags
    PROVE  Holding(w, b) = AndAllIn(w, In(w, b))
<1>1. In(w, b) \subseteq Items
  BY InItems
<1>2. LeastWith(w, AndAllIn(w, In(w, b)), In(w, b)) /\ LeastWith(w, Holding(w, b), In(w, b))
  BY <1>1, AllIs, HoldingIs
<1>3. QED BY <1>2 DEF LeastWith

Tree(w, i) == AndAllIn(w, {i})

LEMMA TreeIs ==
    ASSUME NEW w, NEW i
    PROVE  Tree(w, i) = {i} \cup Holding(w, i) /\ (i \notin Bags => Tree(w, i) = {i})
BY DEF Tree, AndAllIn, Holding

\* With the same in its bags a set has the same in it.
LEMMA AllSame ==
    ASSUME ItemsAssumption, NEW w, Filled(w), NEW v, Filled(v), NEW X, X \subseteq Items,
           \A c \in AndAllIn(w, X) \cap Bags : In(v, c) = In(w, c)
    PROVE  AndAllIn(v, X) = AndAllIn(w, X)
<1> DEFINE A == AndAllIn(w, X)
           B == AndAllIn(v, X)
<1>1. LeastWith(w, A, X) /\ LeastWith(v, B, X)
  BY AllIs
<1>2. \A c \in A \cap Bags : In(v, c) = In(w, c)
  OBVIOUS
<1> HIDE DEF A, B
<1>3. Sealed(v, A)
  BY <1>1, <1>2 DEF LeastWith, Sealed
<1>4. B \subseteq A
  BY <1>1, <1>3 DEF LeastWith
<1>5. Sealed(w, B)
  BY <1>1, <1>2, <1>4 DEF LeastWith, Sealed
<1>6. A \subseteq B
  BY <1>1, <1>5 DEF LeastWith
<1>7. QED BY <1>4, <1>6 DEF A, B

\* With more in the bags it has more.
LEMMA AllMore ==
    ASSUME ItemsAssumption, NEW w, Filled(w), NEW v, Filled(v), NEW X, NEW Y, X \subseteq Y, Y \subseteq Items,
           \A c \in Bags : In(w, c) \subseteq In(v, c)
    PROVE  AndAllIn(w, X) \subseteq AndAllIn(v, Y)
<1>1. LeastWith(w, AndAllIn(w, X), X) /\ LeastWith(v, AndAllIn(v, Y), Y)
  BY AllIs
<1>2. Sealed(w, AndAllIn(v, Y))
  BY <1>1 DEF LeastWith, Sealed
<1>3. QED BY <1>1, <1>2 DEF LeastWith

-----------------------------------------------------------------------------
(* Items in one place                                                      *)

World ==
    [inventory : [Players -> [Slots -> Items \cup {NoItem}]], contents : [Bags -> Seq(Items)],
     ground : SUBSET Items, backpack : [Players -> [bag : Bags \cup {NoItem}, index : Nat]]]

Top(w) == w.ground \cup UNION {Worn(w, p) : p \in Players}

WornOnce(w) ==
    \A p, q \in Players, s, t \in Slots :
      w.inventory[p][s] = w.inventory[q][t] /\ w.inventory[p][s] # NoItem => p = q /\ s = t
HeldOnce(w) ==
    \A b, c \in Bags : \A n \in 1..Len(w.contents[b]), m \in 1..Len(w.contents[c]) :
      w.contents[b][n] = w.contents[c][m] => b = c /\ n = m

Single(w) ==
    /\ WornOnce(w) /\ HeldOnce(w)
    /\ \A c \in Bags : In(w, c) \cap Top(w) = {}
    /\ \A p \in Players : Worn(w, p) \cap w.ground = {}

LEMMA WorldParts ==
    ASSUME ItemsAssumption, NEW w \in World
    PROVE  /\ Filled(w) /\ w.ground \subseteq Items /\ Top(w) \subseteq Items
           /\ \A p \in Players : Worn(w, p) \subseteq Items /\ Worn(w, p) \subseteq Top(w)
           /\ \A p \in Players : \A s \in Slots : w.inventory[p][s] \in Items \cup {NoItem}
           /\ \A p \in Players : w.backpack[p].bag \in Bags \cup {NoItem}
              /\ w.backpack[p].index \in Nat
           /\ \A p \in Players : w.backpack[p] \in [bag : Bags \cup {NoItem}, index : Nat]
<1>1. \A p \in Players : \A s \in Slots : w.inventory[p][s] \in Items \cup {NoItem}
  BY DEF World
<1>2. \A p \in Players : Worn(w, p) \subseteq Items
  BY <1>1 DEF Worn
<1>3. w.ground \subseteq Items /\ Filled(w)
  BY DEF World, Filled
<1>4. \A p \in Players : w.backpack[p] \in [bag : Bags \cup {NoItem}, index : Nat]
  BY DEF World
<1>5. QED BY <1>1, <1>2, <1>3, <1>4 DEF Top

LEMMA OneHolder ==
    ASSUME NEW w, HeldOnce(w), Filled(w), NEW b \in Bags, NEW c \in Bags, NEW x, x \in In(w, b), x \in In(w, c)
    PROVE  b = c
<1>1. w.contents[b] \in Seq(Items) /\ w.contents[c] \in Seq(Items)
  BY DEF Filled
<1>2. PICK n \in 1..Len(w.contents[b]) : w.contents[b][n] = x
  BY <1>1 DEF In, Elems
<1>3. PICK m \in 1..Len(w.contents[c]) : w.contents[c][m] = x
  BY <1>1 DEF In, Elems
<1>4. QED BY <1>2, <1>3 DEF HeldOnce

\* What no bag of another has among its own is apart from it with all in it.
LEMMA Apart ==
    ASSUME ItemsAssumption, NEW w, Filled(w), HeldOnce(w), NEW X, NEW Y, X \subseteq Items, Y \subseteq Items,
           X \cap AndAllIn(w, Y) = {}, Y \cap AndAllIn(w, X) = {}
    PROVE  AndAllIn(w, X) \cap AndAllIn(w, Y) = {}
<1> DEFINE A == AndAllIn(w, X)
           B == AndAllIn(w, Y)
           S == A \ B
<1>1. LeastWith(w, A, X) /\ LeastWith(w, B, Y)
  BY AllIs
<1>2. \A x \in B : x \in Y \/ \E c \in B \cap Bags : x \in In(w, c)
  BY AllUp
<1>0. X \cap B = {} /\ Y \cap A = {}
  OBVIOUS
<1> HIDE DEF A, B
<1>3. X \subseteq S
  BY <1>0, <1>1 DEF LeastWith
<1>4. Sealed(w, S)
  <2> SUFFICES ASSUME NEW c \in S \cap Bags, NEW x \in In(w, c) PROVE x \in S
    BY DEF Sealed
  <2>1. x \in A
    BY <1>1 DEF LeastWith, Sealed
  <2>2. ASSUME x \in B PROVE FALSE
    <3>1. PICK d \in B \cap Bags : x \in In(w, d)
      BY <1>0, <1>2, <2>1, <2>2
    <3>2. d = c
      BY <3>1, OneHolder
    <3>3. QED BY <3>1, <3>2
  <2>3. QED BY <2>1, <2>2
<1>5. A \subseteq S
  BY <1>1, <1>3, <1>4 DEF LeastWith
<1>6. QED BY <1>5 DEF A, B

\* A bag in a bag has nothing that is not in that one.
LEMMA HoldDown ==
    ASSUME ItemsAssumption, NEW w, Filled(w), NEW b \in Bags, NEW c \in Bags, c \in Holding(w, b)
    PROVE  Holding(w, c) \subseteq Holding(w, b)
<1>1. LeastWith(w, Holding(w, b), In(w, b)) /\ LeastWith(w, Holding(w, c), In(w, c))
  BY HoldingIs
<1>2. QED BY <1>1 DEF LeastWith, Sealed

\* Nothing is in itself that can be reached from something that is in no bag.
LEMMA NoLoop ==
    ASSUME ItemsAssumption, NEW w, Filled(w), HeldOnce(w), NEW X, X \subseteq Items,
           \A c \in Bags : In(w, c) \cap X = {}, NEW i \in AndAllIn(w, X)
    PROVE  i \notin Holding(w, i)
<1> DEFINE S == {j \in Items : j \notin Holding(w, j)}
<1>1. LeastWith(w, AndAllIn(w, X), X)
  BY AllIs
<1>2. ASSUME NEW j \in Items, j \in Holding(w, j)
      PROVE  /\ j \in Bags
             /\ j \in In(w, j) \/ \E d \in Bags : d \in Holding(w, j) /\ j \in In(w, d)
  <2>1. j \in Bags
    BY <1>2 DEF Holding
  <2>2. Holding(w, j) = AndAllIn(w, In(w, j)) /\ In(w, j) \subseteq Items
    BY <2>1, HoldingAll, InItems
  <2>3. j \notin In(w, j) => \E d \in AndAllIn(w, In(w, j)) \cap Bags : j \in In(w, d)
    BY <1>2, <2>2, AllUp
  <2>4. QED BY <2>1, <2>2, <2>3
<1>3. X \subseteq S
  BY <1>2
<1>4. Sealed(w, S)
  <2> SUFFICES ASSUME NEW c \in S \cap Bags, NEW j \in In(w, c), j \notin S PROVE FALSE
    BY DEF Sealed
  <2>1. j \in Items /\ j \in Holding(w, j)
    BY InItems
  <2>2. j \in Bags
    BY <1>2, <2>1
  <2>3. j \in Holding(w, c)
    BY HoldingIs DEF LeastWith
  <2>4. CASE j \in In(w, j)
    BY <2>2, <2>3, <2>4, OneHolder
  <2>5. CASE \E d \in Bags : d \in Holding(w, j) /\ j \in In(w, d)
    <3>1. c \in Holding(w, j)
      BY <2>5, OneHolder
    <3>2. c \in Holding(w, c)
      BY <2>2, <2>3, <3>1, HoldDown
    <3>3. QED BY <3>2
  <2>6. QED BY <1>2, <2>1, <2>4, <2>5
<1> HIDE DEF S
<1>5. i \in S
  BY <1>1, <1>3, <1>4 DEF LeastWith
<1>6. QED BY <1>5 DEF S

\* What is at different places at the top stays apart with all in it.
LEMMA TopApart ==
    ASSUME ItemsAssumption, NEW w \in World, Single(w), NEW X, NEW Y, X \subseteq Top(w), Y \subseteq Top(w), X \cap Y = {}
    PROVE  AndAllIn(w, X) \cap AndAllIn(w, Y) = {}
<1>1. Filled(w) /\ HeldOnce(w) /\ X \subseteq Items /\ Y \subseteq Items
  BY WorldParts DEF Single
<1>2. X \cap AndAllIn(w, Y) = {}
  BY <1>1, AllUp DEF Single
<1>3. Y \cap AndAllIn(w, X) = {}
  BY <1>1, AllUp DEF Single
<1>4. QED BY <1>1, <1>2, <1>3, Apart

LEMMA PlacedIs ==
    ASSUME ItemsAssumption, NEW w \in World
    PROVE  Placed(w) = AndAllIn(w, Top(w))
<1>1. Filled(w) /\ Top(w) \subseteq Items
  BY WorldParts
<1>2. Placed(w) \subseteq AndAllIn(w, Top(w))
  <2>1. LeastWith(w, AndAllIn(w, Top(w)), Top(w))
    BY <1>1, AllIs
  <2>2. Lying(w) \subseteq AndAllIn(w, Top(w))
    BY <1>1, <2>1, AllMono DEF Lying, Top, LeastWith
  <2>3. ASSUME NEW p \in Players PROVE Carried(w, p) \subseteq AndAllIn(w, Top(w))
    <3>1. Worn(w, p) \subseteq AndAllIn(w, Top(w))
      BY <2>1 DEF LeastWith, Top
    <3>2. QED BY <1>1, <3>1, AllMono DEF Carried
  <2>4. QED BY <2>2, <2>3 DEF Placed
<1>3. Sealed(w, Placed(w)) /\ Top(w) \subseteq Placed(w)
  <2>1. LeastWith(w, Lying(w), w.ground)
    BY <1>1, AllIs, WorldParts DEF Lying
  <2>2. \A p \in Players : LeastWith(w, Carried(w, p), Worn(w, p))
    BY <1>1, AllIs, WorldParts DEF Carried
  <2>3. QED BY <2>1, <2>2 DEF LeastWith, Sealed, Placed, Top
<1>4. AndAllIn(w, Top(w)) \subseteq Placed(w)
  BY <1>1, <1>3, AllIs DEF LeastWith
<1>5. QED BY <1>2, <1>4

\* Nobody carries what another carries, or what lies on the ground.
LEMMA Owners ==
    ASSUME ItemsAssumption, NEW w \in World, Single(w)
    PROVE  /\ \A p, q \in Players : p # q => Carried(w, p) \cap Carried(w, q) = {}
           /\ \A p \in Players : Carried(w, p) \cap Lying(w) = {}
<1>1. ASSUME NEW p \in Players, NEW q \in Players, p # q PROVE Carried(w, p) \cap Carried(w, q) = {}
  <2>1. Worn(w, p) \subseteq Top(w) /\ Worn(w, q) \subseteq Top(w)
    BY DEF Top
  <2>2. Worn(w, p) \cap Worn(w, q) = {}
    BY <1>1 DEF Worn, Single, WornOnce
  <2>3. QED BY <2>1, <2>2, TopApart DEF Carried
<1>2. ASSUME NEW p \in Players PROVE Carried(w, p) \cap Lying(w) = {}
  <2>1. Worn(w, p) \subseteq Top(w) /\ w.ground \subseteq Top(w) /\ Worn(w, p) \cap w.ground = {}
    BY DEF Top, Single
  <2>2. QED BY <2>1, TopApart DEF Carried, Lying
<1>3. QED BY <1>1, <1>2

-----------------------------------------------------------------------------
(* Worlds with the same things in the same places                          *)

AsBefore(v, w) ==
    v \in World /\ v.inventory = w.inventory /\ v.contents = w.contents /\ v.ground = w.ground

Tight(w) == \A b \in Bags : Len(w.contents[b]) <= BagSize
Whole(w) == w \in World /\ Single(w) /\ Tight(w) /\ Bags \subseteq Placed(w)

Own(w) ==
    \A p \in Players :
      w.backpack[p].bag # NoItem =>
        w.backpack[p].bag \in Carried(w, p) /\ Len(w.contents[w.backpack[p].bag]) < BagSize

LEMMA SameIn ==
    ASSUME NEW v, NEW w, AsBefore(v, w), NEW b \in Bags
    PROVE  In(v, b) = In(w, b)
BY DEF AsBefore, In

LEMMA SameAll ==
    ASSUME ItemsAssumption, NEW v, NEW w \in World, AsBefore(v, w), NEW X, X \subseteq Items
    PROVE  AndAllIn(v, X) = AndAllIn(w, X)
<1>1. Filled(v) /\ Filled(w)
  BY WorldParts DEF AsBefore
<1>2. \A b \in Bags : In(v, b) = In(w, b)
  BY SameIn
<1>3. QED BY <1>1, <1>2, AllSame

LEMMA SamePlaces ==
    ASSUME ItemsAssumption, NEW v, NEW w \in World, AsBefore(v, w)
    PROVE  /\ Top(v) = Top(w) /\ Placed(v) = Placed(w) /\ Lying(v) = Lying(w)
           /\ \A p \in Players : Worn(v, p) = Worn(w, p) /\ Carried(v, p) = Carried(w, p)
<1>1. v \in World /\ v.inventory = w.inventory /\ v.contents = w.contents /\ v.ground = w.ground
  BY DEF AsBefore
<1>2. \A p \in Players : Worn(v, p) = Worn(w, p)
  BY <1>1 DEF Worn
<1>3. Top(v) = Top(w)
  BY <1>1, <1>2 DEF Top
<1>4. Lying(v) = Lying(w)
  BY <1>1, SameAll, WorldParts DEF Lying
<1>5. \A p \in Players : Carried(v, p) = Carried(w, p)
  BY <1>2, SameAll, WorldParts DEF Carried
<1>6. Placed(v) = Placed(w)
  BY <1>4, <1>5 DEF Placed
<1>7. QED BY <1>2, <1>3, <1>4, <1>5, <1>6

LEMMA SameWhole ==
    ASSUME ItemsAssumption, NEW v, NEW w \in World, AsBefore(v, w)
    PROVE  /\ Single(w) => Single(v)
           /\ Whole(w) => Whole(v)
<1>1. v \in World /\ v.inventory = w.inventory /\ v.contents = w.contents /\ v.ground = w.ground
  BY DEF AsBefore
<1>2. Top(v) = Top(w) /\ Placed(v) = Placed(w) /\ \A p \in Players : Worn(v, p) = Worn(w, p)
  BY SamePlaces
<1>3. WornOnce(w) => WornOnce(v)
  BY <1>1 DEF WornOnce
<1>4. (HeldOnce(w) => HeldOnce(v)) /\ (Tight(w) => Tight(v))
  BY <1>1 DEF HeldOnce, Tight
<1>5. \A b \in Bags : In(v, b) = In(w, b)
  BY SameIn
<1>6. Single(w) => Single(v)
  BY <1>1, <1>2, <1>3, <1>4, <1>5 DEF Single
<1>7. QED BY <1>1, <1>2, <1>4, <1>6 DEF Whole

-----------------------------------------------------------------------------
(* What players remember                                                   *)

LEMMA WorldIs ==
    ASSUME NEW w \in World
    PROVE  w = [inventory |-> w.inventory, contents |-> w.contents, ground |-> w.ground, backpack |-> w.backpack]
BY DEF World

LEMMA WorldOf ==
    ASSUME NEW h, NEW c, NEW g, NEW k, h \in [Players -> [Slots -> Items \cup {NoItem}]],
           c \in [Bags -> Seq(Items)], g \subseteq Items, k \in [Players -> [bag : Bags \cup {NoItem}, index : Nat]]
    PROVE  [inventory |-> h, contents |-> c, ground |-> g, backpack |-> k] \in World
BY DEF World

ForgottenBy(v, w, who) ==
    \A p \in Players : v.backpack[p] = IF p \in who THEN NoBackpack ELSE w.backpack[p]

LEMMA ForgetIs ==
    ASSUME ItemsAssumption, NEW w \in World, NEW who
    PROVE  AsBefore(Forget(w, who), w) /\ ForgottenBy(Forget(w, who), w, who)
<1> DEFINE k == [p \in Players |-> IF p \in who THEN NoBackpack ELSE w.backpack[p]]
<1>1. Forget(w, who) = [inventory |-> w.inventory, contents |-> w.contents, ground |-> w.ground, backpack |-> k]
  BY WorldIs DEF Forget
<1>2. k \in [Players -> [bag : Bags \cup {NoItem}, index : Nat]]
  <2>1. NoBackpack \in [bag : Bags \cup {NoItem}, index : Nat]
    BY DEF NoBackpack
  <2>2. QED BY <2>1, WorldParts
<1>3. \A p \in Players : k[p] = IF p \in who THEN NoBackpack ELSE w.backpack[p]
  OBVIOUS
<1> HIDE DEF k
<1>4. [inventory |-> w.inventory, contents |-> w.contents, ground |-> w.ground, backpack |-> k] \in World
  BY <1>2, WorldOf DEF World
<1>5. AsBefore(Forget(w, who), w)
  BY <1>1, <1>4 DEF AsBefore
<1>6. Forget(w, who).backpack = k
  BY <1>1
<1>7. ForgottenBy(Forget(w, who), w, who)
  BY <1>3, <1>6 DEF ForgottenBy
<1>8. QED BY <1>5, <1>7

LEMMA RememberingIs ==
    ASSUME ItemsAssumption, NEW w \in World, NEW p \in Players, NEW r,
           r.backpack \in [bag : Bags \cup {NoItem}, index : Nat]
    PROVE  /\ AsBefore(Remembering(w, p, r), w)
           /\ \A q \in Players : Remembering(w, p, r).backpack[q] = IF q = p THEN r.backpack ELSE w.backpack[q]
<1> DEFINE k == [w.backpack EXCEPT ![p] = r.backpack]
<1>1. Remembering(w, p, r) = [inventory |-> w.inventory, contents |-> w.contents, ground |-> w.ground, backpack |-> k]
  BY WorldIs DEF Remembering
<1>0. w.backpack \in [Players -> [bag : Bags \cup {NoItem}, index : Nat]]
  BY DEF World
<1>2. k \in [Players -> [bag : Bags \cup {NoItem}, index : Nat]]
  BY <1>0
<1>3. \A q \in Players : k[q] = IF q = p THEN r.backpack ELSE w.backpack[q]
  BY <1>0
<1> HIDE DEF k
<1>4. [inventory |-> w.inventory, contents |-> w.contents, ground |-> w.ground, backpack |-> k] \in World
  BY <1>2, WorldOf DEF World
<1>5. AsBefore(Remembering(w, p, r), w)
  BY <1>1, <1>4 DEF AsBefore
<1>6. Remembering(w, p, r).backpack = k
  BY <1>1
<1>7. QED BY <1>3, <1>5, <1>6

-----------------------------------------------------------------------------
(* Taking an item                                                          *)

LEMMA SublistShort ==
    ASSUME NEW S, NEW list \in Seq(S), NEW r \in Seq(S), NEW places, places \subseteq 1..Len(list),
           NEW g, Sublist(g, r, list, places)
    PROVE  Len(r) <= Len(list)
<1> DEFINE U == {n \in Nat : n \in 1..Len(r) => g[n] >= n}
<1>1. Len(r) \in Nat /\ Len(list) \in Nat /\ g \in [1..Len(r) -> places]
      /\ \A n, m \in 1..Len(r) : n < m => g[n] < g[m]
  BY DEF Sublist
<1>2. \A n \in 1..Len(r) : g[n] \in 1..Len(list)
  BY <1>1
<1>3. 0 \in U
  OBVIOUS
<1>4. ASSUME NEW n \in Nat, n \in U PROVE n + 1 \in U
  <2> SUFFICES ASSUME n + 1 \in 1..Len(r) PROVE g[n + 1] >= n + 1
    OBVIOUS
  <2>1. CASE n = 0
    BY <1>2, <2>1
  <2>2. CASE n # 0
    <3>1. n \in 1..Len(r) /\ n < n + 1
      BY <2>2, <1>1
    <3>2. g[n] >= n /\ g[n] < g[n + 1]
      BY <1>1, <1>4, <3>1
    <3>3. g[n] \in 1..Len(list) /\ g[n + 1] \in 1..Len(list)
      BY <1>2, <3>1
    <3>4. QED BY <3>2, <3>3
  <2>3. QED BY <2>1, <2>2
<1> HIDE DEF U
<1>5. \A n \in Nat : n \in U
  BY <1>3, <1>4, SetOfNaturals
<1>6. CASE Len(r) = 0
  BY <1>1, <1>6
<1>7. CASE Len(r) # 0
  <2>1. Len(r) \in 1..Len(r)
    BY <1>1, <1>7
  <2>2. g[Len(r)] >= Len(r)
    BY <1>1, <1>5, <2>1 DEF U
  <2>3. g[Len(r)] \in 1..Len(list)
    BY <1>2, <2>1
  <2>4. QED BY <1>1, <2>2, <2>3
<1>8. QED BY <1>6, <1>7

\* r has the entries of seq but for i, each from another place.
Lacks(g, r, seq, i) ==
    /\ g \in [1..Len(r) -> 1..Len(seq)]
    /\ \A n, m \in 1..Len(r) : g[n] = g[m] => n = m
    /\ \A n \in 1..Len(r) : r[n] = seq[g[n]]

LEMMA WithoutIs ==
    ASSUME NEW seq \in Seq(Items), NEW i
    PROVE  /\ Without(seq, i) \in Seq(Items) /\ Elems(Without(seq, i)) = Elems(seq) \ {i}
           /\ Len(Without(seq, i)) <= Len(seq) /\ \E g : Lacks(g, Without(seq, i), seq, i)
<1> DEFINE places == {n \in DOMAIN seq : seq[n] # i}
           r == Without(seq, i)
<1>0. Len(seq) \in Nat /\ DOMAIN seq = 1..Len(seq)
  OBVIOUS
<1>1. places \subseteq 1..Len(seq)
  BY <1>0
<1>2. r = OnlyAt(seq, places)
  BY DEF Without
<1> HIDE DEF r
<1>7. \A n \in 1..Len(seq) : n \in places <=> seq[n] # i
  BY <1>0
<1> HIDE DEF places
<1>3. r \in Seq(Items) /\ \E g : Sublist(g, r, seq, places)
  BY <1>1, <1>2, OnlyAtIs
<1>4. PICK g : Sublist(g, r, seq, places)
  BY <1>3
<1>5. /\ g \in [1..Len(r) -> places] /\ \A n, m \in 1..Len(r) : n < m => g[n] < g[m]
      /\ \A n \in 1..Len(r) : r[n] = seq[g[n]]
      /\ \A k \in places : \E n \in 1..Len(r) : g[n] = k
  BY <1>4 DEF Sublist
<1>6. Len(r) \in Nat /\ DOMAIN r = 1..Len(r)
  BY <1>3
<1>8. Lacks(g, r, seq, i)
  <2>1. g \in [1..Len(r) -> 1..Len(seq)]
    BY <1>1, <1>5
  <2>2. ASSUME NEW n \in 1..Len(r), NEW m \in 1..Len(r), g[n] = g[m] PROVE n = m
    <3>1. g[n] \in 1..Len(seq) /\ g[m] \in 1..Len(seq) /\ n \in Int /\ m \in Int
      BY <2>1
    <3>2. ~(n < m) /\ ~(m < n)
      BY <1>5, <2>2, <3>1
    <3>3. QED BY <3>1, <3>2
  <2>3. QED BY <1>5, <2>1, <2>2 DEF Lacks
<1>9. Elems(r) = Elems(seq) \ {i}
  <2>1. ASSUME NEW n \in 1..Len(r) PROVE r[n] \in Elems(seq) \ {i}
    <3>1. g[n] \in places /\ r[n] = seq[g[n]]
      BY <1>5
    <3>2. QED BY <1>0, <1>1, <1>7, <3>1 DEF Elems
  <2>2. ASSUME NEW x \in Elems(seq), x # i PROVE x \in Elems(r)
    <3>1. PICK k \in 1..Len(seq) : seq[k] = x
      BY <1>0 DEF Elems
    <3>2. k \in places
      BY <1>7, <2>2, <3>1
    <3>3. PICK n \in 1..Len(r) : g[n] = k
      BY <1>5, <3>2
    <3>4. QED BY <1>5, <1>6, <3>1, <3>3 DEF Elems
  <2>3. Elems(r) \subseteq Elems(seq) \ {i}
    BY <1>6, <2>1 DEF Elems
  <2>4. QED BY <2>2, <2>3
<1>10. Len(r) <= Len(seq)
  BY <1>1, <1>3, <1>4, SublistShort
<1>11. QED BY <1>3, <1>8, <1>9, <1>10 DEF r

\* v is w without i at any place.
Lost(v, w, i) ==
    /\ v \in World /\ v.ground = w.ground \ {i}
    /\ \A p \in Players : \A s \in Slots :
         v.inventory[p][s] = IF w.inventory[p][s] = i THEN NoItem ELSE w.inventory[p][s]
    /\ \A b \in Bags : v.contents[b] = Without(w.contents[b], i)

Told(w, near0, i) == IF i \in w.ground THEN {} ELSE ToldOfTaking(w, near0, i)

LEMMA TakeIs ==
    ASSUME ItemsAssumption, NEW w \in World, NEW near0, NEW i
    PROVE  Lost(Take(w, near0, i), w, i) /\ ForgottenBy(Take(w, near0, i), w, Told(w, near0, i))
<1> DEFINE u == Forget(w, Told(w, near0, i))
           h == [p \in Players |-> [s \in Slots |-> IF w.inventory[p][s] = i THEN NoItem ELSE w.inventory[p][s]]]
           c == [b \in Bags |-> Without(w.contents[b], i)]
           g == w.ground \ {i}
<1>1. AsBefore(u, w) /\ ForgottenBy(u, w, Told(w, near0, i))
  BY ForgetIs
<1> HIDE DEF u
<1>2. Take(w, near0, i) = [u EXCEPT
          !.inventory = [p \in Players |-> [s \in Slots |-> IF @[p][s] = i THEN NoItem ELSE @[p][s]]],
          !.contents = [b \in Bags |-> Without(@[b], i)],
          !.ground = @ \ {i}]
  BY DEF Take, Told, u
<1>3. u \in World /\ u.inventory = w.inventory /\ u.contents = w.contents /\ u.ground = w.ground
  BY <1>1 DEF AsBefore
<1>4. u = [inventory |-> w.inventory, contents |-> w.contents, ground |-> w.ground, backpack |-> u.backpack]
  BY <1>3, WorldIs
<1>5. Take(w, near0, i) = [inventory |-> h, contents |-> c, ground |-> g, backpack |-> u.backpack]
  <2>1. Take(w, near0, i) = [u EXCEPT !.inventory = h, !.contents = c, !.ground = g]
    BY <1>2, <1>3
  <2> HIDE DEF h, c, g
  <2>2. QED BY <1>4, <2>1
<1>6. h \in [Players -> [Slots -> Items \cup {NoItem}]]
  BY WorldParts
<1>7. c \in [Bags -> Seq(Items)]
  BY WithoutIs DEF World
<1>8. g \subseteq Items
  BY WorldParts
<1>9. \A p \in Players : \A s \in Slots :
        h[p][s] = IF w.inventory[p][s] = i THEN NoItem ELSE w.inventory[p][s]
  OBVIOUS
<1>10. \A b \in Bags : c[b] = Without(w.contents[b], i)
  OBVIOUS
<1>11. u.backpack \in [Players -> [bag : Bags \cup {NoItem}, index : Nat]]
  BY <1>3 DEF World
<1>12. g = w.ground \ {i}
  OBVIOUS
<1> HIDE DEF h, c, g
<1>13. [inventory |-> h, contents |-> c, ground |-> g, backpack |-> u.backpack] \in World
  BY <1>6, <1>7, <1>8, <1>11, WorldOf
<1>14. Lost(Take(w, near0, i), w, i)
  BY <1>5, <1>9, <1>10, <1>12, <1>13 DEF Lost
<1>15. Take(w, near0, i).backpack = u.backpack
  BY <1>5
<1>16. QED BY <1>1, <1>14, <1>15 DEF ForgottenBy

LEMMA LostIn ==
    ASSUME ItemsAssumption, NEW w \in World, NEW i, NEW v, Lost(v, w, i)
    PROVE  /\ Filled(v) /\ Filled(w)
           /\ \A b \in Bags : In(v, b) = In(w, b) \ {i} /\ Len(v.contents[b]) <= Len(w.contents[b])
           /\ \A p \in Players : Worn(v, p) = Worn(w, p) \ {i}
           /\ Top(v) = Top(w) \ {i} /\ v.ground = w.ground \ {i}
<1>1. Filled(v) /\ Filled(w)
  BY WorldParts DEF Lost
<1>2. \A b \in Bags : In(v, b) = In(w, b) \ {i} /\ Len(v.contents[b]) <= Len(w.contents[b])
  <2> TAKE b \in Bags
  <2>1. w.contents[b] \in Seq(Items) /\ v.contents[b] = Without(w.contents[b], i)
    BY <1>1 DEF Lost, Filled
  <2>2. QED BY <2>1, WithoutIs DEF In
<1>3. \A p \in Players : Worn(v, p) = Worn(w, p) \ {i}
  BY DEF Worn, Lost
<1>4. v.ground = w.ground \ {i}
  BY DEF Lost
<1>5. QED BY <1>1, <1>2, <1>3, <1>4 DEF Top

LEMMA LostSingle ==
    ASSUME ItemsAssumption, NEW w \in World, NEW i, NEW v, Lost(v, w, i), Single(w)
    PROVE  Single(v)
<1>1. WornOnce(v)
  BY DEF Single, WornOnce, Lost
<1>2. HeldOnce(v)
  <2> SUFFICES ASSUME NEW b \in Bags, NEW c \in Bags, NEW n \in 1..Len(v.contents[b]), NEW m \in 1..Len(v.contents[c]),
                      v.contents[b][n] = v.contents[c][m]
               PROVE  b = c /\ n = m
    BY DEF HeldOnce
  <2>1. w.contents[b] \in Seq(Items) /\ w.contents[c] \in Seq(Items)
    BY LostIn DEF Filled
  <2>2. v.contents[b] = Without(w.contents[b], i) /\ v.contents[c] = Without(w.contents[c], i)
    BY DEF Lost
  <2> DEFINE G == [d \in Bags |-> CHOOSE g : Lacks(g, v.contents[d], w.contents[d], i)]
             g == G[b]
             h == G[c]
  <2>3. Lacks(g, v.contents[b], w.contents[b], i)
    BY <2>1, <2>2, WithoutIs
  <2>4. Lacks(h, v.contents[c], w.contents[c], i)
    BY <2>1, <2>2, WithoutIs
  <2>10. b = c => g = h
    OBVIOUS
  <2> HIDE DEF G, g, h
  <2>5. /\ g[n] \in 1..Len(w.contents[b]) /\ h[m] \in 1..Len(w.contents[c])
        /\ w.contents[b][g[n]] = w.contents[c][h[m]]
    BY <2>3, <2>4 DEF Lacks
  <2>6. b = c /\ g[n] = h[m]
    BY <2>5 DEF Single, HeldOnce
  <2>7. g = h /\ n \in 1..Len(v.contents[b]) /\ m \in 1..Len(v.contents[b])
    BY <2>6, <2>10
  <2>8. n = m
    BY <2>3, <2>6, <2>7 DEF Lacks
  <2>9. QED BY <2>6, <2>8
<1>3. /\ \A c \in Bags : In(v, c) \subseteq In(w, c) /\ Top(v) \subseteq Top(w)
      /\ \A p \in Players : Worn(v, p) \subseteq Worn(w, p)
      /\ v.ground \subseteq w.ground
  BY LostIn
<1>4. QED BY <1>1, <1>2, <1>3 DEF Single

\* Where i was not, nothing changes; elsewhere only i is gone, with what is in it.
LEMMA LostAll ==
    ASSUME ItemsAssumption, NEW w \in World, NEW i, NEW v, Lost(v, w, i), NEW X, X \subseteq Items
    PROVE  /\ AndAllIn(v, X) \subseteq AndAllIn(w, X)
           /\ i \notin AndAllIn(w, X) => AndAllIn(v, X) = AndAllIn(w, X)
           /\ i \in Items => AndAllIn(w, X) \subseteq AndAllIn(v, X \ {i}) \cup Tree(w, i)
<1>1. /\ Filled(v) /\ Filled(w)
      /\ \A b \in Bags : In(v, b) = In(w, b) \ {i}
  BY LostIn
<1>2. LeastWith(w, AndAllIn(w, X), X) /\ LeastWith(v, AndAllIn(v, X), X)
  BY <1>1, AllIs
<1>3. AndAllIn(v, X) \subseteq AndAllIn(w, X)
  <2>1. Sealed(v, AndAllIn(w, X))
    BY <1>1, <1>2 DEF LeastWith, Sealed
  <2>2. QED BY <1>2, <2>1 DEF LeastWith
<1>4. ASSUME i \notin AndAllIn(w, X) PROVE AndAllIn(v, X) = AndAllIn(w, X)
  <2>1. ASSUME NEW c \in AndAllIn(w, X) \cap Bags PROVE In(v, c) = In(w, c)
    <3>1. In(w, c) \subseteq AndAllIn(w, X)
      BY <1>2 DEF LeastWith, Sealed
    <3>2. QED BY <1>1, <1>4, <3>1
  <2>2. QED BY <1>1, <2>1, AllSame
<1>5. ASSUME i \in Items PROVE AndAllIn(w, X) \subseteq AndAllIn(v, X \ {i}) \cup Tree(w, i)
  <2> DEFINE S == AndAllIn(v, X \ {i}) \cup Tree(w, i)
  <2>1. LeastWith(v, AndAllIn(v, X \ {i}), X \ {i}) /\ LeastWith(w, Tree(w, i), {i})
    BY <1>1, <1>5, AllIs DEF Tree
  <2>2. X \subseteq S
    BY <2>1 DEF LeastWith
  <2>3. Sealed(w, S)
    <3> SUFFICES ASSUME NEW c \in S \cap Bags, NEW x \in In(w, c), x \notin Tree(w, i) PROVE x \in AndAllIn(v, X \ {i})
      BY DEF Sealed
    <3>1. x # i
      BY <2>1 DEF LeastWith
    <3>2. c \in AndAllIn(v, X \ {i})
      BY <2>1 DEF LeastWith, Sealed
    <3>3. QED BY <1>1, <2>1, <3>1, <3>2 DEF LeastWith, Sealed
  <2>4. QED BY <1>2, <2>2, <2>3 DEF LeastWith
<1>6. QED BY <1>3, <1>4, <1>5

\* An item that is nowhere, in a world that is whole but for it and what is in it.
Loose(w, i) ==
    /\ w \in World /\ Single(w) /\ Tight(w) /\ i \in Items
    /\ i \notin Top(w) /\ \A c \in Bags : i \notin In(w, c)
    /\ Bags \subseteq Placed(w) \cup Tree(w, i)

LEMMA PlacedInItems ==
    ASSUME ItemsAssumption, NEW w \in World
    PROVE  Placed(w) \subseteq Items /\ Sealed(w, Placed(w)) /\ Top(w) \subseteq Placed(w)
<1>1. Filled(w) /\ Top(w) \subseteq Items
  BY WorldParts
<1>2. QED BY <1>1, AllIs, PlacedIs DEF LeastWith

LEMMA NotInItself ==
    ASSUME ItemsAssumption, NEW w \in World, Single(w), NEW i \in Placed(w)
    PROVE  i \notin Holding(w, i)
<1>1. Filled(w) /\ HeldOnce(w) /\ Top(w) \subseteq Items
      /\ \A c \in Bags : In(w, c) \cap Top(w) = {}
  BY WorldParts DEF Single
<1>2. i \in AndAllIn(w, Top(w))
  BY PlacedIs
<1>3. QED BY <1>1, <1>2, NoLoop

LEMMA LostTree ==
    ASSUME ItemsAssumption, NEW w \in World, Single(w), NEW i \in Placed(w), NEW v, Lost(v, w, i)
    PROVE  Tree(v, i) = Tree(w, i)
<1>1. Filled(v) /\ Filled(w) /\ i \in Items /\ \A b \in Bags : In(v, b) = In(w, b) \ {i}
  BY LostIn, PlacedInItems
<1>2. i \notin Holding(w, i)
  BY NotInItself
<1>3. ASSUME NEW c \in Tree(w, i) \cap Bags PROVE i \notin In(w, c)
  <2>1. c = i \/ c \in Holding(w, i)
    BY TreeIs
  <2>2. CASE c = i
    BY <1>1, <1>2, <2>2, HoldingIs DEF LeastWith
  <2>3. CASE c \in Holding(w, i)
    <3>1. i \in Bags
      BY <2>3 DEF Holding
    <3>2. QED BY <1>1, <1>2, <2>3, <3>1, HoldingIs DEF LeastWith, Sealed
  <2>4. QED BY <2>1, <2>2, <2>3
<1>4. \A c \in AndAllIn(w, {i}) \cap Bags : In(v, c) = In(w, c)
  BY <1>1, <1>3 DEF Tree
<1>5. QED BY <1>1, <1>4, AllSame DEF Tree

LEMMA LostLoose ==
    ASSUME ItemsAssumption, NEW w, Whole(w), NEW i \in Placed(w), NEW v, Lost(v, w, i)
    PROVE  Loose(v, i) /\ Placed(v) \subseteq Placed(w)
           /\ Placed(w) \subseteq Placed(v) \cup Tree(w, i)
<1>1. w \in World /\ Single(w) /\ Tight(w) /\ Bags \subseteq Placed(w) /\ v \in World
  BY DEF Whole, Lost
<1>2. i \in Items
  BY <1>1, PlacedInItems
<1>3. /\ \A b \in Bags : In(v, b) = In(w, b) \ {i} /\ Len(v.contents[b]) <= Len(w.contents[b])
      /\ Top(v) = Top(w) \ {i} /\ Top(w) \subseteq Items /\ Filled(v) /\ Filled(w)
  BY <1>1, LostIn, WorldParts
<1>4. Single(v)
  BY <1>1, LostSingle
<1>5. Tree(v, i) = Tree(w, i)
  BY <1>1, LostTree
<1>6. Placed(w) \subseteq Placed(v) \cup Tree(w, i)
  BY <1>1, <1>2, <1>3, LostAll, PlacedIs
<1>7. Placed(v) \subseteq Placed(w)
  <2>1. AndAllIn(v, Top(w)) \subseteq AndAllIn(w, Top(w))
    BY <1>1, <1>3, LostAll
  <2>2. AndAllIn(v, Top(v)) \subseteq AndAllIn(v, Top(w))
    <3>1. Top(v) \subseteq AndAllIn(v, Top(w))
      BY <1>3, AllIs DEF LeastWith
    <3>2. QED BY <1>3, <3>1, AllMono
  <2>3. QED BY <1>1, <2>1, <2>2, PlacedIs
<1>8. Tight(v)
  <2> SUFFICES ASSUME NEW b \in Bags PROVE Len(v.contents[b]) <= BagSize
    BY DEF Tight
  <2>1. v.contents[b] \in Seq(Items) /\ w.contents[b] \in Seq(Items)
    BY <1>3 DEF Filled
  <2>2. Len(v.contents[b]) \in Nat /\ Len(w.contents[b]) \in Nat /\ BagSize \in Nat
    BY <2>1 DEF ItemsAssumption
  <2>3. QED BY <1>1, <1>3, <2>2 DEF Tight
<1>9. Bags \subseteq Placed(v) \cup Tree(v, i)
  BY <1>1, <1>5, <1>6
<1>10. QED BY <1>1, <1>2, <1>3, <1>4, <1>6, <1>7, <1>8, <1>9 DEF Loose

-----------------------------------------------------------------------------
(* Putting an item into a bag                                              *)

\* v is w with i in front of what was in b.
Gained(v, w, b, i) ==
    /\ v \in World /\ v.inventory = w.inventory /\ v.ground = w.ground
    /\ \A c \in Bags : v.contents[c] = IF c = b THEN <<i>> \o w.contents[c] ELSE w.contents[c]

ForgetfulOf(v, w, near0, b) ==
    {p \in Watching(v, near0, b) : w.backpack[p].bag # b \/ Full(v, b)}

LEMMA PutInIs ==
    ASSUME ItemsAssumption, NEW w \in World, NEW near0, NEW b \in Bags, NEW index, ~(index >= BagSize), NEW i \in Items
    PROVE  \E u : /\ Gained(u, w, b, i) /\ u.backpack = w.backpack
                  /\ AsBefore(PutIn(w, near0, b, index, i), u)
                  /\ ForgottenBy(PutIn(w, near0, b, index, i), w, ForgetfulOf(u, w, near0, b))
<1> DEFINE u == [w EXCEPT !.contents[b] = <<i>> \o @]
           c == [w.contents EXCEPT ![b] = <<i>> \o w.contents[b]]
<1>1. PutIn(w, near0, b, index, i) = Forget(u, ForgetfulOf(u, w, near0, b))
  BY DEF PutIn, ForgetfulOf
<1>0. w.contents \in [Bags -> Seq(Items)]
  BY DEF World
<1>2. u = [inventory |-> w.inventory, contents |-> c, ground |-> w.ground, backpack |-> w.backpack]
  <2>1. u = [w EXCEPT !.contents = c]
    OBVIOUS
  <2> HIDE DEF u, c
  <2>2. QED BY <2>1, WorldIs
<1>3. c \in [Bags -> Seq(Items)]
  BY <1>0
<1>4. \A d \in Bags : c[d] = IF d = b THEN <<i>> \o w.contents[d] ELSE w.contents[d]
  BY <1>0
<1> HIDE DEF u, c
<1>5. u \in World
  BY <1>2, <1>3, WorldOf DEF World
<1>6. Gained(u, w, b, i) /\ u.backpack = w.backpack
  BY <1>2, <1>4, <1>5 DEF Gained
<1>7. /\ AsBefore(Forget(u, ForgetfulOf(u, w, near0, b)), u)
      /\ ForgottenBy(Forget(u, ForgetfulOf(u, w, near0, b)), u, ForgetfulOf(u, w, near0, b))
  BY <1>5, ForgetIs
<1>8. QED BY <1>1, <1>6, <1>7 DEF ForgottenBy

LEMMA GainedSame ==
    ASSUME NEW v, NEW u, NEW w, NEW b, NEW i, Gained(u, w, b, i), AsBefore(v, u)
    PROVE  Gained(v, w, b, i)
BY DEF Gained, AsBefore

LEMMA GainedIn ==
    ASSUME ItemsAssumption, NEW w \in World, NEW b \in Bags, NEW i \in Items, NEW v, Gained(v, w, b, i)
    PROVE  /\ Filled(v) /\ Filled(w) /\ Top(v) = Top(w) /\ v.ground = w.ground
           /\ \A c \in Bags : In(v, c) = IF c = b THEN In(w, c) \cup {i} ELSE In(w, c)
           /\ Len(v.contents[b]) = Len(w.contents[b]) + 1
           /\ \A p \in Players : Worn(v, p) = Worn(w, p)
<1>1. Filled(v) /\ Filled(w)
  BY WorldParts DEF Gained
<1>2. w.contents[b] \in Seq(Items) /\ v.contents[b] = <<i>> \o w.contents[b]
  BY <1>1 DEF Gained, Filled
<1>3. Len(v.contents[b]) = Len(w.contents[b]) + 1
      /\ Elems(v.contents[b]) = Elems(w.contents[b]) \cup {i}
  <2> DEFINE seq == w.contents[b]
             r == <<i>> \o seq
  <2>1. Len(seq) \in Nat /\ DOMAIN seq = 1..Len(seq)
    BY <1>2
  <2>2. Len(r) = Len(seq) + 1 /\ r[1] = i /\ DOMAIN r = 1..(Len(seq) + 1)
    BY <1>2
  <2>3. \A n \in 1..Len(seq) : r[n + 1] = seq[n]
    BY <1>2
  <2> HIDE DEF r, seq
  <2>4. Elems(seq) \cup {i} \subseteq Elems(r)
    <3>1. \A n \in 1..Len(seq) : n + 1 \in DOMAIN r
      BY <2>1, <2>2
    <3>2. 1 \in DOMAIN r
      BY <2>1, <2>2
    <3>3. QED BY <2>1, <2>2, <2>3, <3>1, <3>2 DEF Elems
  <2>5. ASSUME NEW m \in DOMAIN r PROVE r[m] \in Elems(seq) \cup {i}
    <3>1. CASE m = 1
      BY <2>2, <3>1
    <3>2. CASE m # 1
      <4>1. m - 1 \in 1..Len(seq) /\ (m - 1) + 1 = m
        BY <2>1, <2>2, <3>2
      <4>2. r[m] = seq[m - 1]
        BY <2>3, <4>1
      <4>3. QED BY <2>1, <4>1, <4>2 DEF Elems
    <3>3. QED BY <3>1, <3>2
  <2>6. Elems(r) = Elems(seq) \cup {i}
    BY <2>4, <2>5 DEF Elems
  <2>7. QED BY <1>2, <2>2, <2>6 DEF r, seq
<1>4. \A c \in Bags : In(v, c) = IF c = b THEN In(w, c) \cup {i} ELSE In(w, c)
  BY <1>3 DEF In, Gained
<1>5. \A p \in Players : Worn(v, p) = Worn(w, p)
  BY DEF Worn, Gained
<1>6. v.ground = w.ground
  BY DEF Gained
<1>7. QED BY <1>1, <1>3, <1>4, <1>5, <1>6 DEF Top

LEMMA GainedAll ==
    ASSUME ItemsAssumption, NEW w \in World, NEW b \in Bags, NEW i \in Items, NEW v, Gained(v, w, b, i),
           NEW X, X \subseteq Items
    PROVE  /\ b \notin AndAllIn(w, X) => AndAllIn(v, X) = AndAllIn(w, X)
           /\ b \in AndAllIn(w, X) => AndAllIn(v, X) = AndAllIn(w, X) \cup Tree(w, i)
<1>1. /\ Filled(v) /\ Filled(w)
      /\ \A c \in Bags : In(v, c) = IF c = b THEN In(w, c) \cup {i} ELSE In(w, c)
  BY GainedIn
<1>2. /\ LeastWith(w, AndAllIn(w, X), X) /\ LeastWith(v, AndAllIn(v, X), X)
      /\ LeastWith(w, Tree(w, i), {i})
  BY <1>1, AllIs DEF Tree
<1>3. ASSUME b \notin AndAllIn(w, X) PROVE AndAllIn(v, X) = AndAllIn(w, X)
  <2>1. \A c \in AndAllIn(w, X) \cap Bags : In(v, c) = In(w, c)
    BY <1>1, <1>3
  <2>2. QED BY <1>1, <2>1, AllSame
<1>4. ASSUME b \in AndAllIn(w, X) PROVE AndAllIn(v, X) = AndAllIn(w, X) \cup Tree(w, i)
  <2> DEFINE S == AndAllIn(w, X) \cup Tree(w, i)
  <2>1. X \subseteq S
    BY <1>2 DEF LeastWith
  <2>2. Sealed(v, S)
    <3> SUFFICES ASSUME NEW c \in S \cap Bags PROVE In(v, c) \subseteq S
      BY DEF Sealed
    <3>1. In(w, c) \subseteq S
      BY <1>2 DEF LeastWith, Sealed
    <3>2. i \in S
      BY <1>2 DEF LeastWith
    <3>3. QED BY <1>1, <3>1, <3>2
  <2>3. AndAllIn(v, X) \subseteq S
    BY <1>2, <2>1, <2>2 DEF LeastWith
  <2>4. Sealed(w, AndAllIn(v, X))
    <3>1. \A c \in Bags : In(w, c) \subseteq In(v, c)
      BY <1>1
    <3>2. QED BY <1>2, <3>1 DEF LeastWith, Sealed
  <2>5. AndAllIn(w, X) \subseteq AndAllIn(v, X)
    BY <1>2, <2>4 DEF LeastWith
  <2>6. i \in AndAllIn(v, X)
    <3>1. In(v, b) \subseteq AndAllIn(v, X)
      BY <1>2, <1>4, <2>5 DEF LeastWith, Sealed
    <3>2. QED BY <1>1, <3>1
  <2>7. Tree(w, i) \subseteq AndAllIn(v, X)
    BY <1>2, <2>4, <2>6 DEF LeastWith
  <2>8. QED BY <2>3, <2>5, <2>7
<1>5. QED BY <1>3, <1>4

LEMMA GainedSingle ==
    ASSUME ItemsAssumption, NEW w, NEW i, Loose(w, i), NEW b \in Bags, NEW v, Gained(v, w, b, i)
    PROVE  Single(v)
<1>1. w \in World /\ Single(w) /\ i \in Items /\ i \notin Top(w)
      /\ \A c \in Bags : i \notin In(w, c)
  BY DEF Loose
<1>2. WornOnce(v)
  BY <1>1 DEF Gained, Single, WornOnce
<1>3. /\ Filled(v) /\ Filled(w) /\ Top(v) = Top(w) /\ v.ground = w.ground
      /\ \A c \in Bags : In(v, c) = IF c = b THEN In(w, c) \cup {i} ELSE In(w, c)
      /\ \A p \in Players : Worn(v, p) = Worn(w, p)
  BY <1>1, GainedIn
\* Where each entry was before, unless it is the new one.
<1> DEFINE Was(c, n) == IF c = b THEN n - 1 ELSE n
<1>4. ASSUME NEW c \in Bags, NEW n \in 1..Len(v.contents[c])
      PROVE  \/ c = b /\ n = 1 /\ v.contents[c][n] = i
             \/ /\ c # b \/ n # 1
                /\ Was(c, n) \in 1..Len(w.contents[c])
                   /\ v.contents[c][n] = w.contents[c][Was(c, n)]
                /\ v.contents[c][n] # i
  <2>1. w.contents[c] \in Seq(Items)
    BY <1>3 DEF Filled
  <2>2. CASE c # b
    <3>1. v.contents[c] = w.contents[c]
      BY <2>2 DEF Gained
    <3>2. w.contents[c][n] \in In(w, c)
      BY <2>1, <3>1 DEF In, Elems
    <3>3. QED BY <1>1, <2>2, <3>1, <3>2
  <2>3. CASE c = b
    <3>1. v.contents[c] = <<i>> \o w.contents[c]
      BY <2>3 DEF Gained
    <3>2. CASE n = 1
      BY <2>1, <2>3, <3>1, <3>2
    <3>3. CASE n # 1
      <4>1. n - 1 \in 1..Len(w.contents[c]) /\ v.contents[c][n] = w.contents[c][n - 1]
        BY <2>1, <3>1, <3>3
      <4>2. w.contents[c][n - 1] \in In(w, c)
        BY <2>1, <4>1 DEF In, Elems
      <4>3. QED BY <1>1, <2>3, <3>3, <4>1, <4>2
    <3>4. QED BY <3>2, <3>3
  <2>4. QED BY <2>2, <2>3
<1>5. HeldOnce(v)
  <2> SUFFICES ASSUME NEW c \in Bags, NEW d \in Bags, NEW n \in 1..Len(v.contents[c]), NEW m \in 1..Len(v.contents[d]),
                      v.contents[c][n] = v.contents[d][m]
               PROVE  c = d /\ n = m
    BY DEF HeldOnce
  <2>1. CASE v.contents[c][n] = i
    BY <1>4, <2>1
  <2>2. CASE v.contents[c][n] # i
    <3> HIDE DEF Was
    <3>1. /\ Was(c, n) \in 1..Len(w.contents[c]) /\ Was(d, m) \in 1..Len(w.contents[d])
          /\ w.contents[c][Was(c, n)] = w.contents[d][Was(d, m)]
      BY <1>4, <2>2
    <3>2. c = d /\ Was(c, n) = Was(d, m)
      BY <1>1, <3>1 DEF Single, HeldOnce
    <3>3. n \in Int /\ m \in Int
      OBVIOUS
    <3>4. QED BY <3>2, <3>3 DEF Was
  <2>3. QED BY <2>1, <2>2
<1>6. QED BY <1>1, <1>2, <1>3, <1>5 DEF Single

\* A world is whole again when the item that was nowhere has its place.
LEMMA GainedWhole ==
    ASSUME ItemsAssumption, NEW w, NEW i, Loose(w, i), NEW b \in Bags, b \in Placed(w),
           Len(w.contents[b]) < BagSize, NEW v, Gained(v, w, b, i)
    PROVE  Whole(v) /\ Placed(v) = Placed(w) \cup Tree(w, i)
<1>1. /\ w \in World /\ Tight(w) /\ i \in Items /\ Bags \subseteq Placed(w) \cup Tree(w, i)
  BY DEF Loose
<1>2. /\ Filled(v) /\ Filled(w) /\ Top(v) = Top(w) /\ Top(w) \subseteq Items
      /\ Len(v.contents[b]) = Len(w.contents[b]) + 1
  BY <1>1, GainedIn, WorldParts
<1>3. v \in World
      /\ \A c \in Bags : v.contents[c] = IF c = b THEN <<i>> \o w.contents[c] ELSE w.contents[c]
  BY DEF Gained
<1>4. Placed(v) = Placed(w) \cup Tree(w, i)
  <2>1. b \in AndAllIn(w, Top(w))
    BY <1>1, PlacedIs
  <2>2. AndAllIn(v, Top(w)) = AndAllIn(w, Top(w)) \cup Tree(w, i)
    BY <1>1, <1>2, <2>1, GainedAll
  <2>3. QED BY <1>1, <1>2, <1>3, <2>2, PlacedIs
<1>5. Tight(v)
  <2> SUFFICES ASSUME NEW c \in Bags PROVE Len(v.contents[c]) <= BagSize
    BY DEF Tight
  <2>1. CASE c = b
    <3>1. w.contents[b] \in Seq(Items) /\ BagSize \in Nat
      BY <1>2 DEF Filled, ItemsAssumption
    <3>2. Len(w.contents[b]) \in Nat
      BY <3>1
    <3>3. QED BY <1>2, <2>1, <3>1, <3>2
  <2>2. CASE c # b
    BY <1>1, <1>3, <2>2 DEF Tight
  <2>3. QED BY <2>1, <2>2
<1>6. Single(v)
  BY GainedSingle
<1>7. QED BY <1>1, <1>3, <1>4, <1>5, <1>6 DEF Whole

-----------------------------------------------------------------------------
(* Putting an item into a slot or on the ground                            *)

\* v is w with i at a place of its own, out of every bag.
Topped(v, w, i) ==
    /\ v \in World /\ Single(v) /\ v.contents = w.contents /\ v.backpack = w.backpack
    /\ Top(v) = Top(w) \cup {i} /\ w.ground \subseteq v.ground
    /\ \A p \in Players : Worn(w, p) \subseteq Worn(v, p)

LEMMA ToppedWhole ==
    ASSUME ItemsAssumption, NEW w, NEW i, Loose(w, i), NEW v, Topped(v, w, i)
    PROVE  Whole(v) /\ Placed(v) = Placed(w) \cup Tree(w, i)
<1>1. /\ w \in World /\ Tight(w) /\ i \in Items /\ Bags \subseteq Placed(w) \cup Tree(w, i)
  BY DEF Loose
<1>2. v \in World /\ Single(v) /\ v.contents = w.contents /\ Top(v) = Top(w) \cup {i}
  BY DEF Topped
<1>3. Filled(v) /\ Filled(w) /\ Top(w) \subseteq Items /\ Top(v) \subseteq Items
  BY <1>1, <1>2, WorldParts
<1>4. \A c \in Bags : In(v, c) = In(w, c)
  BY <1>2 DEF In
<1>5. AndAllIn(v, Top(v)) = AndAllIn(w, Top(v))
  BY <1>3, <1>4, AllSame
<1>6. AndAllIn(w, Top(v)) = AndAllIn(w, Top(w)) \cup Tree(w, i)
  <2>1. /\ LeastWith(w, AndAllIn(w, Top(v)), Top(v)) /\ LeastWith(w, AndAllIn(w, Top(w)), Top(w))
        /\ LeastWith(w, Tree(w, i), {i})
    BY <1>1, <1>3, AllIs DEF Tree
  <2>2. Sealed(w, AndAllIn(w, Top(w)) \cup Tree(w, i))
    BY <2>1 DEF LeastWith, Sealed
  <2>3. QED BY <1>2, <2>1, <2>2 DEF LeastWith
<1>7. Placed(v) = Placed(w) \cup Tree(w, i)
  BY <1>1, <1>2, <1>5, <1>6, PlacedIs
<1>8. Tight(v)
  BY <1>1, <1>2 DEF Tight
<1>9. QED BY <1>1, <1>2, <1>7, <1>8 DEF Whole

LEMMA SlotTopped ==
    ASSUME ItemsAssumption, NEW w, NEW i, Loose(w, i), NEW p \in Players, NEW s \in Slots, w.inventory[p][s] = NoItem
    PROVE  Topped([w EXCEPT !.inventory[p][s] = i], w, i)
<1> DEFINE v == [w EXCEPT !.inventory[p][s] = i]
           h == [w.inventory EXCEPT ![p][s] = i]
<1>1. w \in World /\ Single(w) /\ i \in Items /\ i \notin Top(w)
      /\ \A c \in Bags : i \notin In(w, c)
  BY DEF Loose
<1>0. w.inventory \in [Players -> [Slots -> Items \cup {NoItem}]]
  BY <1>1 DEF World
<1>2. v = [inventory |-> h, contents |-> w.contents, ground |-> w.ground, backpack |-> w.backpack]
  <2>1. v = [w EXCEPT !.inventory = h]
    OBVIOUS
  <2> HIDE DEF v, h
  <2>2. QED BY <1>1, <2>1, WorldIs
<1>3. h \in [Players -> [Slots -> Items \cup {NoItem}]]
  BY <1>0, <1>1
<1>4. \A q \in Players : \A t \in Slots : h[q][t] = IF q = p /\ t = s THEN i ELSE w.inventory[q][t]
  BY <1>0
<1> HIDE DEF v, h
<1>5. v \in World /\ v.contents = w.contents /\ v.backpack = w.backpack /\ v.ground = w.ground
      /\ v.inventory = h
  BY <1>1, <1>2, <1>3, WorldOf DEF World
<1>6. i # NoItem
  BY <1>1 DEF ItemsAssumption
<1>7. ASSUME NEW q \in Players
      PROVE  Worn(v, q) = IF q = p THEN Worn(w, q) \cup {i} ELSE Worn(w, q)
  <2>1. CASE q = p
    <3>1. ASSUME NEW x \in Worn(w, q) PROVE x \in Worn(v, q)
      <4>1. PICK t \in Slots : x = w.inventory[q][t] /\ x # NoItem
        BY DEF Worn
      <4>2. t # s
        BY <2>1, <4>1
      <4>3. v.inventory[q][t] = x
        BY <1>4, <1>5, <4>1, <4>2
      <4>4. QED BY <4>1, <4>3 DEF Worn
    <3>2. i \in Worn(v, q)
      <4>1. v.inventory[q][s] = i
        BY <1>4, <1>5, <2>1
      <4>2. QED BY <1>6, <4>1 DEF Worn
    <3>3. ASSUME NEW x \in Worn(v, q) PROVE x \in Worn(w, q) \cup {i}
      <4>1. PICK t \in Slots : x = v.inventory[q][t] /\ x # NoItem
        BY DEF Worn
      <4>2. QED BY <1>4, <1>5, <4>1 DEF Worn
    <3>4. QED BY <2>1, <3>1, <3>2, <3>3
  <2>2. CASE q # p
    <3>1. \A t \in Slots : v.inventory[q][t] = w.inventory[q][t]
      BY <1>4, <1>5, <2>2
    <3>2. QED BY <2>2, <3>1 DEF Worn
  <2>3. QED BY <2>1, <2>2
<1>8. Top(v) = Top(w) \cup {i}
  BY <1>5, <1>7 DEF Top
<1>9. WornOnce(v)
  <2>1. \A q \in Players : \A t \in Slots : w.inventory[q][t] # i
    <3> SUFFICES ASSUME NEW q \in Players, NEW t \in Slots, w.inventory[q][t] = i PROVE FALSE
      OBVIOUS
    <3>1. i \in Worn(w, q)
      BY <1>6 DEF Worn
    <3>2. QED BY <1>1, <3>1 DEF Top
  <2>2. QED BY <1>1, <1>4, <1>5, <2>1 DEF Single, WornOnce
<1>10. HeldOnce(v) /\ \A c \in Bags : In(v, c) = In(w, c)
  BY <1>1, <1>5 DEF Single, HeldOnce, In
<1>11. \A q \in Players : Worn(v, q) \cap v.ground = {}
  <2>1. i \notin w.ground
    BY <1>1 DEF Top
  <2>2. QED BY <1>1, <1>5, <1>7, <2>1 DEF Single
<1>12. Single(v)
  BY <1>1, <1>8, <1>9, <1>10, <1>11 DEF Single
<1>13. Topped(v, w, i)
  BY <1>5, <1>7, <1>8, <1>12 DEF Topped
<1>14. QED BY <1>13 DEF v

LEMMA DropTopped ==
    ASSUME ItemsAssumption, NEW w, NEW i, Loose(w, i)
    PROVE  Topped(Drop(w, i), w, i)
<1> DEFINE v == Drop(w, i)
           g == w.ground \cup {i}
<1>1. w \in World /\ Single(w) /\ i \in Items /\ i \notin Top(w)
      /\ \A c \in Bags : i \notin In(w, c)
  BY DEF Loose
<1>2. v = [inventory |-> w.inventory, contents |-> w.contents, ground |-> g, backpack |-> w.backpack]
  <2>1. v = [w EXCEPT !.ground = g]
    BY DEF Drop
  <2> HIDE DEF v, g
  <2>2. QED BY <1>1, <2>1, WorldIs
<1>3. g \subseteq Items
  BY <1>1, WorldParts
<1> HIDE DEF v
<1>4. v \in World /\ v.contents = w.contents /\ v.backpack = w.backpack /\ v.ground = g
      /\ v.inventory = w.inventory
  BY <1>1, <1>2, <1>3, WorldOf DEF World
<1>5. \A q \in Players : Worn(v, q) = Worn(w, q)
  BY <1>4 DEF Worn
<1>6. Top(v) = Top(w) \cup {i}
  BY <1>4, <1>5 DEF Top
<1>7. WornOnce(v) /\ HeldOnce(v) /\ \A c \in Bags : In(v, c) = In(w, c)
  BY <1>1, <1>4 DEF Single, WornOnce, HeldOnce, In
<1>8. \A q \in Players : i \notin Worn(w, q)
  BY <1>1 DEF Top
<1>9. Single(v)
  BY <1>1, <1>4, <1>5, <1>6, <1>7, <1>8 DEF Single
<1>10. Topped(v, w, i)
  BY <1>4, <1>5, <1>6, <1>9 DEF Topped
<1>11. QED BY <1>10 DEF v

-----------------------------------------------------------------------------
(* Who carries what, and the bag a player remembers                        *)

\* Nobody carries less in v than in w, and no less lies on the ground.
Spared(v, w) ==
    Lying(w) \subseteq Lying(v) /\ \A p \in Players : Carried(w, p) \subseteq Carried(v, p)

LEMMA MoreSpared ==
    ASSUME ItemsAssumption, NEW w \in World, NEW v \in World, w.ground \subseteq v.ground,
           \A p \in Players : Worn(w, p) \subseteq Worn(v, p), \A c \in Bags : In(w, c) \subseteq In(v, c)
    PROVE  Spared(v, w)
<1>1. /\ Filled(w) /\ Filled(v) /\ v.ground \subseteq Items
         /\ \A p \in Players : Worn(v, p) \subseteq Items
  BY WorldParts
<1>2. Lying(w) \subseteq Lying(v)
  BY <1>1, AllMore DEF Lying
<1>3. \A p \in Players : Carried(w, p) \subseteq Carried(v, p)
  BY <1>1, AllMore DEF Carried
<1>4. QED BY <1>2, <1>3 DEF Spared

LEMMA GainedSpared ==
    ASSUME ItemsAssumption, NEW w \in World, NEW b \in Bags, NEW i \in Items, NEW v, Gained(v, w, b, i)
    PROVE  Spared(v, w)
<1>1. v \in World
  BY DEF Gained
<1>2. /\ v.ground = w.ground
      /\ \A c \in Bags : In(v, c) = IF c = b THEN In(w, c) \cup {i} ELSE In(w, c)
      /\ \A p \in Players : Worn(v, p) = Worn(w, p)
  BY GainedIn
<1>3. QED BY <1>1, <1>2, MoreSpared

LEMMA ToppedSpared ==
    ASSUME ItemsAssumption, NEW w \in World, NEW i, NEW v, Topped(v, w, i)
    PROVE  Spared(v, w)
<1>1. \A c \in Bags : In(v, c) = In(w, c)
  BY DEF Topped, In
<1>2. QED BY <1>1, MoreSpared DEF Topped

LEMMA AsBeforeSpared ==
    ASSUME ItemsAssumption, NEW w \in World, NEW v, AsBefore(v, w)
    PROVE  Spared(v, w)
BY SamePlaces DEF Spared

\* Who is not told carries nothing of what is taken.
LEMMA TakeOwn ==
    ASSUME ItemsAssumption, NEW w, Whole(w), Own(w), NEW near0, NEW i
    PROVE  Own(Take(w, near0, i))
<1> DEFINE v == Take(w, near0, i)
<1>1. w \in World /\ Single(w)
  BY DEF Whole
<1>2. Lost(v, w, i) /\ ForgottenBy(v, w, Told(w, near0, i))
  BY <1>1, TakeIs
<1> HIDE DEF v
<1>3. /\ Filled(v) /\ Filled(w) /\ \A p \in Players : Worn(v, p) = Worn(w, p) \ {i}
         /\ Worn(w, p) \subseteq Items
      /\ \A b \in Bags : Len(v.contents[b]) <= Len(w.contents[b])
  BY <1>1, <1>2, LostIn, WorldParts
<1> SUFFICES ASSUME NEW p \in Players, v.backpack[p].bag # NoItem
             PROVE  v.backpack[p].bag \in Carried(v, p)
                    /\ Len(v.contents[v.backpack[p].bag]) < BagSize
  BY DEF Own, v
<1> DEFINE b == v.backpack[p].bag
<1>4. p \notin Told(w, near0, i) /\ b = w.backpack[p].bag /\ b # NoItem
  BY <1>2 DEF ForgottenBy, NoBackpack
<1> HIDE DEF b
<1>5. b \in Bags /\ b \in Carried(w, p) /\ Len(w.contents[b]) < BagSize
  BY <1>1, <1>4, WorldParts DEF Own
<1>6. i \notin Carried(w, p)
  <2> SUFFICES ASSUME i \in Carried(w, p) PROVE FALSE
    OBVIOUS
  <2>1. i \notin w.ground
    <3>1. w.ground \subseteq Lying(w)
      BY <1>1, <1>3, AllIs, WorldParts DEF Lying, LeastWith
    <3>2. QED BY <1>1, <3>1, Owners
  <2>2. p \notin ToldOfTaking(w, near0, i)
    BY <1>4, <2>1 DEF Told
  <2>3. i \notin Worn(w, p)
    BY <2>2 DEF ToldOfTaking, WearersOf
  <2>4. PICK c \in Carried(w, p) \cap Bags : i \in In(w, c)
    BY <1>3, <2>3, AllUp DEF Carried
  <2>5. c \in HoldersOf(w, i)
    BY <2>4 DEF HoldersOf, In
  <2>6. p \in Watching(w, near0, c)
    BY <2>4 DEF Watching
  <2>7. QED BY <2>2, <2>5, <2>6 DEF ToldOfTaking
<1>7. Carried(v, p) = Carried(w, p)
  <2>0. Worn(w, p) \subseteq Carried(w, p)
    <3>1. LeastWith(w, AndAllIn(w, Worn(w, p)), Worn(w, p))
      BY <1>3, AllIs
    <3>2. QED BY <3>1 DEF Carried, LeastWith
  <2>1. i \notin Worn(w, p)
    BY <1>6, <2>0
  <2>2. Worn(v, p) = Worn(w, p)
    BY <1>3, <2>1
  <2>3. QED BY <1>1, <1>2, <1>3, <1>6, <2>2, LostAll DEF Carried
<1>8. Len(v.contents[b]) < BagSize
  <2>1. v.contents[b] \in Seq(Items) /\ w.contents[b] \in Seq(Items)
    BY <1>3, <1>5 DEF Filled
  <2>2. Len(v.contents[b]) \in Nat /\ Len(w.contents[b]) \in Nat /\ BagSize \in Nat
    BY <2>1 DEF ItemsAssumption
  <2>3. QED BY <1>3, <1>5, <2>2
<1>9. QED BY <1>5, <1>7, <1>8 DEF b

LEMMA PutInOwn ==
    ASSUME ItemsAssumption, NEW w \in World, Own(w), NEW near0, NEW b \in Bags, NEW index, ~(index >= BagSize), NEW i \in Items
    PROVE  Own(PutIn(w, near0, b, index, i))
<1> DEFINE v == PutIn(w, near0, b, index, i)
<1>1. PICK u : /\ Gained(u, w, b, i) /\ AsBefore(v, u)
           /\ ForgottenBy(v, w, ForgetfulOf(u, w, near0, b))
  BY PutInIs
<1> HIDE DEF v
<1>2. u \in World /\ Gained(v, w, b, i) /\ v.contents = u.contents
  BY <1>1, GainedSame DEF AsBefore, Gained
<1>3. Spared(u, w) /\ \A p \in Players : Carried(v, p) = Carried(u, p)
  BY <1>1, <1>2, GainedSpared, SamePlaces
<1> SUFFICES ASSUME NEW p \in Players, v.backpack[p].bag # NoItem
             PROVE  v.backpack[p].bag \in Carried(v, p)
                    /\ Len(v.contents[v.backpack[p].bag]) < BagSize
  BY DEF Own, v
<1> DEFINE m == v.backpack[p].bag
<1>4. p \notin ForgetfulOf(u, w, near0, b) /\ m = w.backpack[p].bag /\ m # NoItem
  BY <1>1 DEF ForgottenBy, NoBackpack
<1> HIDE DEF m
<1>5. m \in Bags /\ m \in Carried(w, p) /\ Len(w.contents[m]) < BagSize
  BY <1>4, WorldParts DEF Own
<1>6. m \in Carried(u, p)
  BY <1>3, <1>5 DEF Spared
<1>7. Len(u.contents[m]) < BagSize
  <2>1. CASE m = b
    <3>1. p \in Watching(u, near0, b)
      BY <1>6, <2>1 DEF Watching
    <3>2. ~Full(u, b)
      BY <1>4, <3>1 DEF ForgetfulOf
    <3>3. u.contents[b] \in Seq(Items) /\ BagSize \in Nat
      BY <1>2 DEF World, ItemsAssumption
    <3>4. Len(u.contents[b]) \in Nat
      BY <3>3
    <3>5. QED BY <2>1, <3>2, <3>3, <3>4 DEF Full
  <2>2. CASE m # b
    BY <1>1, <1>5, <2>2 DEF Gained
  <2>3. QED BY <2>1, <2>2
<1>8. QED BY <1>2, <1>3, <1>6, <1>7 DEF m

LEMMA ToppedOwn ==
    ASSUME ItemsAssumption, NEW w \in World, Own(w), NEW i, NEW v, Topped(v, w, i)
    PROVE  Own(v)
BY ToppedSpared DEF Own, Topped, Spared

LEMMA RememberingOwn ==
    ASSUME ItemsAssumption, NEW w \in World, Own(w), NEW p \in Players, NEW r,
           r.backpack \in [bag : Bags \cup {NoItem}, index : Nat],
           r.backpack.bag # NoItem => r.backpack.bag \in Carried(w, p)
           /\ Len(w.contents[r.backpack.bag]) < BagSize
    PROVE  Own(Remembering(w, p, r))
<1> DEFINE v == Remembering(w, p, r)
<1>1. AsBefore(v, w)
      /\ \A q \in Players : v.backpack[q] = IF q = p THEN r.backpack ELSE w.backpack[q]
  BY RememberingIs
<1> HIDE DEF v
<1>2. v.contents = w.contents /\ \A q \in Players : Carried(v, q) = Carried(w, q)
  BY <1>1, SamePlaces DEF AsBefore
<1>3. Own(v)
  BY <1>1, <1>2 DEF Own
<1>4. QED BY <1>3 DEF v

-----------------------------------------------------------------------------
(* The way to a place                                                      *)

LEMMA CarriedIs ==
    ASSUME ItemsAssumption, NEW w \in World, NEW p \in Players
    PROVE  /\ LeastWith(w, Carried(w, p), Worn(w, p)) /\ LeastWith(w, Lying(w), w.ground)
           /\ Carried(w, p) \subseteq Placed(w) /\ Lying(w) \subseteq Placed(w)
<1>1. Filled(w) /\ Worn(w, p) \subseteq Items /\ w.ground \subseteq Items
  BY WorldParts
<1>2. QED BY <1>1, AllIs DEF Carried, Lying, Placed

\* A bag that p carries and has room, or a slot.
OwnPlace(w, p, d) ==
    \/ d.kind = "none"
    \/ d.kind = "slot" /\ d.at \in Slots
    \/ /\ d.kind = "bag" /\ d.at \in Bags /\ d.at \in Carried(w, p) /\ d.index \in Int
       /\ Len(w.contents[d.at]) < BagSize

GoodWay(w, p, r) ==
    /\ OwnPlace(w, p, r.dest)
    /\ r.backpack \in [bag : Bags \cup {NoItem}, index : Nat]
    /\ r.backpack.bag # NoItem =>
         r.backpack.bag \in Carried(w, p) /\ Len(w.contents[r.backpack.bag]) < BagSize

LEMMA SearchedIs ==
    ASSUME ItemsAssumption, NEW w \in World, NEW p \in Players, NEW skip
    PROVE  Searched(w, p, skip) \subseteq Carried(w, p) \cap Bags
<1> DEFINE top == (Worn(w, p) \cap Bags) \ skip
<1>1. LeastWith(w, Carried(w, p), Worn(w, p)) /\ Filled(w)
  BY CarriedIs, WorldParts
<1>2. Complete(w, Carried(w, p), skip)
  BY <1>1 DEF LeastWith, Sealed, Complete
<1>3. ASSUME NEW b \in top PROVE Within(w, b, skip) \subseteq Carried(w, p)
  <2>1. In(w, b) \subseteq Carried(w, p)
    BY <1>1 DEF LeastWith, Sealed
  <2>2. QED BY <1>1, <1>2, <2>1, WithinIs
<1>4. top \subseteq Carried(w, p)
  BY <1>1 DEF LeastWith
<1>5. QED BY <1>3, <1>4 DEF Searched

LEMMA DestinationsAre ==
    ASSUME ItemsAssumption, NEW w \in World, Own(w), NEW p \in Players, NEW i \in Items, NEW offer, NEW autoStack,
           NEW r \in Destinations(w, p, i, offer, autoStack)
    PROVE  GoodWay(w, p, r)
<1> DEFINE memory == w.backpack[p]
           skip == {i, offer}
           free == {s \in Slots : CanWear(w, p, s, i)}
           room == {b \in Searched(w, p, skip) : CanPutIn(w, b, INDEX_WHEREEVER, i)}
           keep(d) == [dest |-> d, backpack |-> memory]
           remember(b) == [dest |-> Bag(b, INDEX_WHEREEVER), backpack |-> [bag |-> b, index |-> 0]]
           further == [memory EXCEPT !.index = IF @ < BagSize THEN @ + 1 ELSE @]
<1>1. \/ /\ memory.bag # NoItem
         /\ r = [dest |-> Bag(memory.bag, memory.index), backpack |-> further]
      \/ memory.bag = NoItem /\ \E s \in Slots : r = keep(Slot(s))
      \/ memory.bag = NoItem /\ \E b \in room : r = keep(Bag(b, Len(w.contents[b])))
      \/ \E b \in room : r = remember(b)
      \/ memory.bag = NoItem /\ r = keep(Nowhere)
  BY DEF Destinations
<1>2. memory \in [bag : Bags \cup {NoItem}, index : Nat] /\ Filled(w)
  BY WorldParts
<1>3. memory.bag # NoItem => /\ memory.bag \in Bags /\ memory.bag \in Carried(w, p)
                             /\ Len(w.contents[memory.bag]) < BagSize
  BY <1>2 DEF Own
<1>4. ASSUME NEW b \in room PROVE b \in Bags /\ b \in Carried(w, p) /\ Len(w.contents[b]) < BagSize
  BY SearchedIs DEF CanPutIn, HasRoom
<1> HIDE DEF room
<1>5. CASE memory.bag # NoItem /\ r = [dest |-> Bag(memory.bag, memory.index), backpack |-> further]
  <2>1. further \in [bag : Bags \cup {NoItem}, index : Nat] /\ further.bag = memory.bag
    <3>1. memory = [bag |-> memory.bag, index |-> memory.index] /\ memory.index \in Nat
      BY <1>2
    <3>2. BagSize \in Nat
      BY DEF ItemsAssumption
    <3> HIDE DEF memory
    <3>3. QED BY <1>2, <3>1, <3>2
  <2> HIDE DEF memory, further
  <2>2. r.dest = Bag(memory.bag, memory.index) /\ r.backpack = further
    BY <1>5
  <2>3. memory.index \in Int
    BY <1>2
  <2>4. OwnPlace(w, p, r.dest)
    BY <1>3, <1>5, <2>2, <2>3 DEF OwnPlace, Bag
  <2>5. QED BY <1>3, <2>1, <2>2, <2>4 DEF GoodWay
<1>6. CASE memory.bag = NoItem /\ \E s \in Slots : r = keep(Slot(s))
  BY <1>2, <1>6 DEF GoodWay, OwnPlace, Slot
<1>7. CASE memory.bag = NoItem /\ \E b \in room : r = keep(Bag(b, Len(w.contents[b])))
  <2>1. PICK b \in room : r = keep(Bag(b, Len(w.contents[b])))
    BY <1>7
  <2>2. w.contents[b] \in Seq(Items) /\ b \in Bags /\ b \in Carried(w, p)
        /\ Len(w.contents[b]) < BagSize
    BY <1>2, <1>4 DEF Filled
  <2>3. Len(w.contents[b]) \in Int
    BY <2>2
  <2>4. r.dest = Bag(b, Len(w.contents[b])) /\ r.backpack = memory
    BY <2>1
  <2>5. OwnPlace(w, p, r.dest)
    BY <2>2, <2>3, <2>4 DEF OwnPlace, Bag
  <2>6. QED BY <1>2, <1>7, <2>4, <2>5 DEF GoodWay
<1>8. CASE \E b \in room : r = remember(b)
  <2>1. PICK b \in room : r = remember(b)
    BY <1>8
  <2>2. r.dest = Bag(b, INDEX_WHEREEVER) /\ r.backpack = [bag |-> b, index |-> 0]
    BY <2>1
  <2>3. b \in Bags /\ b \in Carried(w, p) /\ Len(w.contents[b]) < BagSize
    BY <1>4
  <2>4. OwnPlace(w, p, r.dest)
    BY <2>2, <2>3 DEF OwnPlace, Bag, INDEX_WHEREEVER
  <2>5. QED BY <2>2, <2>3, <2>4 DEF GoodWay
<1>9. CASE memory.bag = NoItem /\ r = keep(Nowhere)
  BY <1>2, <1>9 DEF GoodWay, OwnPlace, Nowhere
<1>10. QED BY <1>1, <1>5, <1>6, <1>7, <1>8, <1>9

\* A slot, or a place in a bag that can be reached.
Proper(w, d) ==
    /\ d.kind = "slot" => d.at \in Slots
    /\ d.kind = "bag" => d.at \in Bags /\ d.at \in Placed(w) /\ ~(d.index >= BagSize)

LEMMA ResolvedIs ==
    ASSUME ItemsAssumption, NEW w \in World, NEW p \in Players, NEW d, OwnPlace(w, p, d)
    PROVE  /\ Proper(w, Resolved(w, d))
           /\ Resolved(w, d).kind = "bag" => Resolved(w, d).at \in Carried(w, p)
<1>1. LeastWith(w, Carried(w, p), Worn(w, p)) /\ Carried(w, p) \subseteq Placed(w) /\ Filled(w)
  BY CarriedIs, WorldParts
<1>0. BagSize \in Nat \ {0}
  BY DEF ItemsAssumption
<1>2. CASE d.kind # "bag"
  <2>1. Resolved(w, d) = d
    BY <1>2 DEF Resolved
  <2>2. QED BY <1>2, <2>1 DEF Proper, OwnPlace
<1>3. CASE d.kind = "bag"
  <2>1. d.at \in Bags /\ d.at \in Carried(w, p) /\ d.index \in Int
    BY <1>3 DEF OwnPlace
  <2>2. CASE d.index >= BagSize
    <3>1. Resolved(w, d) = Bag(d.at, INDEX_WHEREEVER)
      BY <1>3, <2>2 DEF Resolved
    <3>2. QED BY <1>0, <1>1, <2>1, <3>1 DEF Proper, Bag, INDEX_WHEREEVER
  <2>3. CASE /\ ~(d.index >= BagSize) /\ d.index \in 0..(Len(w.contents[d.at]) - 1)
             /\ w.contents[d.at][d.index + 1] \in Bags
    <3> DEFINE b == w.contents[d.at][d.index + 1]
    <3>1. Resolved(w, d) = Bag(b, INDEX_WHEREEVER)
      BY <1>3, <2>3 DEF Resolved
    <3>2. b \in In(w, d.at)
      <4>1. w.contents[d.at] \in Seq(Items)
        BY <1>1, <2>1 DEF Filled
      <4>2. d.index + 1 \in DOMAIN w.contents[d.at]
        BY <2>3, <4>1
      <4>3. QED BY <4>2 DEF In, Elems
    <3>3. b \in Bags
      BY <2>3
    <3> HIDE DEF b
    <3>4. b \in Carried(w, p)
      BY <1>1, <2>1, <3>2 DEF LeastWith, Sealed
    <3>5. QED BY <1>0, <1>1, <3>1, <3>3, <3>4 DEF Proper, Bag, INDEX_WHEREEVER
  <2>4. CASE /\ ~(d.index >= BagSize)
             /\ ~(d.index \in 0..(Len(w.contents[d.at]) - 1)
                /\ w.contents[d.at][d.index + 1] \in Bags)
    <3>1. Resolved(w, d) = d
      BY <1>3, <2>4 DEF Resolved
    <3>2. QED BY <1>1, <1>3, <2>1, <2>4, <3>1 DEF Proper
  <2>5. QED BY <2>2, <2>3, <2>4
<1>4. QED BY <1>2, <1>3

-----------------------------------------------------------------------------
(* Moving and adding                                                       *)

\* There is room for an item that is nowhere.
Free(w, p, d) ==
    \/ d.kind = "slot" /\ d.at \in Slots /\ w.inventory[p][d.at] = NoItem
    \/ /\ d.kind = "bag" /\ d.at \in Bags /\ d.at \in Placed(w) /\ ~(d.index >= BagSize)
       /\ Len(w.contents[d.at]) < BagSize

\* What v is to w when i was nowhere in w and has been put there.
PutThere(v, w, d, i) ==
    /\ Whole(v) /\ Own(v) /\ Placed(v) = Placed(w) \cup Tree(w, i) /\ Spared(v, w)
    /\ d.kind = "slot" => Topped(v, w, i)
    /\ d.kind = "bag" => d.at \in Bags /\ Gained(v, w, d.at, i)

LEMMA PutIs ==
    ASSUME ItemsAssumption, NEW w, NEW i, Loose(w, i), Own(w), NEW near0, NEW p \in Players, NEW d, Free(w, p, d)
    PROVE  PutThere(Put(w, near0, p, d, i), w, d, i)
<1> DEFINE v == Put(w, near0, p, d, i)
<1>1. w \in World /\ i \in Items
  BY DEF Loose
<1>2. CASE d.kind = "slot"
  <2> DEFINE s == d.at
  <2>1. s \in Slots /\ w.inventory[p][s] = NoItem /\ v = [w EXCEPT !.inventory[p][s] = i]
    BY <1>2 DEF Free, Put
  <2> HIDE DEF s, v
  <2>2. Topped(v, w, i)
    BY <2>1, SlotTopped
  <2>3. Whole(v) /\ Placed(v) = Placed(w) \cup Tree(w, i) /\ Own(v) /\ Spared(v, w)
    BY <1>1, <2>2, ToppedWhole, ToppedOwn, ToppedSpared
  <2>4. QED BY <1>2, <2>2, <2>3 DEF PutThere, v
<1>3. CASE d.kind = "bag"
  <2> DEFINE b == d.at
  <2>1. /\ b \in Bags /\ b \in Placed(w) /\ ~(d.index >= BagSize) /\ Len(w.contents[b]) < BagSize
        /\ v = PutIn(w, near0, b, d.index, i)
    BY <1>3 DEF Free, Put
  <2> HIDE DEF b, v
  <2>2. PICK u : Gained(u, w, b, i) /\ AsBefore(v, u)
    BY <1>1, <2>1, PutInIs
  <2>3. Gained(v, w, b, i) /\ Own(v)
    BY <1>1, <2>1, <2>2, GainedSame, PutInOwn
  <2>4. Whole(v) /\ Placed(v) = Placed(w) \cup Tree(w, i) /\ Spared(v, w)
    BY <1>1, <2>1, <2>3, GainedWhole, GainedSpared
  <2>5. QED BY <1>3, <2>1, <2>3, <2>4 DEF PutThere, v, b
<1>4. QED BY <1>2, <1>3 DEF Free

MovedTo(m, w, near0, p, i, d) ==
    \/ m.moved = {} /\ m.world = w
    \/ /\ m.moved = {i} /\ d.kind \in {"slot", "bag"}
       /\ d.kind = "slot" => w.inventory[p][d.at] = NoItem
       /\ d.kind = "bag" => d.at \notin Tree(w, i) /\ Len(w.contents[d.at]) < BagSize
       /\ m.world = Put(Take(w, near0, i), near0, p, d, i)

LEMMA MoveToIs ==
    ASSUME NEW w, NEW near0, NEW p, NEW i, NEW d
    PROVE  MovedTo(MoveTo(w, near0, p, i, d), w, near0, p, i, d)
<1> DEFINE m == MoveTo(w, near0, p, i, d)
<1>1. \/ m = [moved |-> {}, world |-> w]
      \/ /\ CanAdd(w, p, d, i) /\ (d.kind = "bag" => Len(w.contents[d.at]) < BagSize)
         /\ m = [moved |-> {i}, world |-> Put(Take(w, near0, i), near0, p, d, i)]
  BY DEF MoveTo
<1> HIDE DEF m
<1>2. CASE m = [moved |-> {}, world |-> w]
  BY <1>2 DEF MovedTo, m
<1>3. CASE /\ CanAdd(w, p, d, i) /\ (d.kind = "bag" => Len(w.contents[d.at]) < BagSize)
           /\ m = [moved |-> {i}, world |-> Put(Take(w, near0, i), near0, p, d, i)]
  <2>1. m.moved = {i} /\ m.world = Put(Take(w, near0, i), near0, p, d, i)
    BY <1>3
  <2>2. d.kind = "slot" => w.inventory[p][d.at] = NoItem
    BY <1>3 DEF CanAdd, CanWear
  <2>3. d.kind = "bag" => d.at \notin Tree(w, i)
    BY <1>3, TreeIs DEF CanAdd, CanPutIn, NotIntoItself
  <2>4. d.kind \in {"slot", "bag"}
    BY <1>3 DEF CanAdd
  <2>5. QED BY <1>3, <2>1, <2>2, <2>3, <2>4 DEF MovedTo, m
<1>4. QED BY <1>1, <1>2, <1>3

\* What v is to w when i has been taken and put there.
Moves(v, w, d, i) ==
    /\ Whole(v) /\ Own(v) /\ Placed(v) \subseteq Placed(w)
    /\ \E u : Lost(u, w, i) /\ Loose(u, i) /\ PutThere(v, u, d, i) /\ d.kind \in {"slot", "bag"}

LEMMA MovesIs ==
    ASSUME ItemsAssumption, NEW w, Whole(w), Own(w), NEW near0, NEW p \in Players, NEW i \in Placed(w),
           NEW d, Proper(w, d), NEW m, MovedTo(m, w, near0, p, i, d)
    PROVE  \/ m.moved = {} /\ m.world = w
           \/ m.moved = {i} /\ Moves(m.world, w, d, i)
<1> DEFINE u == Take(w, near0, i)
<1>1. w \in World /\ Single(w)
  BY DEF Whole
<1>2. Lost(u, w, i) /\ Own(u)
  BY <1>1, TakeIs, TakeOwn
<1> HIDE DEF u
<1>3. Loose(u, i) /\ Placed(u) \subseteq Placed(w) /\ Placed(w) \subseteq Placed(u) \cup Tree(w, i)
  BY <1>2, LostLoose
<1>4. Tree(u, i) = Tree(w, i)
  BY <1>1, <1>2, LostTree
<1>5. SUFFICES ASSUME ~(m.moved = {} /\ m.world = w)
               PROVE  m.moved = {i} /\ Moves(m.world, w, d, i)
  OBVIOUS
<1>6. /\ m.moved = {i} /\ d.kind \in {"slot", "bag"}
      /\ d.kind = "slot" => w.inventory[p][d.at] = NoItem
      /\ d.kind = "bag" => d.at \notin Tree(w, i) /\ Len(w.contents[d.at]) < BagSize
      /\ m.world = Put(u, near0, p, d, i)
  BY <1>5 DEF MovedTo, u
<1>7. Free(u, p, d)
  <2>1. CASE d.kind = "slot"
    <3>1. d.at \in Slots /\ w.inventory[p][d.at] = NoItem
      BY <1>6, <2>1 DEF Proper
    <3>2. u.inventory[p][d.at] = NoItem
      BY <1>2, <3>1 DEF Lost
    <3>3. QED BY <2>1, <3>1, <3>2 DEF Free
  <2>2. CASE d.kind = "bag"
    <3> DEFINE b == d.at
    <3>1. /\ b \in Bags /\ b \in Placed(w) /\ ~(d.index >= BagSize)
          /\ b \notin Tree(w, i) /\ Len(w.contents[b]) < BagSize
      BY <1>6, <2>2 DEF Proper
    <3> HIDE DEF b
    <3>2. b \in Placed(u) /\ Len(u.contents[b]) <= Len(w.contents[b]) /\ Filled(u) /\ Filled(w)
      BY <1>1, <1>2, <1>3, <3>1, LostIn
    <3>3. u.contents[b] \in Seq(Items) /\ w.contents[b] \in Seq(Items) /\ BagSize \in Nat
      BY <3>1, <3>2 DEF Filled, ItemsAssumption
    <3>4. Len(u.contents[b]) \in Nat /\ Len(w.contents[b]) \in Nat
      BY <3>3
    <3>5. Len(u.contents[b]) < BagSize
      BY <3>1, <3>2, <3>3, <3>4
    <3>6. QED BY <2>2, <3>1, <3>2, <3>5 DEF Free, b
  <2>3. QED BY <1>6, <2>1, <2>2
<1>8. PutThere(m.world, u, d, i)
  BY <1>2, <1>3, <1>6, <1>7, PutIs
<1>9. Tree(w, i) \subseteq Placed(w)
  <2>1. Filled(w) /\ Top(w) \subseteq Items /\ Placed(w) = AndAllIn(w, Top(w))
    BY <1>1, WorldParts, PlacedIs
  <2>2. {i} \subseteq AndAllIn(w, Top(w))
    BY <2>1
  <2>3. QED BY <2>1, <2>2, AllMono DEF Tree
<1>10. Whole(m.world) /\ Own(m.world) /\ Placed(m.world) \subseteq Placed(w)
  BY <1>3, <1>4, <1>8, <1>9 DEF PutThere
<1>11. QED BY <1>2, <1>3, <1>6, <1>8, <1>10 DEF Moves

LEMMA SameTree ==
    ASSUME ItemsAssumption, NEW v, NEW w \in World, AsBefore(v, w), NEW i \in Items
    PROVE  Tree(v, i) = Tree(w, i)
BY SameAll DEF Tree

LEMMA SameLoose ==
    ASSUME ItemsAssumption, NEW v, NEW w, NEW i, AsBefore(v, w), Loose(w, i)
    PROVE  Loose(v, i)
<1>1. /\ w \in World /\ Single(w) /\ Tight(w) /\ i \in Items
      /\ i \notin Top(w) /\ \A c \in Bags : i \notin In(w, c)
      /\ Bags \subseteq Placed(w) \cup Tree(w, i)
  BY DEF Loose
<1>2. Top(v) = Top(w) /\ Placed(v) = Placed(w) /\ Single(v) /\ Tree(v, i) = Tree(w, i)
  BY <1>1, SamePlaces, SameWhole, SameTree
<1>3. v \in World /\ Tight(v) /\ \A c \in Bags : In(v, c) = In(w, c)
  BY <1>1 DEF AsBefore, Tight, In
<1>4. QED BY <1>1, <1>2, <1>3 DEF Loose

\* A thing that is nowhere may come.
LEMMA NewLoose ==
    ASSUME ItemsAssumption, NEW w, Whole(w), NEW i \in Items, i \notin Placed(w)
    PROVE  Loose(w, i)
<1>1. w \in World /\ Single(w) /\ Tight(w) /\ Bags \subseteq Placed(w)
  BY DEF Whole
<1>2. Sealed(w, Placed(w)) /\ Top(w) \subseteq Placed(w)
  BY <1>1, PlacedInItems
<1>3. \A c \in Bags : i \notin In(w, c)
  BY <1>1, <1>2 DEF Sealed
<1>4. QED BY <1>1, <1>2, <1>3 DEF Loose

\* The world in which p has asked for a way.
Seen(u, w) == AsBefore(u, w) /\ Whole(u) /\ Own(u)

LEMMA SeenIs ==
    ASSUME ItemsAssumption, NEW w, Whole(w), Own(w), NEW p \in Players, NEW r, GoodWay(w, p, r)
    PROVE  Seen(Remembering(w, p, r), w) /\ OwnPlace(Remembering(w, p, r), p, r.dest)
<1> DEFINE u == Remembering(w, p, r)
<1>1. w \in World
  BY DEF Whole
<1>2. /\ r.backpack \in [bag : Bags \cup {NoItem}, index : Nat] /\ OwnPlace(w, p, r.dest)
      /\ r.backpack.bag # NoItem =>
           r.backpack.bag \in Carried(w, p) /\ Len(w.contents[r.backpack.bag]) < BagSize
  BY DEF GoodWay
<1>3. AsBefore(u, w) /\ Own(u)
  BY <1>1, <1>2, RememberingIs, RememberingOwn
<1> HIDE DEF u
<1>4. Whole(u) /\ Carried(u, p) = Carried(w, p) /\ u.contents = w.contents
  BY <1>1, <1>3, SameWhole, SamePlaces DEF AsBefore
<1>5. OwnPlace(u, p, r.dest)
  BY <1>2, <1>4 DEF OwnPlace
<1>6. QED BY <1>3, <1>4, <1>5 DEF Seen, u

LEMMA SeenSelf ==
    ASSUME NEW w, Whole(w), Own(w)
    PROVE  Seen(w, w)
BY DEF Seen, AsBefore, Whole

LEMMA SeenTwice ==
    ASSUME NEW u, NEW v, NEW w, Seen(v, w), Seen(u, v)
    PROVE  Seen(u, w)
BY DEF Seen, AsBefore

\* What v is to w when the new thing i has come to p, has come to nothing, or has not come.
Added(v, w, i) ==
    /\ Whole(v) /\ Own(v)
    /\ \/ Seen(v, w)
       \/ \E u, d : Seen(u, w) /\ Loose(u, i) /\ PutThere(v, u, d, i) /\ d.kind \in {"slot", "bag"}

LEMMA AddItemIs ==
    ASSUME ItemsAssumption, NEW w, Whole(w), Own(w), NEW near0, NEW p \in Players, NEW i \in Items,
           NEW offer, NEW autoStack, NEW test \in BOOLEAN,
           NEW a \in AddItem(w, near0, p, i, offer, autoStack, test)
    PROVE  /\ test \/ ~a.ok => Seen(a.world, w)
           /\ i \notin Bags /\ i \notin Placed(w) => Added(a.world, w, i)
<1> DEFINE seen(r) == Remembering(w, p, r)
           fits(r) == CanAdd(seen(r), p, r.dest, i)
<1>1. PICK r \in Destinations(w, p, i, offer, autoStack) :
        a = [ok |-> fits(r), world |-> IF fits(r)
        /\ ~test THEN Put(seen(r), near0, p, r.dest, i) ELSE seen(r)]
  BY DEF AddItem
<1>2. w \in World
  BY DEF Whole
<1>3. GoodWay(w, p, r)
  BY <1>2, DestinationsAre
<1> DEFINE u == seen(r)
           d == r.dest
<1>4. Seen(u, w) /\ OwnPlace(u, p, d)
  BY <1>3, SeenIs
<1>5. a.ok = CanAdd(u, p, d, i) /\ a.world = IF CanAdd(u, p, d, i)
      /\ ~test THEN Put(u, near0, p, d, i) ELSE u
  BY <1>1
<1> HIDE DEF u, d, seen, fits
<1>6. test \/ ~a.ok => Seen(a.world, w)
  BY <1>4, <1>5
<1>7. ASSUME i \notin Bags, i \notin Placed(w) PROVE Added(a.world, w, i)
  <2>1. CASE ~CanAdd(u, p, d, i) \/ test
    BY <1>4, <1>5, <2>1 DEF Added, Seen
  <2>2. CASE CanAdd(u, p, d, i) /\ ~test
    <3>1. a.world = Put(u, near0, p, d, i)
      BY <1>5, <2>2
    <3>2. Whole(u) /\ Own(u) /\ u \in World /\ Placed(u) = Placed(w)
      BY <1>2, <1>4, SamePlaces DEF Seen, AsBefore
    <3>3. Loose(u, i)
      BY <1>7, <3>2, NewLoose
    <3>4. CASE d.kind = "bag" /\ d.index >= BagSize
      <4>1. a.world = u
        BY <3>1, <3>4 DEF Put, PutIn
      <4>2. QED BY <1>4, <3>2, <4>1 DEF Added
    <3>5. CASE ~(d.kind = "bag" /\ d.index >= BagSize)
      <4>1. Free(u, p, d) /\ d.kind \in {"slot", "bag"}
        <5>1. CASE d.kind = "slot"
          BY <1>4, <2>2, <5>1 DEF OwnPlace, Free, CanAdd, CanWear
        <5>2. CASE d.kind = "bag"
          <6>1. Carried(u, p) \subseteq Placed(u)
            BY <3>2, CarriedIs
          <6>2. QED BY <1>4, <3>5, <5>2, <6>1 DEF OwnPlace, Free
        <5>3. QED BY <2>2, <5>1, <5>2 DEF CanAdd
      <4>2. PutThere(a.world, u, d, i)
        BY <3>1, <3>2, <3>3, <4>1, PutIs
      <4>3. QED BY <1>4, <3>3, <4>1, <4>2 DEF Added, PutThere
    <3>6. QED BY <3>4, <3>5
  <2>3. QED BY <2>1, <2>2
<1>8. QED BY <1>6, <1>7

\* What a move to p makes of w.
ToPlayer(m, w, p, i) ==
    \E u : /\ Seen(u, w)
           /\ \/ m.moved = {} /\ m.world = u
              \/ /\ m.moved = {i}
                 /\ \E d : Moves(m.world, u, d, i) /\ (d.kind = "bag" => d.at \in Carried(u, p))

LEMMA MoveToPlayerIs ==
    ASSUME ItemsAssumption, NEW w, Whole(w), Own(w), NEW near0, NEW p \in Players, NEW i \in Placed(w),
           NEW offer, NEW autoStack, NEW m \in MoveToPlayer(w, near0, p, i, offer, autoStack)
    PROVE  ToPlayer(m, w, p, i)
<1> DEFINE seen(r) == Remembering(w, p, r)
<1>1. PICK r \in Destinations(w, p, i, offer, autoStack) :
        m = MoveTo(seen(r), near0, p, i, Resolved(seen(r), r.dest))
  BY DEF MoveToPlayer
<1>2. w \in World /\ i \in Items
  BY PlacedInItems DEF Whole
<1>3. GoodWay(w, p, r)
  BY <1>2, DestinationsAre
<1> DEFINE u == seen(r)
           d == Resolved(u, r.dest)
<1>4. Seen(u, w) /\ OwnPlace(u, p, r.dest)
  BY <1>3, SeenIs
<1>5. m = MoveTo(u, near0, p, i, d)
  BY <1>1
<1> HIDE DEF u, seen
<1>6. Whole(u) /\ Own(u) /\ u \in World /\ Placed(u) = Placed(w)
  BY <1>2, <1>4, SamePlaces DEF Seen, AsBefore
<1>7. Proper(u, d) /\ (d.kind = "bag" => d.at \in Carried(u, p))
  BY <1>4, <1>6, ResolvedIs
<1> HIDE DEF d
<1>8. MovedTo(m, u, near0, p, i, d)
  BY <1>5, MoveToIs
<1>9. \/ m.moved = {} /\ m.world = u
      \/ m.moved = {i} /\ Moves(m.world, u, d, i)
  BY <1>6, <1>7, <1>8, MovesIs
<1>10. QED BY <1>4, <1>7, <1>9 DEF ToPlayer

-----------------------------------------------------------------------------
(* What is not disturbed by a move                                         *)

\* x has in it what it had, and who carried it, or the ground, has it still.
Kept(v, w, x) ==
    /\ Tree(v, x) = Tree(w, x) /\ (x \in Lying(w) => x \in Lying(v))
    /\ \A p \in Players : x \in Carried(w, p) => x \in Carried(v, p)

LEMMA KeptSame ==
    ASSUME ItemsAssumption, NEW v, NEW w \in World, AsBefore(v, w), NEW x \in Items
    PROVE  Kept(v, w, x)
BY SameTree, SamePlaces DEF Kept

LEMMA KeptLost ==
    ASSUME ItemsAssumption, NEW w \in World, NEW i \in Items, NEW v, Lost(v, w, i), NEW x \in Items,
           i \notin Tree(w, x), x \notin Tree(w, i)
    PROVE  Kept(v, w, x)
<1>1. /\ Filled(v) /\ Filled(w) /\ v.ground = w.ground \ {i} /\ w.ground \subseteq Items
      /\ \A p \in Players : Worn(v, p) = Worn(w, p) \ {i} /\ Worn(w, p) \subseteq Items
  BY LostIn, WorldParts
<1>2. Tree(v, x) = Tree(w, x)
  <2>1. {x} \subseteq Items /\ i \notin AndAllIn(w, {x})
    BY DEF Tree
  <2>2. QED BY <2>1, LostAll DEF Tree
<1>3. Lying(w) \subseteq Lying(v) \cup Tree(w, i)
  BY <1>1, LostAll DEF Lying
<1>4. \A p \in Players : Carried(w, p) \subseteq Carried(v, p) \cup Tree(w, i)
  BY <1>1, LostAll DEF Carried
<1>5. QED BY <1>2, <1>3, <1>4 DEF Kept

LEMMA KeptPut ==
    ASSUME ItemsAssumption, NEW w \in World, NEW i \in Items, NEW v, NEW d, PutThere(v, w, d, i),
           d.kind \in {"slot", "bag"}, NEW x \in Items, d.kind = "bag" => d.at \notin Tree(w, x)
    PROVE  Kept(v, w, x)
<1>1. Spared(v, w)
  BY DEF PutThere
<1>2. CASE d.kind = "slot"
  <2>1. v \in World /\ v.contents = w.contents
    BY <1>2 DEF PutThere, Topped
  <2>2. Filled(v) /\ Filled(w) /\ \A c \in Bags : In(v, c) = In(w, c)
    BY <2>1, WorldParts DEF In
  <2>3. Tree(v, x) = Tree(w, x)
    <3>1. {x} \subseteq Items
      OBVIOUS
    <3>2. QED BY <2>2, <3>1, AllSame DEF Tree
  <2>4. QED BY <1>1, <2>3 DEF Kept, Spared
<1>3. CASE d.kind = "bag"
  <2>1. d.at \in Bags /\ Gained(v, w, d.at, i) /\ d.at \notin Tree(w, x)
    BY <1>3 DEF PutThere
  <2> DEFINE b == d.at
  <2> HIDE DEF b
  <2>2. b \in Bags /\ Gained(v, w, b, i) /\ b \notin AndAllIn(w, {x})
    BY <2>1 DEF b, Tree
  <2>3. Tree(v, x) = Tree(w, x)
    <3>1. {x} \subseteq Items
      OBVIOUS
    <3>2. AndAllIn(v, {x}) = AndAllIn(w, {x})
      BY <2>2, <3>1, GainedAll
    <3>3. QED BY <3>2 DEF Tree
  <2>4. QED BY <1>1, <2>3 DEF Kept, Spared
<1>4. QED BY <1>2, <1>3

LEMMA KeptTwice ==
    ASSUME NEW u, NEW v, NEW w, NEW x, Kept(v, w, x), Kept(u, v, x)
    PROVE  Kept(u, w, x)
BY DEF Kept

LEMMA KeptMoves ==
    ASSUME ItemsAssumption, NEW w, Whole(w), NEW i \in Items, NEW v, NEW d, Moves(v, w, d, i), NEW x \in Items,
           i \notin Tree(w, x), x \notin Tree(w, i), d.kind = "bag" => d.at \notin Tree(w, x)
    PROVE  Kept(v, w, x)
<1>1. PICK u : Lost(u, w, i) /\ Loose(u, i) /\ PutThere(v, u, d, i) /\ d.kind \in {"slot", "bag"}
  BY DEF Moves
<1>2. w \in World /\ u \in World
  BY <1>1 DEF Whole, Lost
<1>3. Kept(u, w, x)
  BY <1>1, <1>2, KeptLost
<1>4. d.kind = "bag" => d.at \notin Tree(u, x)
  BY <1>3 DEF Kept
<1>5. Kept(v, u, x)
  BY <1>1, <1>2, <1>4, KeptPut
<1>6. QED BY <1>3, <1>5, KeptTwice

-----------------------------------------------------------------------------
(* Who is told, and which trades are closed                                *)

\* What p reaches in world w.
Reaches(w, p, i) == i \in Carried(w, p) \/ (p \in near /\ i \in Lying(w))

LEMMA TreeDown ==
    ASSUME ItemsAssumption, NEW w \in World, NEW S, S \subseteq Items, Sealed(w, S), NEW i \in S
    PROVE  Tree(w, i) \subseteq S
<1>1. LeastWith(w, AndAllIn(w, {i}), {i})
  BY AllIs, WorldParts
<1>2. QED BY <1>1 DEF LeastWith, Tree

LEMMA OwnedIs ==
    ASSUME ItemsAssumption, NEW w \in World, NEW p \in Players
    PROVE  /\ Carried(w, p) \subseteq Items /\ Sealed(w, Carried(w, p))
           /\ Lying(w) \subseteq Items /\ Sealed(w, Lying(w))
BY CarriedIs, PlacedInItems DEF LeastWith

LEMMA ReachesDown ==
    ASSUME ItemsAssumption, NEW w \in World, NEW p \in Players, NEW o, Reaches(w, p, o), NEW i \in Tree(w, o)
    PROVE  Reaches(w, p, i)
BY OwnedIs, TreeDown DEF Reaches

LEMMA ReachesUp ==
    ASSUME ItemsAssumption, NEW w \in World, Single(w), NEW p \in Players, NEW i \in Placed(w),
           NEW o \in Tree(w, i), Reaches(w, p, o)
    PROVE  Reaches(w, p, i)
<1>1. i \in Lying(w) \/ \E q \in Players : i \in Carried(w, q)
  BY DEF Placed
<1>2. CASE i \in Lying(w)
  <2>1. o \in Lying(w)
    BY <1>2, OwnedIs, TreeDown
  <2>2. QED BY <1>2, <2>1, Owners DEF Reaches
<1>3. ASSUME NEW q \in Players, i \in Carried(w, q) PROVE Reaches(w, p, i)
  <2>1. o \in Carried(w, q)
    BY <1>3, OwnedIs, TreeDown
  <2>2. p = q
    BY <2>1, Owners DEF Reaches
  <2>3. QED BY <1>3, <2>2 DEF Reaches
<1>4. QED BY <1>1, <1>2, <1>3

LEMMA WatchesOwn ==
    ASSUME NEW w, NEW p \in Players, NEW b, Reaches(w, p, b)
    PROVE  p \in Watching(w, near, b)
BY DEF Reaches, Watching

\* Who reaches an item is told when it is taken.
LEMMA ToldIs ==
    ASSUME ItemsAssumption, NEW w \in World, NEW p \in Players, NEW i, Reaches(w, p, i)
    PROVE  p \in ToldOfTaking(w, near, i)
<1>1. Filled(w) /\ Worn(w, p) \subseteq Items /\ w.ground \subseteq Items
  BY WorldParts
<1>2. ASSUME NEW c \in Bags, i \in In(w, c), Reaches(w, p, c) PROVE p \in ToldOfTaking(w, near, i)
  <2>1. c \in HoldersOf(w, i)
    BY <1>2 DEF HoldersOf, In
  <2>2. p \in Watching(w, near, c)
    BY <1>2, WatchesOwn
  <2>3. QED BY <2>1, <2>2 DEF ToldOfTaking
<1>3. CASE i \in Carried(w, p)
  <2>1. CASE i \in Worn(w, p)
    BY <2>1 DEF ToldOfTaking, WearersOf
  <2>2. CASE i \notin Worn(w, p)
    <3>1. PICK c \in Carried(w, p) \cap Bags : i \in In(w, c)
      BY <1>1, <1>3, <2>2, AllUp DEF Carried
    <3>2. QED BY <1>2, <3>1 DEF Reaches
  <2>3. QED BY <2>1, <2>2
<1>4. CASE p \in near /\ i \in Lying(w)
  <2>1. CASE i \in w.ground
    BY <1>4, <2>1 DEF ToldOfTaking
  <2>2. CASE i \notin w.ground
    <3>1. PICK c \in Lying(w) \cap Bags : i \in In(w, c)
      BY <1>1, <1>4, <2>2, AllUp DEF Lying
    <3>2. QED BY <1>2, <1>4, <3>1 DEF Reaches
  <2>3. QED BY <2>1, <2>2
<1>5. QED BY <1>3, <1>4 DEF Reaches

\* The offer of p is there, and p reaches it.
Offers(w, p) == tradeItem[p] # NoItem /\ tradeItem[p] \in Items /\ Reaches(w, p, tradeItem[p])

\* A trade that a removal leaves open is not about what was taken.
LEMMA TakingSpares ==
    ASSUME ItemsAssumption, NEW w \in World, Single(w), NEW p \in Players, Offers(w, p), NEW i \in Placed(w),
           p \notin ClosedByTaking(w, i)
    PROVE  i \notin Tree(w, tradeItem[p]) /\ tradeItem[p] \notin Tree(w, i)
<1> DEFINE o == tradeItem[p]
<1>1. o # NoItem /\ o \in Items /\ Reaches(w, p, o) /\ i \in Items /\ Filled(w) /\ HeldOnce(w)
  BY PlacedInItems, WorldParts DEF Offers, Single
<1>2. p \in ToldOfTaking(w, near, i) =>
        /\ ~InOffer(w, p, i)
        /\ HoldersOf(w, i) # {} => ~TakenAbove(w, p, i)
        /\ HoldersOf(w, i) = {} => o \notin Holding(w, i)
  BY <1>1 DEF ClosedByTaking, TakenWithOffer
<1>3. i \notin Tree(w, o)
  <2> SUFFICES ASSUME i \in Tree(w, o) PROVE FALSE
    OBVIOUS
  <2>1. p \in ToldOfTaking(w, near, i)
    BY <1>1, ReachesDown, ToldIs
  <2>2. QED BY <1>1, <1>2, <2>1 DEF InOffer, Tree
<1>4. o \notin Tree(w, i)
  <2> SUFFICES ASSUME o \in Tree(w, i) PROVE FALSE
    OBVIOUS
  <2>1. p \in ToldOfTaking(w, near, i)
    BY <1>1, ReachesUp, ToldIs
  <2>2. o # i /\ o \in Holding(w, i) /\ i \in Bags
    <3>1. i \in Tree(w, i) /\ (i \notin Bags => Tree(w, i) = {i})
          /\ Tree(w, i) = {i} \cup Holding(w, i)
      BY TreeIs
    <3>2. o # i
      BY <1>3, TreeIs
    <3>3. QED BY <3>1, <3>2
  <2>3. PICK b \in Bags : i \in In(w, b)
    BY <1>2, <2>1, <2>2 DEF HoldersOf, In
  <2>4. o \in Holding(w, b)
    BY <1>1, <2>2, <2>3, HoldingIs, HoldDown DEF LeastWith
  <2>5. i \notin Holding(w, i)
    BY NotInItself
  <2>6. o \notin In(w, b)
    <3> SUFFICES ASSUME o \in In(w, b) PROVE FALSE
      OBVIOUS
    <3>1. LeastWith(w, Holding(w, i), In(w, i)) /\ Holding(w, i) = AndAllIn(w, In(w, i))
          /\ In(w, i) \subseteq Items
      BY <1>1, <2>2, HoldingIs, HoldingAll, InItems
    <3>2. o \in In(w, i) \/ \E c \in Holding(w, i) \cap Bags : o \in In(w, c)
      BY <1>1, <2>2, <3>1, AllUp
    <3>3. b = i \/ b \in Holding(w, i)
      BY <1>1, <2>2, <3>2, OneHolder
    <3>4. QED BY <2>3, <2>5, <3>1, <3>3 DEF LeastWith, Sealed
  <2>7. b \in HoldersOf(w, i) /\ o \in Holding(w, b) \ Elems(w.contents[b])
    BY <2>3, <2>4, <2>6 DEF HoldersOf, In
  <2>8. TakenAbove(w, p, i)
    BY <2>7 DEF TakenAbove
  <2>9. QED BY <1>2, <2>1, <2>7, <2>8
<1>5. QED BY <1>3, <1>4

\* A trade that an addition leaves open is not about the bag it is made to.
LEMMA AddingSpares ==
    ASSUME ItemsAssumption, NEW u \in World, NEW i \in Items, NEW v, NEW d, PutThere(v, u, d, i),
           NEW p \in Players, Offers(u, p), p \notin ClosedByAdding(v, i), d.kind = "bag"
    PROVE  d.at \notin Tree(u, tradeItem[p])
<1> DEFINE o == tradeItem[p]
           b == d.at
<1>1. o # NoItem /\ o \in Items /\ Reaches(u, p, o)
  BY DEF Offers
<1>2. b \in Bags /\ Gained(v, u, b, i) /\ Spared(v, u) /\ v \in World
  BY DEF PutThere, Gained
<1> SUFFICES ASSUME b \in Tree(u, o) PROVE FALSE
  OBVIOUS
<1> HIDE DEF b, o
<1>3. i \in Tree(v, o) /\ b \in Tree(v, o)
  <2>1. {o} \subseteq Items /\ b \in AndAllIn(u, {o})
    BY <1>1 DEF Tree
  <2>2. AndAllIn(v, {o}) = AndAllIn(u, {o}) \cup Tree(u, i)
    BY <1>2, <2>1, GainedAll
  <2>3. i \in Tree(u, i)
    BY TreeIs
  <2>4. QED BY <2>1, <2>2, <2>3 DEF Tree
<1>4. Reaches(v, p, o)
  BY <1>1, <1>2 DEF Reaches, Spared
<1>5. p \in Watching(v, near, b)
  BY <1>2, <1>3, <1>4, ReachesDown, WatchesOwn
<1>6. b \in HoldersOf(v, i)
  <2>1. i \in In(v, b)
    BY <1>2, GainedIn
  <2>2. QED BY <1>2, <2>1 DEF HoldersOf, In
<1>7. InOffer(v, p, i)
  BY <1>1, <1>3 DEF InOffer, Tree, o
<1>8. p \in UNION {Watching(v, near, c) : c \in HoldersOf(v, i)}
  BY <1>5, <1>6
<1>9. QED BY <1>7, <1>8 DEF ClosedByAdding

LEMMA KeptOffers ==
    ASSUME NEW v, NEW w, NEW p \in Players, Offers(w, p), Kept(v, w, tradeItem[p])
    PROVE  Offers(v, p)
BY DEF Offers, Kept, Reaches

LEMMA MoveSpares ==
    ASSUME ItemsAssumption, NEW w, Whole(w), NEW i \in Placed(w), NEW v, NEW d, Moves(v, w, d, i),
           NEW p \in Players, Offers(w, p), i \notin Tree(w, tradeItem[p]), tradeItem[p] \notin Tree(w, i),
           p \notin ClosedByAdding(v, i)
    PROVE  Kept(v, w, tradeItem[p])
<1> DEFINE o == tradeItem[p]
<1>1. PICK u : Lost(u, w, i) /\ Loose(u, i) /\ PutThere(v, u, d, i) /\ d.kind \in {"slot", "bag"}
  BY DEF Moves
<1>2. w \in World /\ u \in World /\ i \in Items /\ o \in Items
  BY <1>1, PlacedInItems DEF Whole, Lost, Offers
<1>3. Kept(u, w, o)
  BY <1>1, <1>2, KeptLost
<1>4. Offers(u, p)
  BY <1>3, KeptOffers
<1>5. d.kind = "bag" => d.at \notin Tree(u, o)
  BY <1>1, <1>2, <1>4, AddingSpares
<1>6. Kept(v, u, o)
  BY <1>1, <1>2, <1>5, KeptPut
<1>7. QED BY <1>3, <1>6, KeptTwice

-----------------------------------------------------------------------------
(* The invariant                                                           *)

TradeTypes ==
    /\ given \subseteq Items /\ near \subseteq Players
    /\ tradeState \in [Players -> {"none", "initiated", "accept", "acknowledge"}]
    /\ tradePartner \in [Players -> Players \cup {NoPlayer}]
    /\ tradeItem \in [Players -> Items \cup {NoItem}] /\ tradeItems \subseteq Items

Pairs ==
    \A p \in Players :
      /\ tradeState[p] = "none" <=> tradePartner[p] = NoPlayer
      /\ tradePartner[p] # NoPlayer => p # tradePartner[p] /\ tradePartner[tradePartner[p]] = p
      /\ tradeItem[p] # NoItem => tradeState[p] # "none"
      /\ tradeState[p] = "initiated" => tradeItem[p] # NoItem
      /\ tradeState[p] = "acknowledge" => tradeItem[p] = NoItem

Listed == tradeItems = {tradeItem[p] : p \in Players} \ {NoItem}

OffersApart ==
    \A p, q \in Players :
      p # q /\ tradeItem[p] # NoItem /\ tradeItem[q] # NoItem
      => Tree(world, tradeItem[p]) \cap Tree(world, tradeItem[q]) = {}

OffersReached == \A p \in Players : tradeItem[p] # NoItem => Reaches(world, p, tradeItem[p])

TradeInv ==
    /\ TradeTypes /\ Whole(world) /\ Own(world) /\ Placed(world) \subseteq given
    /\ Pairs /\ Listed /\ OffersApart /\ OffersReached

\* What a step leaves of the offers.
OffersKept ==
    \A p \in Players :
      tradeItem'[p] # NoItem /\ tradeItem'[p] = tradeItem[p]
      => Holding(world', tradeItem[p]) = Holding(world, tradeItem[p])

LEMMA OffersAre ==
    ASSUME TradeInv, NEW p \in Players, tradeItem[p] # NoItem
    PROVE  Offers(world, p)
BY DEF TradeInv, TradeTypes, OffersReached, Offers

LEMMA KeptHolding ==
    ASSUME ItemsAssumption, NEW w, Whole(w), NEW v, Whole(v), NEW x, NEW p \in Players, Reaches(w, p, x), Kept(v, w, x)
    PROVE  Holding(v, x) = Holding(w, x)
<1>1. w \in World /\ v \in World /\ Single(w) /\ Single(v)
  BY DEF Whole
<1>2. x \in Placed(w) /\ x \in Placed(v)
  BY DEF Placed, Reaches, Kept
<1>3. x \notin Holding(w, x) /\ x \notin Holding(v, x)
  BY <1>1, <1>2, NotInItself
<1>4. Tree(w, x) = {x} \cup Holding(w, x) /\ Tree(v, x) = {x} \cup Holding(v, x)
      /\ Tree(v, x) = Tree(w, x)
  BY TreeIs DEF Kept
<1>5. QED BY <1>3, <1>4

\* Whose trades are closed has no offer; the others have theirs.
Closed(who) ==
    \A p \in Players : tradeItem'[p] # NoItem => p \notin who /\ tradeItem'[p] = tradeItem[p]

TradesTyped ==
    /\ tradeState \in [Players -> {"none", "initiated", "accept", "acknowledge"}]
    /\ tradePartner \in [Players -> Players \cup {NoPlayer}]
    /\ tradeItem \in [Players -> Items \cup {NoItem}] /\ tradeItems \subseteq Items

LEMMA ClosingIs ==
    ASSUME ItemsAssumption, TradesTyped, Pairs, Listed, OffersApart, NEW who, who \subseteq Players, CloseTrades(who)
    PROVE  TradesTyped' /\ Pairs' /\ Listed' /\ Closed(who)
<1> DEFINE gone == who \cup {tradePartner[p] : p \in who}
<1>1. /\ tradeState' = [p \in Players |-> IF p \in gone THEN "none" ELSE tradeState[p]]
      /\ tradePartner' = [p \in Players |-> IF p \in gone THEN NoPlayer ELSE tradePartner[p]]
      /\ tradeItem' = [p \in Players |-> IF p \in gone THEN NoItem ELSE tradeItem[p]]
      /\ tradeItems' = tradeItems \ {tradeItem[p] : p \in gone \cap Players}
  BY DEF CloseTrades
<1>2. \A p \in Players : tradePartner[p] \in Players \cup {NoPlayer}
      /\ tradeItem[p] \in Items \cup {NoItem}
  BY DEF TradesTyped
<1>3. who \subseteq gone
  OBVIOUS
<1>4. ASSUME NEW p \in Players, p \notin gone, tradePartner[p] # NoPlayer
      PROVE  tradePartner[p] \in Players \ gone
  <2> DEFINE q == tradePartner[p]
  <2>1. q \in Players /\ tradePartner[q] = p
    BY <1>2, <1>4 DEF Pairs
  <2> HIDE DEF q
  <2>2. q \notin who
    BY <1>4, <2>1
  <2>3. ASSUME NEW r \in who, q = tradePartner[r] PROVE FALSE
    <3>1. q # NoPlayer
      BY <1>4 DEF q
    <3>2. tradePartner[q] = r
      BY <2>3, <3>1 DEF Pairs
    <3>3. QED BY <1>3, <1>4, <2>1, <3>2
  <2>4. QED BY <2>1, <2>2, <2>3 DEF q
<1> HIDE DEF gone
<1>5. \A p \in Players : /\ tradeState'[p] = IF p \in gone THEN "none" ELSE tradeState[p]
                         /\ tradePartner'[p] = IF p \in gone THEN NoPlayer ELSE tradePartner[p]
                         /\ tradeItem'[p] = IF p \in gone THEN NoItem ELSE tradeItem[p]
  BY <1>1
<1>6. TradesTyped'
  <2>1. tradeState' \in [Players -> {"none", "initiated", "accept", "acknowledge"}]
    BY <1>1 DEF TradesTyped
  <2>2. tradePartner' \in [Players -> Players \cup {NoPlayer}]
    BY <1>1, <1>2
  <2>3. tradeItem' \in [Players -> Items \cup {NoItem}]
    BY <1>1, <1>2
  <2>4. tradeItems' \subseteq Items
    BY <1>1 DEF TradesTyped
  <2>5. QED BY <2>1, <2>2, <2>3, <2>4 DEF TradesTyped
<1>7. Pairs'
  <2> SUFFICES ASSUME NEW p \in Players
               PROVE  /\ tradeState'[p] = "none" <=> tradePartner'[p] = NoPlayer
                      /\ tradePartner'[p] # NoPlayer => p # tradePartner'[p]
                         /\ tradePartner'[tradePartner'[p]] = p
                      /\ tradeItem'[p] # NoItem => tradeState'[p] # "none"
                      /\ tradeState'[p] = "initiated" => tradeItem'[p] # NoItem
                      /\ tradeState'[p] = "acknowledge" => tradeItem'[p] = NoItem
    BY DEF Pairs
  <2>1. CASE p \in gone
    BY <1>5, <2>1
  <2>2. CASE p \notin gone
    <3>1. tradeState'[p] = tradeState[p] /\ tradePartner'[p] = tradePartner[p]
          /\ tradeItem'[p] = tradeItem[p]
      BY <1>5, <2>2
    <3>2. tradePartner[p] # NoPlayer
          => tradePartner'[tradePartner[p]] = tradePartner[tradePartner[p]]
      BY <1>4, <1>5, <2>2
    <3>3. QED BY <3>1, <3>2 DEF Pairs
  <2>3. QED BY <2>1, <2>2
<1>8. Listed'
  <2>1. ASSUME NEW p \in Players, NEW q \in Players, p # q, tradeItem[p] # NoItem PROVE tradeItem[p] # tradeItem[q]
    BY <2>1, TreeIs DEF OffersApart
  <2>2. ASSUME NEW x \in tradeItems' PROVE x \in {tradeItem'[p] : p \in Players} \ {NoItem}
    <3>1. PICK p \in Players : x = tradeItem[p] /\ x # NoItem
      BY <1>1 DEF Listed
    <3>2. p \notin gone
      BY <1>1, <3>1
    <3>3. QED BY <1>5, <3>1, <3>2
  <2>3. ASSUME NEW p \in Players, tradeItem'[p] # NoItem PROVE tradeItem'[p] \in tradeItems'
    <3>1. p \notin gone /\ tradeItem'[p] = tradeItem[p]
      BY <1>5, <2>3
    <3>2. tradeItem[p] \in tradeItems
      BY <2>3, <3>1 DEF Listed
    <3>3. \A q \in gone \cap Players : tradeItem[q] # tradeItem[p]
      BY <2>1, <2>3, <3>1
    <3>4. QED BY <1>1, <3>1, <3>2, <3>3
  <2>4. QED BY <2>2, <2>3 DEF Listed
<1>9. Closed(who)
  BY <1>3, <1>5 DEF Closed
<1>10. QED BY <1>6, <1>7, <1>8, <1>9

\* A step keeps the invariant that closes the trades of who is disturbed.
LEMMA Settles ==
    ASSUME ItemsAssumption, TradeInv, NEW who, who \subseteq Players, CloseTrades(who),
           given' \subseteq Items, near' \subseteq Players, Placed(world') \subseteq given', Whole(world'), Own(world'),
           \A p \in Players \ who : tradeItem[p] # NoItem => Kept(world', world, tradeItem[p])
           /\ (p \in near => p \in near')
    PROVE  TradeInv' /\ OffersKept
<1>1. TradesTyped /\ Pairs /\ Listed /\ OffersApart /\ OffersReached /\ Whole(world)
  BY DEF TradeInv, TradeTypes, TradesTyped
<1>2. TradesTyped' /\ Pairs' /\ Listed' /\ Closed(who)
  BY <1>1, ClosingIs
<1>3. ASSUME NEW p \in Players, tradeItem'[p] # NoItem
      PROVE  /\ p \notin who /\ tradeItem'[p] = tradeItem[p] /\ tradeItem[p] # NoItem
             /\ Kept(world', world, tradeItem[p]) /\ (p \in near => p \in near')
             /\ Reaches(world, p, tradeItem[p])
  BY <1>1, <1>2, <1>3 DEF Closed, OffersReached
<1>4. TradeTypes'
  BY <1>2 DEF TradesTyped, TradeTypes
<1>5. OffersApart'
  <2> SUFFICES ASSUME NEW p \in Players, NEW q \in Players, p # q, tradeItem'[p] # NoItem, tradeItem'[q] # NoItem
               PROVE  Tree(world', tradeItem'[p]) \cap Tree(world', tradeItem'[q]) = {}
    BY DEF OffersApart
  <2>1. Tree(world', tradeItem[p]) = Tree(world, tradeItem[p])
        /\ Tree(world', tradeItem[q]) = Tree(world, tradeItem[q])
    BY <1>3 DEF Kept
  <2>2. Tree(world, tradeItem[p]) \cap Tree(world, tradeItem[q]) = {}
    BY <1>1, <1>3 DEF OffersApart
  <2>3. QED BY <1>3, <2>1, <2>2
<1>6. OffersReached'
  BY <1>3 DEF OffersReached, Reaches, Kept
<1>7. OffersKept
  BY <1>1, <1>3, KeptHolding DEF OffersKept
<1>8. QED BY <1>2, <1>4, <1>5, <1>6, <1>7 DEF TradeInv

-----------------------------------------------------------------------------
(* Items move, come and go                                                 *)

LEMMA ClosedPlayers ==
    ASSUME near \subseteq Players, NEW v, NEW w, NEW moved
    PROVE  UNION {ClosedByTaking(v, i) \cup ClosedByAdding(w, i) : i \in moved} \subseteq Players
<1>1. \A b : Watching(v, near, b) \subseteq Players /\ Watching(w, near, b) \subseteq Players
  BY DEF Watching
<1>2. \A i : ToldOfTaking(v, near, i) \subseteq Players
  BY <1>1 DEF ToldOfTaking, WearersOf
<1>3. \A i : ClosedByTaking(v, i) \subseteq Players
  BY <1>2 DEF ClosedByTaking
<1>4. \A i : ClosedByAdding(w, i) \subseteq Players
  BY <1>1 DEF ClosedByAdding
<1>5. QED BY <1>3, <1>4

\* What becomes of the world, and of each offer of those that are not told.
LEMMA BecomesIs ==
    ASSUME ItemsAssumption, TradeInv, NEW moved, NEW v, Becomes(moved, v), near' = near, given' \subseteq Items,
           Whole(v), Own(v), Placed(v) \subseteq given',
           \A p \in Players :
             Offers(world, p) /\ (\A i \in moved : p \notin ClosedByTaking(world, i)
             /\ p \notin ClosedByAdding(v, i))
             => Kept(v, world, tradeItem[p])
    PROVE  TradeInv' /\ OffersKept
<1> DEFINE who == UNION {ClosedByTaking(world, i) \cup ClosedByAdding(v, i) : i \in moved}
<1>1. near \subseteq Players
  BY DEF TradeInv, TradeTypes
<1>2. world' = v /\ CloseTrades(who) /\ who \subseteq Players
  BY <1>1, ClosedPlayers DEF Becomes
<1>3. ASSUME NEW p \in Players \ who, tradeItem[p] # NoItem PROVE Kept(v, world, tradeItem[p])
  <2>1. Offers(world, p)
    BY <1>3, OffersAre
  <2>2. QED BY <2>1
<1> HIDE DEF who
<1>4. QED BY <1>1, <1>2, <1>3, Settles

LEMMA PlayerReaches ==
    ASSUME NEW p \in Players, NEW i, InReach(p, i)
    PROVE  Reaches(world, p, i) /\ i \in Placed(world)
BY DEF InReach, Reaches, Placed

LEMMA SeenKeeps ==
    ASSUME ItemsAssumption, NEW w \in World, NEW u, Seen(u, w), NEW p \in Players, Offers(w, p)
    PROVE  Kept(u, w, tradeItem[p]) /\ Offers(u, p)
<1>1. Kept(u, w, tradeItem[p])
  BY KeptSame DEF Seen, Offers
<1>2. QED BY <1>1, KeptOffers

\* A move that begins with a way that is asked for.
LEMMA MoveSettles ==
    ASSUME ItemsAssumption, TradeInv, UNCHANGED <<given, near>>, NEW u, Seen(u, world), NEW i \in Placed(world),
           NEW m, Becomes(m.moved, m.world),
           \/ m.moved = {} /\ m.world = u
           \/ m.moved = {i} /\ \E d : Moves(m.world, u, d, i)
    PROVE  TradeInv' /\ OffersKept
<1>1. world \in World /\ Single(world) /\ Placed(world) \subseteq given
      /\ given \subseteq Items /\ i \in Items
  BY PlacedInItems DEF TradeInv, TradeTypes, Whole
<1>2. Whole(u) /\ Own(u) /\ u \in World /\ Placed(u) = Placed(world) /\ Tree(u, i) = Tree(world, i)
  BY <1>1, SamePlaces, SameTree DEF Seen, AsBefore
<1> DEFINE v == m.world
           moved == m.moved
<1>3. CASE m.moved = {} /\ m.world = u
  <2>1. \A p \in Players : Offers(world, p) => Kept(v, world, tradeItem[p])
    BY <1>1, <1>3, SeenKeeps
  <2>2. Becomes(moved, v) /\ Whole(v) /\ Own(v) /\ Placed(v) \subseteq given'
        /\ given' \subseteq Items /\ near' = near
    BY <1>1, <1>2, <1>3
  <2> HIDE DEF v, moved
  <2>3. QED BY <2>1, <2>2, BecomesIs
<1>4. ASSUME NEW d, m.moved = {i}, Moves(m.world, u, d, i) PROVE TradeInv' /\ OffersKept
  <2>1. ASSUME NEW p \in Players, Offers(world, p), p \notin ClosedByTaking(world, i), p \notin ClosedByAdding(v, i)
        PROVE  Kept(v, world, tradeItem[p])
    <3>1. Kept(u, world, tradeItem[p]) /\ Offers(u, p)
      BY <1>1, <2>1, SeenKeeps
    <3>2. i \notin Tree(world, tradeItem[p]) /\ tradeItem[p] \notin Tree(world, i)
      BY <1>1, <2>1, TakingSpares
    <3>3. i \notin Tree(u, tradeItem[p]) /\ tradeItem[p] \notin Tree(u, i)
      BY <1>2, <3>1, <3>2 DEF Kept
    <3>4. Kept(v, u, tradeItem[p])
      BY <1>2, <1>4, <2>1, <3>1, <3>3, MoveSpares
    <3>5. QED BY <3>1, <3>4, KeptTwice
  <2>2. Becomes(moved, v) /\ Whole(v) /\ Own(v) /\ Placed(v) \subseteq given'
        /\ given' \subseteq Items /\ near' = near
    BY <1>1, <1>2, <1>4 DEF Moves
  <2>3. moved = {i}
    BY <1>4
  <2> HIDE DEF v, moved
  <2>4. QED BY <2>1, <2>2, <2>3, BecomesIs
<1>5. QED BY <1>3, <1>4

\* internalMoveItem to a place that is named.
LEMMA PlainMove ==
    ASSUME ItemsAssumption, TradeInv, UNCHANGED <<given, near>>, NEW p \in Players, NEW i \in Placed(world),
           NEW d, Proper(world, d), Moved(MoveTo(world, near, p, i, d))
    PROVE  TradeInv' /\ OffersKept
<1> DEFINE m == MoveTo(world, near, p, i, d)
<1>1. MovedTo(m, world, near, p, i, d) /\ Becomes(m.moved, m.world)
  BY MoveToIs DEF Moved
<1> HIDE DEF m
<1>2. Whole(world) /\ Own(world) /\ Seen(world, world)
  BY SeenSelf DEF TradeInv
<1>3. \/ m.moved = {} /\ m.world = world
      \/ m.moved = {i} /\ Moves(m.world, world, d, i)
  BY <1>1, <1>2, MovesIs
<1>4. QED BY <1>1, <1>2, <1>3, MoveSettles

\* An item that is nowhere falls to the ground: a place of its own, as a slot is.
LEMMA DropIs ==
    ASSUME ItemsAssumption, NEW w, NEW i, Loose(w, i), Own(w)
    PROVE  PutThere(Drop(w, i), w, Slot("hand"), i) /\ Slot("hand").kind \in {"slot", "bag"}
<1>1. Topped(Drop(w, i), w, i) /\ w \in World
  BY DropTopped DEF Loose
<1>2. QED BY <1>1, ToppedWhole, ToppedOwn, ToppedSpared DEF PutThere, Slot

LEMMA MoveIntoBagKeeps ==
    ASSUME ItemsAssumption, TradeInv, UNCHANGED <<given, near>>, NEW p \in Players, NEW i \in Placed(world), MoveIntoBag(p, i)
    PROVE  TradeInv' /\ OffersKept
<1>1. PICK b \in Bags : InReach(p, b) /\ Moved(MoveTo(world, near, p, i, Bag(b, INDEX_WHEREEVER)))
  BY DEF MoveIntoBag
<1>2. b \in Placed(world) /\ BagSize \in Nat
  BY <1>1, PlayerReaches DEF ItemsAssumption
<1>3. Proper(world, Bag(b, INDEX_WHEREEVER))
  BY <1>2 DEF Proper, Bag, INDEX_WHEREEVER
<1>4. QED BY <1>1, <1>3, PlainMove

LEMMA MoveToSlotKeeps ==
    ASSUME ItemsAssumption, TradeInv, UNCHANGED <<given, near>>, NEW p \in Players, NEW i \in Placed(world), MoveToSlot(p, i)
    PROVE  TradeInv' /\ OffersKept
<1>1. PICK s \in Slots :
        IF world.inventory[p][s] \in Bags
        THEN Moved(MoveTo(world, near, p, i, Bag(world.inventory[p][s], INDEX_WHEREEVER)))
        ELSE Moved(MoveTo(world, near, p, i, Slot(s)))
  BY DEF MoveToSlot
<1>2. CASE world.inventory[p][s] \in Bags
  <2> DEFINE b == world.inventory[p][s]
  <2>1. b \in Worn(world, p)
    BY <1>2 DEF Worn, ItemsAssumption
  <2>2. b \in Placed(world) /\ BagSize \in Nat
    BY <2>1, CarriedIs DEF LeastWith, TradeInv, Whole, ItemsAssumption
  <2>3. Proper(world, Bag(b, INDEX_WHEREEVER))
    BY <1>2, <2>2 DEF Proper, Bag, INDEX_WHEREEVER
  <2>4. Moved(MoveTo(world, near, p, i, Bag(b, INDEX_WHEREEVER)))
    BY <1>1, <1>2
  <2> HIDE DEF b
  <2>5. QED BY <2>3, <2>4, PlainMove
<1>3. CASE world.inventory[p][s] \notin Bags
  <2>1. Proper(world, Slot(s)) /\ Moved(MoveTo(world, near, p, i, Slot(s)))
    BY <1>1, <1>3 DEF Proper, Slot
  <2>2. QED BY <2>1, PlainMove
<1>4. QED BY <1>2, <1>3

LEMMA MoveAnywhereKeeps ==
    ASSUME ItemsAssumption, TradeInv, UNCHANGED <<given, near>>, NEW p \in Players, NEW i \in Placed(world), MoveAnywhere(p, i)
    PROVE  TradeInv' /\ OffersKept
<1>1. PICK m \in MoveToPlayer(world, near, p, i, tradeItem[p], TRUE) : Becomes(m.moved, m.world)
  BY DEF MoveAnywhere, Moved
<1>2. ToPlayer(m, world, p, i)
  BY <1>1, MoveToPlayerIs DEF TradeInv
<1>3. PICK u : /\ Seen(u, world)
               /\ \/ m.moved = {} /\ m.world = u
                  \/ m.moved = {i} /\ \E d : Moves(m.world, u, d, i)
  BY <1>2 DEF ToPlayer
<1>4. QED BY <1>1, <1>3, MoveSettles

LEMMA MoveToGroundKeeps ==
    ASSUME ItemsAssumption, TradeInv, UNCHANGED <<given, near>>, NEW p \in Players, NEW i \in Placed(world), MoveToGround(p, i)
    PROVE  TradeInv' /\ OffersKept
<1> DEFINE u == Take(world, near, i)
           v == Drop(u, i)
           m == [moved |-> {i}, world |-> v]
<1>1. world \in World /\ Whole(world) /\ Own(world) /\ Single(world) /\ i \in Items
  BY PlacedInItems DEF TradeInv, Whole
<1>2. Lost(u, world, i) /\ Own(u)
  BY <1>1, TakeIs, TakeOwn
<1> HIDE DEF u
<1>3. Loose(u, i) /\ Placed(u) \subseteq Placed(world)
  BY <1>1, <1>2, LostLoose
<1>4. PutThere(v, u, Slot("hand"), i) /\ Slot("hand").kind \in {"slot", "bag"}
  BY <1>2, <1>3, DropIs
<1>5. Tree(u, i) \subseteq Placed(world)
  <2>1. Tree(u, i) = Tree(world, i)
    BY <1>1, <1>2, LostTree
  <2>2. QED BY <1>1, <2>1, PlacedInItems, TreeDown
<1>6. Moves(v, world, Slot("hand"), i)
  BY <1>2, <1>3, <1>4, <1>5 DEF Moves, PutThere
<1>7. m.moved = {i} /\ m.world = v /\ Becomes({i}, v)
  BY DEF MoveToGround, u
<1> HIDE DEF m, v
<1>8. Becomes(m.moved, m.world) /\ Moves(m.world, world, Slot("hand"), i) /\ Seen(world, world)
  BY <1>1, <1>6, <1>7, SeenSelf
<1>9. QED BY <1>7, <1>8, MoveSettles

\* A new thing has come to somebody, to the ground, or to nothing.
Came(v, w, i) ==
    \/ Seen(v, w)
    \/ \E u, d : Seen(u, w) /\ Loose(u, i) /\ PutThere(v, u, d, i) /\ d.kind \in {"slot", "bag"}

LEMMA RewardKeeps ==
    ASSUME ItemsAssumption, TradeInv, NEW p \in Players, NEW i \in Items, Reward(p, i)
    PROVE  TradeInv' /\ OffersKept
<1>1. PICK r \in AddItem(world, near, p, i, tradeItem[p], TRUE, FALSE) :
        /\ Becomes({i}, IF r.ok THEN r.world ELSE IF p \in near THEN Drop(r.world, i) ELSE r.world)
        /\ given' = IF r.ok \/ p \in near THEN given \cup {i} ELSE given
  BY DEF Reward
<1>2. i \notin given /\ i \notin Bags /\ near' = near
  BY DEF Reward
<1>3. /\ world \in World /\ Whole(world) /\ Own(world) /\ Placed(world) \subseteq given
         /\ given \subseteq Items
      /\ i \notin Placed(world)
  BY <1>2 DEF TradeInv, TradeTypes, Whole
<1>4. (~r.ok => Seen(r.world, world)) /\ Added(r.world, world, i)
  BY <1>1, <1>2, <1>3, AddItemIs
<1> DEFINE v == IF r.ok THEN r.world ELSE IF p \in near THEN Drop(r.world, i) ELSE r.world
<1>5. Becomes({i}, v) /\ given' \subseteq Items /\ given \subseteq given'
  BY <1>1, <1>3
<1>6. Came(v, world, i) /\ (~Seen(v, world) => i \in given')
  <2>1. CASE r.ok
    BY <1>1, <1>4, <2>1 DEF Added, Came
  <2>2. CASE ~r.ok /\ p \in near
    <3> DEFINE u == r.world
    <3>1. Seen(u, world) /\ v = Drop(u, i) /\ i \in given'
      BY <1>1, <1>4, <2>2
    <3> HIDE DEF u, v
    <3>2. Whole(u) /\ Own(u) /\ Placed(u) = Placed(world)
      BY <1>3, <3>1, SamePlaces DEF Seen
    <3>3. Loose(u, i)
      BY <1>3, <3>2, NewLoose
    <3>4. PutThere(v, u, Slot("hand"), i) /\ Slot("hand").kind \in {"slot", "bag"}
      BY <3>1, <3>2, <3>3, DropIs
    <3>5. QED BY <3>1, <3>3, <3>4 DEF Came
  <2>3. CASE ~r.ok /\ p \notin near
    BY <1>4, <2>3 DEF Came
  <2>4. QED BY <2>1, <2>2, <2>3
<1> HIDE DEF v
<1>7. CASE Seen(v, world)
  <2>1. \A q \in Players : Offers(world, q) => Kept(v, world, tradeItem[q])
    BY <1>3, <1>7, SeenKeeps
  <2>2. Whole(v) /\ Own(v) /\ Placed(v) \subseteq given'
    BY <1>3, <1>5, <1>7, SamePlaces DEF Seen
  <2>3. QED BY <1>2, <1>5, <2>1, <2>2, BecomesIs
<1>8. CASE ~Seen(v, world)
  <2>1. PICK u, d : Seen(u, world) /\ Loose(u, i) /\ PutThere(v, u, d, i)
             /\ d.kind \in {"slot", "bag"}
    BY <1>6, <1>8 DEF Came
  <2>2. u \in World /\ Placed(u) = Placed(world) /\ Tree(u, i) = {i}
    BY <1>2, <1>3, <2>1, SamePlaces, TreeIs DEF Seen, AsBefore
  <2>3. Whole(v) /\ Own(v) /\ Placed(v) \subseteq given'
    BY <1>3, <1>5, <1>6, <1>8, <2>1, <2>2 DEF PutThere
  <2>4. ASSUME NEW q \in Players, Offers(world, q), q \notin ClosedByAdding(v, i)
        PROVE  Kept(v, world, tradeItem[q])
    <3>1. Kept(u, world, tradeItem[q]) /\ Offers(u, q) /\ tradeItem[q] \in Items
      BY <1>3, <2>1, <2>4, SeenKeeps DEF Offers
    <3>2. d.kind = "bag" => d.at \notin Tree(u, tradeItem[q])
      BY <2>1, <2>2, <2>4, <3>1, AddingSpares
    <3>3. Kept(v, u, tradeItem[q])
      BY <2>1, <2>2, <3>1, <3>2, KeptPut
    <3>4. QED BY <3>1, <3>3, KeptTwice
  <2>5. QED BY <1>2, <1>5, <2>3, <2>4, BecomesIs
<1>9. QED BY <1>7, <1>8

LEMMA RemoveItemKeeps ==
    ASSUME ItemsAssumption, TradeInv, NEW i \in Items, RemoveItem(i)
    PROVE  TradeInv' /\ OffersKept
<1> DEFINE v == Take(world, near, i)
<1>1. i \in Placed(world) /\ i \notin Bags /\ Becomes({i}, v) /\ given' = given \ {i}
      /\ near' = near
  BY DEF RemoveItem
<1>2. /\ world \in World /\ Whole(world) /\ Own(world) /\ Single(world)
      /\ Placed(world) \subseteq given /\ given \subseteq Items
  BY DEF TradeInv, TradeTypes, Whole
<1>3. Lost(v, world, i) /\ Own(v)
  BY <1>2, TakeIs, TakeOwn
<1> HIDE DEF v
<1>4. Loose(v, i) /\ Placed(v) \subseteq Placed(world)
  BY <1>1, <1>2, <1>3, LostLoose
<1>5. v \in World /\ Single(v) /\ Tight(v) /\ Bags \subseteq Placed(v) \cup {i}
  BY <1>1, <1>4, TreeIs DEF Loose
<1>6. Whole(v)
  BY <1>1, <1>5 DEF Whole
<1>7. i \notin Placed(v)
  <2>1. Filled(v) /\ Top(v) \subseteq Items /\ i \notin Top(v) /\ \A c \in Bags : i \notin In(v, c)
    BY <1>4, <1>5, WorldParts DEF Loose
  <2>2. i \notin AndAllIn(v, Top(v))
    BY <2>1, AllUp
  <2>3. QED BY <1>5, <2>2, PlacedIs
<1>8. ASSUME NEW p \in Players, Offers(world, p), p \notin ClosedByTaking(world, i)
      PROVE  Kept(v, world, tradeItem[p])
  <2>1. i \notin Tree(world, tradeItem[p]) /\ tradeItem[p] \notin Tree(world, i)
    BY <1>1, <1>2, <1>8, TakingSpares
  <2>2. QED BY <1>2, <1>3, <1>8, <2>1, KeptLost DEF Offers
<1>9. Placed(v) \subseteq given' /\ given' \subseteq Items
  BY <1>1, <1>2, <1>4, <1>7
<1>10. QED BY <1>1, <1>3, <1>6, <1>8, <1>9, BecomesIs

-----------------------------------------------------------------------------
(* Trades begin, are made and end                                          *)

LEMMA MovesPlaced ==
    ASSUME ItemsAssumption, NEW w, Whole(w), NEW i \in Placed(w), NEW v, NEW d, Moves(v, w, d, i)
    PROVE  Placed(v) = Placed(w)
<1>1. PICK u : Lost(u, w, i) /\ PutThere(v, u, d, i)
  BY DEF Moves
<1>2. w \in World /\ Single(w) /\ Placed(v) \subseteq Placed(w)
  BY DEF Whole, Moves
<1>3. Tree(u, i) = Tree(w, i) /\ Placed(w) \subseteq Placed(u) \cup Tree(w, i)
  BY <1>1, <1>2, LostTree, LostLoose
<1>4. Placed(v) = Placed(u) \cup Tree(u, i)
  BY <1>1 DEF PutThere
<1>5. QED BY <1>2, <1>3, <1>4

\* At most what is moved, with all that is in it, comes into an item.
LEMMA MovesTree ==
    ASSUME ItemsAssumption, NEW w, Whole(w), NEW i \in Placed(w), NEW v, NEW d, Moves(v, w, d, i), NEW x \in Items
    PROVE  Tree(v, x) \subseteq Tree(w, x) \cup Tree(w, i)
<1>1. PICK u : Lost(u, w, i) /\ PutThere(v, u, d, i) /\ d.kind \in {"slot", "bag"}
  BY DEF Moves
<1>2. w \in World /\ Single(w) /\ u \in World /\ v \in World /\ {x} \subseteq Items
  BY <1>1 DEF Whole, Moves, Lost
<1>3. Tree(u, x) \subseteq Tree(w, x)
  BY <1>1, <1>2, LostAll DEF Tree
<1>4. Tree(u, i) = Tree(w, i) /\ i \in Items
  BY <1>1, <1>2, LostTree, PlacedInItems
<1>5. CASE d.kind = "slot"
  <2>1. v.contents = u.contents
    BY <1>1, <1>5 DEF PutThere, Topped
  <2>2. Filled(v) /\ Filled(u) /\ \A c \in Bags : In(v, c) = In(u, c)
    BY <1>2, <2>1, WorldParts DEF In
  <2>3. AndAllIn(v, {x}) = AndAllIn(u, {x})
    BY <1>2, <2>2, AllSame
  <2>4. QED BY <1>3, <2>3 DEF Tree
<1>6. CASE d.kind = "bag"
  <2> DEFINE b == d.at
  <2>1. b \in Bags /\ Gained(v, u, b, i)
    BY <1>1, <1>6 DEF PutThere
  <2> HIDE DEF b
  <2>2. AndAllIn(v, {x}) \subseteq AndAllIn(u, {x}) \cup Tree(u, i)
    <3>1. CASE b \in AndAllIn(u, {x})
      BY <1>2, <1>4, <2>1, <3>1, GainedAll
    <3>2. CASE b \notin AndAllIn(u, {x})
      BY <1>2, <1>4, <2>1, <3>2, GainedAll
    <3>3. QED BY <3>1, <3>2
  <2>3. QED BY <1>3, <1>4, <2>2 DEF Tree
<1>7. QED BY <1>1, <1>5, <1>6

\* x lies on the ground or somebody other than p carries it.
Elsewhere(w, p, x) == x \in Lying(w) \/ \E r \in Players \ {p} : x \in Carried(w, r)

LEMMA ElsewhereIs ==
    ASSUME ItemsAssumption, NEW w \in World, Single(w), NEW p \in Players, NEW x, Elsewhere(w, p, x)
    PROVE  Tree(w, x) \cap Carried(w, p) = {}
<1>1. CASE x \in Lying(w)
  <2>1. Tree(w, x) \subseteq Lying(w)
    BY <1>1, OwnedIs, TreeDown
  <2>2. QED BY <2>1, Owners
<1>2. ASSUME NEW r \in Players \ {p}, x \in Carried(w, r) PROVE Tree(w, x) \cap Carried(w, p) = {}
  <2>1. Tree(w, x) \subseteq Carried(w, r)
    BY <1>2, OwnedIs, TreeDown
  <2>2. QED BY <2>1, Owners
<1>3. QED BY <1>1, <1>2 DEF Elsewhere

\* What v is to w when i has come to p, or has stayed.
Handed(v, w, p, i) ==
    /\ Whole(v) /\ Own(v) /\ Placed(v) = Placed(w)
    /\ \A x \in Items : /\ Tree(v, x) \subseteq Tree(w, x) \cup Tree(w, i)
                        /\ i \notin Tree(w, x) /\ x \notin Tree(w, i) /\ Elsewhere(w, p, x)
                           => Kept(v, w, x)

LEMMA HandedIs ==
    ASSUME ItemsAssumption, NEW w, Whole(w), Own(w), NEW p \in Players, NEW i \in Placed(w), NEW m, ToPlayer(m, w, p, i)
    PROVE  Handed(m.world, w, p, i)
<1>1. w \in World /\ Single(w) /\ i \in Items
  BY PlacedInItems DEF Whole
<1>2. PICK u : /\ Seen(u, w)
               /\ \/ m.moved = {} /\ m.world = u
                  \/ \E d : Moves(m.world, u, d, i) /\ (d.kind = "bag" => d.at \in Carried(u, p))
  BY DEF ToPlayer
<1>3. /\ Whole(u) /\ Own(u) /\ u \in World /\ Single(u) /\ Placed(u) = Placed(w)
      /\ \A x \in Items : Tree(u, x) = Tree(w, x) /\ Kept(u, w, x)
  BY <1>1, <1>2, SamePlaces, SameTree, KeptSame DEF Seen, AsBefore, Whole
<1>4. CASE m.world = u
  BY <1>3, <1>4 DEF Handed
<1>5. ASSUME NEW d, Moves(m.world, u, d, i), d.kind = "bag" => d.at \in Carried(u, p)
      PROVE  Handed(m.world, w, p, i)
  <2> DEFINE v == m.world
  <2> HIDE DEF v
  <2>1. Moves(v, u, d, i)
    BY <1>5 DEF v
  <2>2. Whole(v) /\ Own(v) /\ Placed(v) = Placed(w)
    BY <1>3, <2>1, MovesPlaced DEF Moves
  <2>3. ASSUME NEW x \in Items PROVE Tree(v, x) \subseteq Tree(w, x) \cup Tree(w, i)
    BY <1>1, <1>3, <2>1, MovesTree
  <2>4. ASSUME NEW x \in Items, i \notin Tree(w, x), x \notin Tree(w, i), Elsewhere(w, p, x) PROVE Kept(v, w, x)
    <3>1. Elsewhere(u, p, x)
      BY <1>3, <2>4 DEF Elsewhere, Kept
    <3>2. Tree(u, x) \cap Carried(u, p) = {}
      BY <1>3, <3>1, ElsewhereIs
    <3>3. d.kind = "bag" => d.at \notin Tree(u, x)
      BY <1>5, <3>2
    <3>4. Kept(v, u, x)
      BY <1>1, <1>3, <2>1, <2>4, <3>3, KeptMoves
    <3>5. QED BY <1>3, <3>4, KeptTwice
  <2>5. QED BY <2>2, <2>3, <2>4 DEF Handed, v
<1>6. QED BY <1>2, <1>4, <1>5

LEMMA CouldGetIs ==
    ASSUME ItemsAssumption, NEW w, Whole(w), Own(w), NEW p \in Players, NEW i \in Items \cup {NoItem},
           NEW r \in CouldGet(w, p, i)
    PROVE  Seen(r.world, w) /\ (r.ok => i \in Items)
<1>1. CASE i = NoItem
  <2>1. r.ok = FALSE /\ r.world = w
    BY <1>1 DEF CouldGet
  <2>2. QED BY <2>1, SeenSelf
<1>2. CASE i # NoItem
  <2>1. i \in Items /\ r \in AddItem(w, near, p, i, tradeItem[p], FALSE, TRUE)
    BY <1>2 DEF CouldGet
  <2>2. Seen(r.world, w)
    BY <2>1, AddItemIs
  <2>3. QED BY <2>1, <2>2
<1>3. QED BY <1>1, <1>2


\* The world after a trade: whole, and nothing of the offers of others has changed.
LEMMA TransferIs ==
    ASSUME ItemsAssumption, TradeInv, NEW p \in Players, NEW q \in Players, p # q, NEW w \in Transfers(p, q)
    PROVE  /\ Whole(w) /\ Own(w) /\ Placed(w) = Placed(world)
           /\ \A r \in Players \ {p, q} : tradeItem[r] # NoItem => Kept(w, world, tradeItem[r])
<1> DEFINE mine == tradeItem[p]
           his == tradeItem[q]
           Out(v) == /\ Whole(v) /\ Own(v) /\ Placed(v) = Placed(world)
                     /\ \A r \in Players \ {p, q} : tradeItem[r] # NoItem
                        => Kept(v, world, tradeItem[r])
<1>1. /\ world \in World /\ Whole(world) /\ Own(world) /\ Single(world)
      /\ mine \in Items \cup {NoItem} /\ his \in Items \cup {NoItem}
  BY DEF TradeInv, TradeTypes, Whole
<1>2. PICK r1 \in CouldGet(world, q, mine) : \E r2 \in CouldGet(r1.world, p, his) :
        \/ w = r2.world
        \/ /\ r1.ok /\ r2.ok
           /\ \E m1 \in MoveToPlayer(r2.world, near, q, mine, his, FALSE) :
                \E m2 \in MoveToPlayer(m1.world, near, p, his, mine, FALSE) : w = m2.world
  <2> DEFINE gets(r1, r2) == UNION {{m2.world : m2 \in MoveToPlayer(m1.world, near, p, his, mine, FALSE)} :
                                     m1 \in MoveToPlayer(r2.world, near, q, mine, his, FALSE)}
             after(r1, r2) == IF ~(r1.ok /\ r2.ok) THEN {r2.world} ELSE gets(r1, r2)
             asked(r1) == UNION {after(r1, r2) : r2 \in CouldGet(r1.world, p, his)}
  <2>1. w \in UNION {asked(r1) : r1 \in CouldGet(world, q, mine)}
    BY DEF Transfers
  <2>2. PICK r1 \in CouldGet(world, q, mine) : w \in asked(r1)
    BY <2>1
  <2>3. PICK r2 \in CouldGet(r1.world, p, his) : w \in after(r1, r2)
    BY <2>2
  <2>4. CASE ~(r1.ok /\ r2.ok)
    BY <2>3, <2>4
  <2>5. CASE r1.ok /\ r2.ok
    <3>1. w \in gets(r1, r2)
      BY <2>3, <2>5
    <3>2. PICK m1 \in MoveToPlayer(r2.world, near, q, mine, his, FALSE) :
            w \in {m2.world : m2 \in MoveToPlayer(m1.world, near, p, his, mine, FALSE)}
      BY <3>1
    <3>3. QED BY <2>3, <2>5, <3>2
  <2>6. QED BY <2>4, <2>5
<1>3. PICK r2 \in CouldGet(r1.world, p, his) :
        \/ w = r2.world
        \/ /\ r1.ok /\ r2.ok
           /\ \E m1 \in MoveToPlayer(r2.world, near, q, mine, his, FALSE) :
                \E m2 \in MoveToPlayer(m1.world, near, p, his, mine, FALSE) : w = m2.world
  BY <1>2
<1> DEFINE u == r2.world
<1>4. Seen(r1.world, world) /\ (r1.ok => mine \in Items)
  BY <1>1, <1>2, CouldGetIs
<1>5. Whole(r1.world) /\ Own(r1.world)
  BY <1>4 DEF Seen
<1>6. Seen(u, r1.world) /\ (r2.ok => his \in Items)
  BY <1>1, <1>3, <1>5, CouldGetIs
<1>7. Seen(u, world)
  BY <1>4, <1>6, SeenTwice
<1> HIDE DEF u
<1>8. /\ Whole(u) /\ Own(u) /\ u \in World /\ Placed(u) = Placed(world)
      /\ \A x \in Items : Tree(u, x) = Tree(world, x) /\ Kept(u, world, x)
  BY <1>1, <1>7, SamePlaces, SameTree, KeptSame DEF Seen, AsBefore
<1>9. \A r \in Players : tradeItem[r] # NoItem => tradeItem[r] \in Items
      /\ Reaches(world, r, tradeItem[r])
  BY DEF TradeInv, TradeTypes, OffersReached
<1>10. CASE w = u
  BY <1>8, <1>9, <1>10
<1>11. ASSUME mine \in Items, his \in Items, NEW m1 \in MoveToPlayer(u, near, q, mine, his, FALSE),
              NEW m2 \in MoveToPlayer(m1.world, near, p, his, mine, FALSE), w = m2.world
       PROVE  Out(w)
  <2>1. mine # NoItem /\ his # NoItem /\ mine \in Placed(u) /\ his \in Placed(u)
    BY <1>8, <1>9, <1>11 DEF ItemsAssumption, Reaches, Placed
  <2> DEFINE v == m1.world
  <2>2. ToPlayer(m1, u, q, mine)
    BY <1>8, <1>11, <2>1, MoveToPlayerIs
  <2>3. Handed(v, u, q, mine)
    BY <1>8, <2>1, <2>2, HandedIs
  <2> HIDE DEF v
  <2>4. Whole(v) /\ Own(v) /\ Placed(v) = Placed(u) /\ his \in Placed(v)
    BY <2>1, <2>3 DEF Handed
  <2>5. m2 \in MoveToPlayer(v, near, p, his, mine, FALSE)
    BY <1>11 DEF v
  <2>6. ToPlayer(m2, v, p, his)
    BY <2>4, <2>5, MoveToPlayerIs
  <2>7. Handed(w, v, p, his)
    BY <1>11, <2>4, <2>6, HandedIs
  <2>8. ASSUME NEW r \in Players \ {p, q}, tradeItem[r] # NoItem PROVE Kept(w, world, tradeItem[r])
    <3> DEFINE o == tradeItem[r]
    <3>1. o \in Items /\ Reaches(world, r, o) /\ Kept(u, world, o)
      BY <1>8, <1>9, <2>8
    <3>2. /\ Tree(world, o) \cap Tree(world, mine) = {} /\ Tree(world, o) \cap Tree(world, his) = {}
      BY <2>1, <2>8 DEF TradeInv, OffersApart
    <3>3. o \in Tree(world, o) /\ mine \in Tree(world, mine) /\ his \in Tree(world, his)
      BY TreeIs
    <3> HIDE DEF o
    <3>4. Elsewhere(u, q, o)
      BY <2>8, <3>1 DEF Kept, Reaches, Elsewhere
    <3>5. Tree(u, o) = Tree(world, o) /\ Tree(u, mine) = Tree(world, mine)
          /\ Tree(u, his) = Tree(world, his)
      BY <1>8, <1>11, <3>1
    <3>6. mine \notin Tree(u, o) /\ o \notin Tree(u, mine)
      BY <3>2, <3>3, <3>5
    <3>7. Kept(v, u, o) /\ Tree(v, his) \subseteq Tree(u, his) \cup Tree(u, mine)
      BY <1>11, <2>3, <3>1, <3>4, <3>6 DEF Handed
    <3>8. Kept(v, world, o) /\ Tree(v, o) = Tree(u, o)
      BY <3>1, <3>7, KeptTwice DEF Kept
    <3>9. his \notin Tree(v, o) /\ o \notin Tree(v, his)
      BY <3>2, <3>3, <3>5, <3>7, <3>8
    <3>10. Elsewhere(v, p, o)
      BY <2>8, <3>1, <3>8 DEF Kept, Reaches, Elsewhere
    <3>11. Kept(w, v, o)
      BY <2>7, <3>1, <3>9, <3>10 DEF Handed
    <3>12. QED BY <3>8, <3>11, KeptTwice DEF o
  <2>9. Whole(w) /\ Own(w) /\ Placed(w) = Placed(world)
    BY <1>8, <2>4, <2>7 DEF Handed
  <2>10. QED BY <2>8, <2>9
<1>12. Out(w)
  <2>1. CASE w = u
    BY <1>10, <2>1, <1>8, <1>9
  <2>2. CASE /\ r1.ok /\ r2.ok
             /\ \E m1 \in MoveToPlayer(u, near, q, mine, his, FALSE) :
                  \E m2 \in MoveToPlayer(m1.world, near, p, his, mine, FALSE) : w = m2.world
    BY <1>4, <1>6, <1>11, <2>2
  <2>3. QED BY <1>3, <2>1, <2>2 DEF u
<1>13. QED BY <1>12

\* The trade of one is that of his partner.
LEMMA ClosesBoth ==
    ASSUME TradeInv, NEW p \in Players, tradePartner[p] # NoPlayer
    PROVE  CloseTrades({p}) <=> CloseTrades({p, tradePartner[p]})
<1> DEFINE q == tradePartner[p]
<1>1. tradePartner[q] = p
  BY DEF TradeInv, Pairs
<1> DEFINE one == {p} \cup {tradePartner[x] : x \in {p}}
           two == {p, q} \cup {tradePartner[x] : x \in {p, q}}
<1>2. one = two
  BY <1>1
<1>3. QED BY <1>2 DEF CloseTrades


LEMMA KeptSelf ==
    ASSUME NEW w, NEW x
    PROVE  Kept(w, w, x)
BY DEF Kept

LEMMA CloseTradeKeeps ==
    ASSUME ItemsAssumption, TradeInv, NEW p \in Players, CloseTrade(p)
    PROVE  TradeInv' /\ OffersKept
<1>1. CloseTrades({p}) /\ world' = world /\ given' = given /\ near' = near /\ {p} \subseteq Players
  BY DEF CloseTrade
<1>2. Whole(world) /\ Own(world) /\ Placed(world) \subseteq given /\ given \subseteq Items
      /\ near \subseteq Players
  BY DEF TradeInv, TradeTypes
<1>3. QED BY <1>1, <1>2, KeptSelf, Settles

LEMMA WalkAwayKeeps ==
    ASSUME ItemsAssumption, TradeInv, NEW p \in Players, WalkAway(p)
    PROVE  TradeInv' /\ OffersKept
<1>1. /\ CloseTrades({p}) /\ world' = world /\ given' = given /\ near' = near \ {p}
         /\ {p} \subseteq Players
  BY DEF WalkAway
<1>2. Whole(world) /\ Own(world) /\ Placed(world) \subseteq given /\ given \subseteq Items
      /\ near \subseteq Players
  BY DEF TradeInv, TradeTypes
<1>3. QED BY <1>1, <1>2, KeptSelf, Settles

LEMMA ComeBackKeeps ==
    ASSUME TradeInv, NEW p \in Players, ComeBack(p)
    PROVE  TradeInv' /\ OffersKept
<1>1. /\ world' = world /\ given' = given /\ near' = near \cup {p}
      /\ tradeState' = tradeState /\ tradePartner' = tradePartner /\ tradeItem' = tradeItem
         /\ tradeItems' = tradeItems
  BY DEF ComeBack, trades
<1>2. TradeTypes'
  BY <1>1 DEF TradeInv, TradeTypes
<1>3. OffersReached'
  BY <1>1 DEF TradeInv, OffersReached, Reaches
<1>4. Pairs' /\ Listed' /\ OffersApart' /\ OffersKept
  BY <1>1 DEF TradeInv, Pairs, Listed, OffersApart, OffersKept
<1>5. QED BY <1>1, <1>2, <1>3, <1>4 DEF TradeInv

LEMMA AcceptTradeKeeps ==
    ASSUME ItemsAssumption, TradeInv, NEW p \in Players, AcceptTrade(p)
    PROVE  TradeInv' /\ OffersKept
<1> DEFINE q == tradePartner[p]
<1>1. /\ tradeState[p] \in {"acknowledge", "initiated"} /\ q \in near /\ given' = given
         /\ near' = near
      /\ \/ /\ tradeState' = [tradeState EXCEPT ![p] = "accept"]
            /\ UNCHANGED <<world, tradePartner, tradeItem, tradeItems>>
         \/ world' \in Transfers(p, q) /\ CloseTrades({p})
  BY DEF AcceptTrade
<1>2. TradeTypes /\ Pairs /\ Listed /\ OffersApart /\ OffersReached /\ Placed(world) \subseteq given
  BY DEF TradeInv
<1>3. q \in Players /\ q # NoPlayer /\ p # q
  BY <1>1, <1>2 DEF TradeTypes, Pairs, ItemsAssumption
<1>4. CASE /\ tradeState' = [tradeState EXCEPT ![p] = "accept"]
           /\ UNCHANGED <<world, tradePartner, tradeItem, tradeItems>>
  <2>1. tradeState \in [Players -> {"none", "initiated", "accept", "acknowledge"}]
    BY <1>2 DEF TradeTypes
  <2>2. \A x \in Players : tradeState'[x] = IF x = p THEN "accept" ELSE tradeState[x]
    BY <1>4, <2>1
  <2>3. tradeState' \in [Players -> {"none", "initiated", "accept", "acknowledge"}]
    BY <1>4, <2>1
  <2>4. Pairs'
    BY <1>2, <1>3, <1>4, <2>2 DEF Pairs
  <2>5. TradeTypes' /\ Listed' /\ OffersApart' /\ OffersReached' /\ OffersKept
    BY <1>1, <1>2, <1>4, <2>3 DEF TradeTypes, Listed, OffersApart, OffersReached, OffersKept,
         Reaches
  <2>6. QED BY <1>1, <1>4, <2>4, <2>5 DEF TradeInv
<1>5. CASE world' \in Transfers(p, q) /\ CloseTrades({p})
  <2>1. CloseTrades({p, q}) /\ {p, q} \subseteq Players
    BY <1>3, <1>5, ClosesBoth
  <2>2. /\ Whole(world') /\ Own(world') /\ Placed(world') = Placed(world)
        /\ \A r \in Players \ {p, q} : tradeItem[r] # NoItem => Kept(world', world, tradeItem[r])
    BY <1>3, <1>5, TransferIs
  <2>3. given' \subseteq Items /\ near' \subseteq Players /\ Placed(world') \subseteq given'
        /\ near' = near
    BY <1>1, <1>2, <2>2 DEF TradeTypes
  <2> HIDE DEF q
  <2>4. QED BY <2>1, <2>2, <2>3, Settles
<1>6. QED BY <1>1, <1>4, <1>5

LEMMA RequestTradeKeeps ==
    ASSUME ItemsAssumption, TradeInv, NEW p \in Players, NEW q \in Players, NEW i \in Items, RequestTrade(p, q, i)
    PROVE  TradeInv' /\ OffersKept
<1>1. /\ p # q /\ InReach(p, i) /\ ~OnOffer(i)
      /\ tradeState[p] = "none" \/ (tradeState[p] = "acknowledge" /\ tradePartner[p] = q)
      /\ tradeState[q] = "none" \/ tradePartner[q] = p
      /\ tradeState' = [tradeState EXCEPT ![p] = "initiated",
                                          ![q] = IF @ = "none" THEN "acknowledge" ELSE @]
      /\ tradePartner' = [tradePartner EXCEPT ![p] = q, ![q] = p]
      /\ tradeItem' = [tradeItem EXCEPT ![p] = i]
      /\ tradeItems' = tradeItems \cup {i}
      /\ world' = world /\ given' = given /\ near' = near
  BY DEF RequestTrade
<1>2. /\ TradeTypes /\ Pairs /\ Listed /\ OffersApart /\ OffersReached
         /\ Placed(world) \subseteq given
      /\ world \in World /\ Single(world) /\ Whole(world) /\ Own(world) /\ HeldOnce(world)
         /\ Filled(world)
  BY WorldParts DEF TradeInv, Whole, Single
<1>3. /\ tradeState \in [Players -> {"none", "initiated", "accept", "acknowledge"}]
      /\ tradePartner \in [Players -> Players \cup {NoPlayer}]
         /\ tradeItem \in [Players -> Items \cup {NoItem}]
      /\ i # NoItem /\ NoPlayer \notin Players
  BY <1>2 DEF TradeTypes, ItemsAssumption
<1>4. \A x \in Players :
        /\ tradeState'[x] = IF x = p THEN "initiated"
                            ELSE IF x = q
                            /\ tradeState[x] = "none" THEN "acknowledge" ELSE tradeState[x]
        /\ tradePartner'[x] = IF x = p THEN q ELSE IF x = q THEN p ELSE tradePartner[x]
        /\ tradeItem'[x] = IF x = p THEN i ELSE tradeItem[x]
  BY <1>1, <1>3
<1>5. tradeItem[p] = NoItem
  BY <1>1, <1>2 DEF Pairs
<1>6. ASSUME NEW x \in Players \ {p, q}, tradePartner[x] # NoPlayer
      PROVE  tradePartner[x] \in Players \ {p, q}
  <2>1. tradePartner[x] \in Players /\ tradePartner[tradePartner[x]] = x
    BY <1>2, <1>3, <1>6 DEF Pairs
  <2>2. tradePartner[p] \in {NoPlayer, q} /\ tradePartner[q] \in {NoPlayer, p}
    BY <1>1, <1>2 DEF Pairs
  <2>3. QED BY <1>3, <2>1, <2>2
<1>7. Pairs'
  <2> SUFFICES ASSUME NEW x \in Players
               PROVE  /\ tradeState'[x] = "none" <=> tradePartner'[x] = NoPlayer
                      /\ tradePartner'[x] # NoPlayer => x # tradePartner'[x]
                         /\ tradePartner'[tradePartner'[x]] = x
                      /\ tradeItem'[x] # NoItem => tradeState'[x] # "none"
                      /\ tradeState'[x] = "initiated" => tradeItem'[x] # NoItem
                      /\ tradeState'[x] = "acknowledge" => tradeItem'[x] = NoItem
    BY DEF Pairs
  <2>1. CASE x = p
    BY <1>1, <1>3, <1>4, <2>1
  <2>2. CASE x = q
    BY <1>1, <1>2, <1>3, <1>4, <2>2 DEF Pairs
  <2>3. CASE x \notin {p, q}
    <3>1. tradeState'[x] = tradeState[x] /\ tradePartner'[x] = tradePartner[x]
          /\ tradeItem'[x] = tradeItem[x]
      BY <1>4, <2>3
    <3>2. tradePartner[x] # NoPlayer
          => tradePartner'[tradePartner[x]] = tradePartner[tradePartner[x]]
      BY <1>4, <1>6, <2>3
    <3>3. QED BY <1>2, <3>1, <3>2 DEF Pairs
  <2>4. QED BY <2>1, <2>2, <2>3
<1>8. Listed'
  <2>1. \A x : x \in {tradeItem'[r] : r \in Players} \ {NoItem}
               <=> x = i \/ (x \in {tradeItem[r] : r \in Players} \ {NoItem})
    BY <1>3, <1>4, <1>5
  <2>2. QED BY <1>1, <1>2, <2>1 DEF Listed
<1>9. ASSUME NEW r \in Players, tradeItem[r] # NoItem
      PROVE  Tree(world, tradeItem[r]) \cap Tree(world, i) = {}
  <2> DEFINE o == tradeItem[r]
  <2>1. o \in tradeItems /\ o \in Items
    BY <1>2, <1>3, <1>9 DEF Listed
  <2>2. i \notin Tree(world, o) /\ o \notin Tree(world, i)
    BY <1>1, <2>1, TreeIs DEF OnOffer
  <2> HIDE DEF o
  <2>3. {o} \subseteq Items /\ {i} \subseteq Items
    BY <2>1
  <2>4. {o} \cap AndAllIn(world, {i}) = {} /\ {i} \cap AndAllIn(world, {o}) = {}
    BY <2>2 DEF Tree
  <2>5. AndAllIn(world, {o}) \cap AndAllIn(world, {i}) = {}
    BY <1>2, <2>3, <2>4, Apart
  <2>6. QED BY <2>5 DEF Tree, o
<1>10. OffersApart'
  <2> SUFFICES ASSUME NEW r \in Players, NEW s \in Players, r # s, tradeItem'[r] # NoItem, tradeItem'[s] # NoItem
               PROVE  Tree(world, tradeItem'[r]) \cap Tree(world, tradeItem'[s]) = {}
    BY <1>1 DEF OffersApart
  <2>1. CASE r = p
    BY <1>4, <1>9, <2>1
  <2>2. CASE s = p
    BY <1>4, <1>9, <2>2
  <2>3. CASE r # p /\ s # p
    BY <1>2, <1>4, <2>3 DEF OffersApart
  <2>4. QED BY <2>1, <2>2, <2>3
<1>11. OffersReached'
  <2>1. Reaches(world, p, i)
    BY <1>1, PlayerReaches
  <2>2. \A x \in Players : tradeItem'[x] # NoItem => Reaches(world, x, tradeItem'[x])
    BY <1>2, <1>4, <2>1 DEF OffersReached
  <2>3. QED BY <1>1, <2>2 DEF OffersReached, Reaches
<1>12. TradeTypes'
  <2>1. tradeState' \in [Players -> {"none", "initiated", "accept", "acknowledge"}]
    BY <1>1, <1>3
  <2>2. tradePartner' \in [Players -> Players \cup {NoPlayer}]
        /\ tradeItem' \in [Players -> Items \cup {NoItem}]
    BY <1>1, <1>3
  <2>3. QED BY <1>1, <1>2, <2>1, <2>2 DEF TradeTypes
<1>13. OffersKept
  BY <1>1 DEF OffersKept
<1>14. QED BY <1>1, <1>2, <1>7, <1>8, <1>10, <1>11, <1>12, <1>13 DEF TradeInv


-----------------------------------------------------------------------------
(* An exchange                                                             *)

\* What is worn has gone to the ground or into the bag that has i.
Swapped(w, w0, worn, i) ==
    \E d : Moves(w, w0, d, worn) /\ (d.kind = "bag" => d.at \in Bags /\ i \in In(w0, d.at))

LEMMA SwapIs ==
    ASSUME ItemsAssumption, NEW w0, Whole(w0), Own(w0), NEW near0, NEW p \in Players, NEW i,
           NEW worn \in Placed(w0), worn \notin Bags, NEW w,
           \/ w = Drop(Take(w0, near0, worn), worn)
           \/ \E b \in HoldersOf(w0, i) : /\ Len(w0.contents[b]) < BagSize
                                          /\ w = PutIn(Take(w0, near0, worn), near0, b, 0, worn)
    PROVE  Swapped(w, w0, worn, i)
<1> DEFINE u == Take(w0, near0, worn)
<1>1. w0 \in World /\ Single(w0) /\ worn \in Items /\ Bags \subseteq Placed(w0)
      /\ BagSize \in Nat \ {0}
  BY PlacedInItems DEF Whole, ItemsAssumption
<1>2. Lost(u, w0, worn) /\ Own(u)
  BY <1>1, TakeIs, TakeOwn
<1>3. \/ w = Drop(u, worn)
      \/ \E b \in HoldersOf(w0, i) : Len(w0.contents[b]) < BagSize /\ w = PutIn(u, near0, b, 0, worn)
  OBVIOUS
<1> HIDE DEF u
<1>4. Loose(u, worn) /\ Placed(u) \subseteq Placed(w0)
      /\ Placed(w0) \subseteq Placed(u) \cup Tree(w0, worn)
  BY <1>2, LostLoose
<1>5. Tree(w0, worn) = {worn} /\ Tree(u, worn) = {worn}
  BY TreeIs
<1>6. ASSUME NEW d, PutThere(w, u, d, worn), d.kind \in {"slot", "bag"} PROVE Moves(w, w0, d, worn)
  BY <1>2, <1>4, <1>5, <1>6 DEF Moves, PutThere
<1>7. CASE w = Drop(u, worn)
  <2>1. PutThere(w, u, Slot("hand"), worn) /\ Slot("hand").kind \in {"slot", "bag"}
    BY <1>2, <1>4, <1>7, DropIs
  <2>2. Slot("hand").kind # "bag"
    BY DEF Slot
  <2>3. QED BY <1>6, <2>1, <2>2 DEF Swapped
<1>8. ASSUME NEW b \in HoldersOf(w0, i), Len(w0.contents[b]) < BagSize, w = PutIn(u, near0, b, 0, worn)
      PROVE  Swapped(w, w0, worn, i)
  <2> DEFINE d == Bag(b, 0)
  <2>1. b \in Bags /\ i \in In(w0, b) /\ d.kind = "bag" /\ d.at = b /\ d.index = 0
    BY DEF HoldersOf, In, Bag
  <2>2. Put(u, near0, p, d, worn) = w
    BY <1>8, <2>1 DEF Put
  <2> HIDE DEF d
  <2>3. b \in Placed(u)
    BY <1>1, <1>4, <1>5, <2>1
  <2>4. Len(u.contents[b]) < BagSize
    <3>1. Len(u.contents[b]) <= Len(w0.contents[b]) /\ Filled(u) /\ Filled(w0)
      BY <1>1, <1>2, <2>1, LostIn
    <3>2. u.contents[b] \in Seq(Items) /\ w0.contents[b] \in Seq(Items)
      BY <2>1, <3>1 DEF Filled
    <3>3. Len(u.contents[b]) \in Nat /\ Len(w0.contents[b]) \in Nat
      BY <3>2
    <3>4. QED BY <1>1, <1>8, <3>1, <3>3
  <2>5. Free(u, p, d)
    BY <1>1, <2>1, <2>3, <2>4 DEF Free
  <2>6. PutThere(w, u, d, worn) /\ d.kind \in {"slot", "bag"}
    BY <1>2, <1>4, <2>1, <2>2, <2>5, PutIs
  <2>7. QED BY <1>6, <2>1, <2>6 DEF Swapped
<1>9. QED BY <1>3, <1>7, <1>8

LEMMA ExchangeKeeps ==
    ASSUME ItemsAssumption, TradeInv, UNCHANGED <<given, near>>, NEW p \in Players, NEW i \in Placed(world), Exchange(p, i)
    PROVE  TradeInv' /\ OffersKept
<1>1. PICK s \in Slots :
        LET worn == world.inventory[p][s]
            taken == Take(world, near, worn)
            swapped == IF i \in world.ground THEN {Drop(taken, worn)}
                       ELSE {PutIn(taken, near, b, 0, worn) :
                               b \in {c \in HoldersOf(world, i) :
                               /\ Len(world.contents[c]) < BagSize
                                                                  /\ CanPutIn(world, c, 0, worn)}}
        IN /\ worn \notin Bags \cup {NoItem, i}
           /\ \E w \in swapped :
                \E r \in {MoveTo(w, near, p, i, Slot(s))} : Becomes({worn} \cup r.moved, r.world)
  BY DEF Exchange
<1> DEFINE worn == world.inventory[p][s]
<1>2. worn \notin Bags /\ worn # NoItem /\ worn # i
  BY <1>1
<1>3. PICK w : /\ \/ w = Drop(Take(world, near, worn), worn)
                  \/ \E b \in HoldersOf(world, i) : /\ Len(world.contents[b]) < BagSize
                                                    /\ w = PutIn(Take(world, near, worn), near, b, 0, worn)
               /\ Becomes({worn} \cup MoveTo(w, near, p, i, Slot(s)).moved, MoveTo(w, near, p, i, Slot(s)).world)
  BY <1>1
<1>4. /\ world \in World /\ Whole(world) /\ Own(world) /\ Single(world) /\ i \in Items
         /\ Filled(world)
      /\ Placed(world) \subseteq given /\ given \subseteq Items
  BY PlacedInItems, WorldParts DEF TradeInv, TradeTypes, Whole
<1>5. worn \in Placed(world) /\ worn \in Items
  <2>1. worn \in Worn(world, p)
    BY <1>2 DEF Worn
  <2>2. QED BY <1>4, <2>1, CarriedIs, PlacedInItems DEF LeastWith
<1> HIDE DEF worn
<1>6. Swapped(w, world, worn, i)
  BY <1>2, <1>3, <1>4, <1>5, SwapIs
<1>7. PICK d : Moves(w, world, d, worn) /\ (d.kind = "bag" => d.at \in Bags
           /\ i \in In(world, d.at))
  BY <1>6 DEF Swapped
<1>8. Whole(w) /\ Own(w) /\ Placed(w) = Placed(world) /\ w \in World /\ Single(w)
  BY <1>4, <1>5, <1>7, MovesPlaced DEF Moves, Whole
<1> DEFINE m == MoveTo(w, near, p, i, Slot(s))
           v == m.world
           moved == {worn} \cup m.moved
<1>9. MovedTo(m, w, near, p, i, Slot(s))
  BY MoveToIs
<1>10. Becomes(moved, v)
  BY <1>3
<1> HIDE DEF m
<1>11. Proper(w, Slot(s)) /\ Slot(s).kind # "bag"
  BY DEF Proper, Slot
<1>12. \/ m.moved = {} /\ m.world = w
       \/ m.moved = {i} /\ Moves(m.world, w, Slot(s), i)
  BY <1>8, <1>9, <1>11, MovesIs
<1>13. Whole(v) /\ Own(v) /\ Placed(v) \subseteq given' /\ given' \subseteq Items /\ near' = near
  BY <1>4, <1>8, <1>12 DEF Moves
<1>14. ASSUME NEW q \in Players, Offers(world, q),
              \A x \in moved : q \notin ClosedByTaking(world, x) /\ q \notin ClosedByAdding(v, x)
       PROVE  Kept(v, world, tradeItem[q])
  <2> DEFINE o == tradeItem[q]
  <2>1. o \in Items
    BY <1>14 DEF Offers
  <2>2. worn \notin Tree(world, o) /\ o \notin Tree(world, worn)
    BY <1>4, <1>5, <1>14, TakingSpares
  <2>3. CASE m.moved = {} /\ m.world = w
    BY <1>4, <1>5, <1>7, <1>14, <2>2, <2>3, MoveSpares
  <2>4. CASE m.moved = {i} /\ Moves(m.world, w, Slot(s), i)
    <3>1. i \notin Tree(world, o) /\ o \notin Tree(world, i)
      BY <1>4, <1>14, <2>4, TakingSpares
    <3> HIDE DEF o, v
    <3>2. d.kind = "bag" => d.at \notin Tree(world, o)
      <4>1. Sealed(world, Tree(world, o))
        BY <1>4, <2>1, AllIs DEF Tree, LeastWith
      <4>2. QED BY <1>7, <3>1, <4>1 DEF Sealed
    <3>3. Kept(w, world, o)
      BY <1>4, <1>5, <1>7, <2>1, <2>2, <3>2, KeptMoves
    <3>4. Tree(w, o) = Tree(world, o) /\ Tree(w, i) \subseteq Tree(world, i) \cup Tree(world, worn)
      BY <1>4, <1>5, <1>7, <3>3, MovesTree DEF Kept
    <3>5. i \notin Tree(w, o) /\ o \notin Tree(w, i)
      BY <2>2, <3>1, <3>4
    <3>6. Kept(v, w, o)
      BY <1>4, <1>8, <1>11, <2>1, <2>4, <3>5, KeptMoves DEF v
    <3>7. QED BY <3>3, <3>6, KeptTwice DEF o
  <2>5. QED BY <1>12, <2>3, <2>4
<1> HIDE DEF v, moved
<1>15. QED BY <1>10, <1>13, <1>14, BecomesIs

LEMMA MoveItemKeeps ==
    ASSUME ItemsAssumption, TradeInv, NEW p \in Players, NEW i \in Items, MoveItem(p, i)
    PROVE  TradeInv' /\ OffersKept
<1>1. i \in Placed(world) /\ UNCHANGED <<given, near>>
  BY PlayerReaches DEF MoveItem
<1>2. QED BY <1>1, MoveIntoBagKeeps, MoveToGroundKeeps, MoveToSlotKeeps, MoveAnywhereKeeps,
     ExchangeKeeps DEF MoveItem


-----------------------------------------------------------------------------
(* The theorems                                                            *)

LEMMA InitTradeInv ==
    ASSUME ItemsAssumption, Init
    PROVE  TradeInv
<1>1. /\ \A p \in Players : \A s \in Slots : world.inventory[p][s] = NoItem
      /\ world.inventory \in [Players -> [Slots -> Items \cup {NoItem}]]
      /\ world.contents = [b \in Bags |-> <<>>]
      /\ world.ground = Bags /\ world.backpack = [p \in Players |-> NoBackpack]
  BY DEF Init
<1>2. world.contents \in [Bags -> Seq(Items)] /\ \A b \in Bags : world.contents[b] = <<>>
      /\ Len(world.contents[b]) = 0
  BY <1>1
<1>3. /\ world.backpack \in [Players -> [bag : Bags \cup {NoItem}, index : Nat]]
      /\ \A p \in Players : world.backpack[p].bag = NoItem
  BY <1>1 DEF NoBackpack
<1>4. world \in World
  <2>1. world.ground \subseteq Items
    BY <1>1 DEF ItemsAssumption
  <2>2. world = [inventory |-> world.inventory, contents |-> world.contents, ground |-> world.ground,
                 backpack |-> world.backpack]
    BY DEF Init
  <2> DEFINE whole == [inventory |-> world.inventory, contents |-> world.contents, ground |-> world.ground,
                       backpack |-> world.backpack]
  <2>3. whole \in World
    BY <1>1, <1>2, <1>3, <2>1, WorldOf
  <2>4. world = whole
    BY <2>2
  <2> HIDE DEF whole
  <2>5. QED BY <2>3, <2>4
<1>5. (\A b \in Bags : In(world, b) = {}) /\ (\A p \in Players : Worn(world, p) = {})
  BY <1>1, <1>2 DEF In, Elems, Worn
<1>6. Single(world)
  BY <1>1, <1>2, <1>5 DEF Single, WornOnce, HeldOnce
<1>7. Placed(world) = Bags
  <2>1. Top(world) = Bags
    BY <1>1, <1>5 DEF Top
  <2>2. LeastWith(world, AndAllIn(world, Bags), Bags)
    BY <1>4, WorldParts, AllIs DEF ItemsAssumption
  <2>3. Sealed(world, Bags)
    BY <1>5 DEF Sealed
  <2>4. AndAllIn(world, Bags) = Bags
    BY <2>2, <2>3 DEF LeastWith
  <2>5. QED BY <1>4, <2>1, <2>4, PlacedIs
<1>8. Tight(world)
  BY <1>2 DEF Tight, ItemsAssumption
<1>9. Whole(world) /\ Own(world)
  BY <1>3, <1>4, <1>6, <1>7, <1>8 DEF Whole, Own
<1>10. \A p \in Players : tradeState[p] = "none" /\ tradePartner[p] = NoPlayer
       /\ tradeItem[p] = NoItem
  BY DEF Init
<1>11. TradeTypes
  BY DEF Init, TradeTypes, ItemsAssumption
<1>12. Pairs /\ Listed /\ OffersApart /\ OffersReached
  <2>1. Listed
    BY <1>10 DEF Init, Listed
  <2>2. QED BY <1>10, <2>1 DEF Pairs, OffersApart, OffersReached
<1>13. Placed(world) \subseteq given
  BY <1>7 DEF Init
<1>14. QED BY <1>9, <1>11, <1>12, <1>13 DEF TradeInv

LEMMA NextTradeInv ==
    ASSUME ItemsAssumption, TradeInv, [Next]_vars
    PROVE  TradeInv' /\ OffersKept
<1>1. CASE UNCHANGED vars
  <2>1. /\ world' = world /\ given' = given /\ near' = near
        /\ tradeState' = tradeState /\ tradePartner' = tradePartner /\ tradeItem' = tradeItem
           /\ tradeItems' = tradeItems
    BY <1>1 DEF vars, trades
  <2>2. TradeTypes' /\ Pairs' /\ Listed' /\ OffersApart' /\ OffersReached' /\ OffersKept
    BY <2>1 DEF TradeInv, TradeTypes, Pairs, Listed, OffersApart, OffersReached, Reaches, OffersKept
  <2>3. QED BY <2>1, <2>2 DEF TradeInv
<1>2. ASSUME NEW p \in Players, CloseTrade(p) \/ AcceptTrade(p) \/ WalkAway(p) \/ ComeBack(p)
      PROVE  TradeInv' /\ OffersKept
  BY <1>2, CloseTradeKeeps, AcceptTradeKeeps, WalkAwayKeeps, ComeBackKeeps
<1>3. ASSUME NEW p \in Players, NEW i \in Items, MoveItem(p, i) \/ Reward(p, i)
      PROVE  TradeInv' /\ OffersKept
  BY <1>3, MoveItemKeeps, RewardKeeps
<1>4. ASSUME NEW i \in Items, RemoveItem(i)
      PROVE  TradeInv' /\ OffersKept
  BY <1>4, RemoveItemKeeps
<1>5. ASSUME NEW p \in Players, NEW q \in Players, NEW i \in Items, RequestTrade(p, q, i)
      PROVE  TradeInv' /\ OffersKept
  BY <1>5, RequestTradeKeeps
<1>6. QED BY <1>1, <1>2, <1>3, <1>4, <1>5 DEF Next

\* The invariant holds in every state.
THEOREM TradeHolds == Spec => []TradeInv
<1>1. Init => TradeInv
  BY ItemsAssumption, InitTradeInv
<1>2. TradeInv /\ [Next]_vars => TradeInv'
  BY ItemsAssumption, NextTradeInv
<1>3. QED BY <1>1, <1>2, PTL DEF Spec

\* Everything has the values it is meant to have, and no bag holds more than it can.
THEOREM TradeTyped == Spec => []TypeOK
<1>1. TradeInv => TypeOK
  BY DEF TradeInv, Whole, World, Tight, TradeTypes, TypeOK
<1>2. QED BY <1>1, TradeHolds, PTL

LEMMA OneOf ==
    ASSUME NEW S, NEW x \in S, \A y \in S : y = x
    PROVE  Cardinality(S) = 1
<1>1. S = {x}
  OBVIOUS
<1>2. QED BY <1>1, FS_Singleton

LEMMA NoneOf ==
    ASSUME NEW S, \A y \in S : FALSE
    PROVE  Cardinality(S) = 0
<1>1. S = {}
  OBVIOUS
<1>2. QED BY <1>1, FS_EmptySet

\* What internalMoveItem and internalAddItem leave: an item is worn once, or in one
\* bag once, or on the ground, and no bag is in itself, whatever has been moved,
\* exchanged, traded, added or removed.
THEOREM ItemsInOnePlace == Spec => []OnePlace
<1>1. ASSUME TradeInv PROVE OnePlace
  <2>1. /\ world \in World /\ Single(world) /\ Tight(world) /\ Bags \subseteq Placed(world)
        /\ Filled(world) /\ Top(world) \subseteq Items /\ BagSize \in Nat
    BY <1>1, ItemsAssumption, WorldParts DEF TradeInv, Whole, ItemsAssumption
  <2> SUFFICES ASSUME NEW i \in Placed(world)
               PROVE  Cardinality({at \in Players \X Slots : world.inventory[at[1]][at[2]] = i})
                      + Cardinality({at \in Bags \X (1..BagSize) :
                                       at[2] <= Len(world.contents[at[1]])
                                       /\ world.contents[at[1]][at[2]] = i})
                      + Cardinality({i} \cap world.ground) = 1
    BY <2>1 DEF OnePlace
  <2> DEFINE worn == {at \in Players \X Slots : world.inventory[at[1]][at[2]] = i}
             held == {at \in Bags \X (1..BagSize) :
                        at[2] <= Len(world.contents[at[1]]) /\ world.contents[at[1]][at[2]] = i}
             lies == {i} \cap world.ground
  <2>2. i \in Items /\ i # NoItem
    BY <2>1, ItemsAssumption, PlacedInItems DEF ItemsAssumption
  <2>3. ASSUME NEW at \in worn PROVE at[1] \in Players /\ at[2] \in Slots
               /\ i \in Worn(world, at[1]) /\ i \in Top(world)
    BY <2>2 DEF Worn, Top
  <2>4. ASSUME NEW at \in held PROVE at[1] \in Bags /\ at[2] \in 1..Len(world.contents[at[1]])
               /\ i \in In(world, at[1])
    <3>1. at[1] \in Bags /\ world.contents[at[1]] \in Seq(Items) /\ at[2] \in 1..BagSize
      BY <2>1 DEF Filled
    <3>2. at[2] \in DOMAIN world.contents[at[1]]
      BY <2>1, <3>1
    <3>3. QED BY <3>1, <3>2 DEF In, Elems
  <2>5. CASE i \in world.ground
    <3>1. Cardinality(lies) = 1
      BY <2>5, OneOf
    <3>2. Cardinality(worn) = 0
      BY <2>1, <2>3, <2>5, NoneOf DEF Single
    <3>3. Cardinality(held) = 0
      <4>1. i \in Top(world)
        BY <2>5 DEF Top
      <4>2. QED BY <2>1, <2>4, <4>1, NoneOf DEF Single
    <3>4. QED BY <3>1, <3>2, <3>3
  <2>6. ASSUME NEW p \in Players, i \in Worn(world, p) PROVE Cardinality(worn) + Cardinality(held) + Cardinality(lies) = 1
    <3>1. Cardinality(lies) = 0
      BY <2>1, <2>6, NoneOf DEF Single
    <3>2. Cardinality(held) = 0
      <4>1. i \in Top(world)
        BY <2>6 DEF Top
      <4>2. QED BY <2>1, <2>4, <4>1, NoneOf DEF Single
    <3>3. Cardinality(worn) = 1
      <4>1. PICK s \in Slots : world.inventory[p][s] = i
        BY <2>6 DEF Worn
      <4>2. <<p, s>> \in worn
        BY <4>1
      <4>3. ASSUME NEW at \in worn PROVE at = <<p, s>>
        <5>1. at[1] \in Players /\ at[2] \in Slots /\ world.inventory[at[1]][at[2]] = i
              /\ at = <<at[1], at[2]>>
          OBVIOUS
        <5>2. at[1] = p /\ at[2] = s
          BY <2>1, <2>2, <4>1, <5>1 DEF Single, WornOnce
        <5>3. QED BY <5>1, <5>2
      <4>4. QED BY <4>2, <4>3, OneOf
    <3>4. QED BY <3>1, <3>2, <3>3
  <2>7. CASE i \notin Top(world)
    <3>1. Cardinality(lies) = 0
      BY <2>7, NoneOf DEF Top
    <3>2. Cardinality(worn) = 0
      BY <2>3, <2>7, NoneOf
    <3>3. Cardinality(held) = 1
      <4>1. i \in AndAllIn(world, Top(world))
        BY <2>1, ItemsAssumption, PlacedIs
      <4>2. PICK b \in Bags : i \in In(world, b)
        BY <2>1, <2>7, <4>1, ItemsAssumption, AllUp
      <4>3. PICK n \in DOMAIN world.contents[b] : world.contents[b][n] = i
        BY <4>2 DEF In, Elems
      <4>4. world.contents[b] \in Seq(Items) /\ Len(world.contents[b]) <= BagSize
        BY <2>1 DEF Filled, Tight
      <4>5. n \in 1..Len(world.contents[b]) /\ n \in 1..BagSize /\ n <= Len(world.contents[b])
        BY <2>1, <4>3, <4>4
      <4>6. <<b, n>> \in held
        BY <4>3, <4>5
      <4>7. ASSUME NEW at \in held PROVE at = <<b, n>>
        <5>1. at[1] \in Bags /\ at[2] \in 1..Len(world.contents[at[1]])
              /\ world.contents[at[1]][at[2]] = i
          BY <2>4
        <5>2. at = <<at[1], at[2]>>
          OBVIOUS
        <5>3. at[1] = b /\ at[2] = n
          BY <2>1, <4>3, <4>5, <5>1 DEF Single, HeldOnce
        <5>4. QED BY <5>2, <5>3
      <4>8. QED BY <4>6, <4>7, OneOf
    <3>4. QED BY <3>1, <3>2, <3>3
  <2>8. QED BY <2>5, <2>6, <2>7 DEF Top
<1>2. TradeInv => OnePlace
  BY <1>1
<1>3. QED BY <1>2, TradeHolds, PTL

\* Player::backpack never points to a bag that its player has lost or that is
\* full, whoever takes it, fills it or gets it in a trade.
THEOREM BackpacksOwn == Spec => []BackpackOwn
<1>1. TradeInv => BackpackOwn
  BY DEF TradeInv, Own, BackpackOwn
<1>2. QED BY <1>1, TradeHolds, PTL

\* Whatever is moved, taken or traded meanwhile, whoever offers an item can still
\* hand it over, and no two offers share an item.
THEOREM OffersAlwaysStand == Spec => []OffersStand
<1>1. ASSUME TradeInv PROVE OffersStand
  <2>1. \A p \in Players : tradeItem[p] # NoItem => InReach(p, tradeItem[p])
    BY <1>1 DEF TradeInv, OffersReached, Reaches, InReach
  <2>2. AndAllIn(world, {}) = {}
    BY DEF AndAllIn
  <2>3. ASSUME NEW p \in Players, NEW q \in Players, p # q
        PROVE  AndAllIn(world, {tradeItem[p]} \ {NoItem}) \cap AndAllIn(world, {tradeItem[q]} \ {NoItem}) = {}
    <3>1. \A x : x # NoItem => {x} \ {NoItem} = {x}
      OBVIOUS
    <3>2. {NoItem} \ {NoItem} = {}
      OBVIOUS
    <3>3. CASE tradeItem[p] = NoItem
      BY <2>2, <3>2, <3>3
    <3>4. CASE tradeItem[q] = NoItem
      BY <2>2, <3>2, <3>4
    <3>5. CASE tradeItem[p] # NoItem /\ tradeItem[q] # NoItem
      BY <1>1, <2>3, <3>1, <3>5 DEF TradeInv, OffersApart, Tree
    <3>6. QED BY <3>3, <3>4, <3>5
  <2>4. QED BY <1>1, <2>1, <2>3 DEF TradeInv, Pairs, Listed, OffersStand
<1>2. TradeInv => OffersStand
  BY <1>1
<1>3. QED BY <1>2, TradeHolds, PTL

\* What the other player has seen and accepted is what he gets: no step changes
\* what is in an offered bag and leaves the trade open.
THEOREM OffersNeverChange == Spec => OfferUnchanged
<1>1. TradeInv /\ [Next]_vars => OffersKept
  BY ItemsAssumption, NextTradeInv
<1>2. OffersKept =>
        [\A p \in Players :
           tradeItem'[p] # NoItem /\ tradeItem'[p] = tradeItem[p]
           => Holding(world', tradeItem[p]) = Holding(world, tradeItem[p])]_vars
  BY DEF OffersKept
<1>3. QED BY <1>1, <1>2, TradeHolds, PTL DEF Spec, OfferUnchanged

=============================================================================
