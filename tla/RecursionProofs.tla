--------------------------- MODULE RecursionProofs ---------------------------
(***************************************************************************)
(* Induction through sets, of natural numbers and of subsets of a finite   *)
(* set; functions that are defined by recursion over the first numbers and *)
(* over such subsets; what is left of a list from which entries are        *)
(* erased; and sums over finite sets.                                      *)
(***************************************************************************)
EXTENDS Lists, FiniteSetsExt, FiniteSetTheorems, WellFoundedInduction, TLAPS

-----------------------------------------------------------------------------
(* Induction                                                               *)

LEMMA SetOfNaturals ==
    ASSUME NEW T, 0 \in T, \A n \in Nat : n \in T => n + 1 \in T
    PROVE  \A n \in Nat : n \in T
<1> DEFINE below == {p \in Nat \X Nat : p[1] < p[2]}
           rest == Nat \ T
<1>1. OpToRel(<, Nat) = below
  BY DEF OpToRel
<1>2. IsWellFoundedOn(below, Nat)
  BY <1>1, NatLessThanWellFounded
<1> SUFFICES ASSUME rest # {} PROVE FALSE
  OBVIOUS
<1>3. rest \subseteq Nat
  OBVIOUS
<1> HIDE DEF rest, below
<1>4. PICK n \in rest : \A m \in rest : <<m, n>> \notin below
  BY <1>2, <1>3, WFMin
<1>5. n \in Nat /\ n # 0 /\ n \notin T
  BY DEF rest
<1>6. n - 1 \in Nat /\ n - 1 < n /\ (n - 1) + 1 = n
  BY <1>5
<1>7. <<n - 1, n>> \in below
  BY <1>5, <1>6 DEF below
<1>8. n - 1 \in T
  BY <1>4, <1>6, <1>7 DEF rest
<1>9. QED BY <1>5, <1>6, <1>8

\* What a function on the first numbers says of each from the one before exists.
Advances(g, N, X) == g \in [(0..N-1) \X X -> X]
Follows(f, N, X, start, g) ==
    f \in [0..N -> X] /\ f[0] = start /\ \A n \in 0..N-1 : f[n + 1] = g[<<n, f[n]>>]

LEMMA Recursion ==
    ASSUME NEW N, NEW X, NEW start, NEW g, N \in Nat, start \in X, Advances(g, N, X)
    PROVE  \E f : Follows(f, N, X, start, g)
<1> USE DEF Advances
<1> DEFINE Is(f, m) == f[0] = start /\ \A n \in 0..m-1 : f[n + 1] = g[<<n, f[n]>>]
           T == {m \in Nat : m <= N => \E f \in [0..m -> X] : Is(f, m)}
<1>1. 0 \in T
  <2> DEFINE f == [n \in 0..0 |-> start]
  <2>1. f \in [0..0 -> X] /\ Is(f, 0)
    OBVIOUS
  <2>2. QED BY <2>1
<1>2. ASSUME NEW m \in Nat, m \in T PROVE m + 1 \in T
  <2> SUFFICES ASSUME m + 1 <= N PROVE \E f \in [0..m+1 -> X] : Is(f, m + 1)
    OBVIOUS
  <2>1. PICK f \in [0..m -> X] : Is(f, m)
    BY <1>2
  <2>2. m \in 0..N-1 /\ m \in 0..m /\ f[m] \in X /\ g[<<m, f[m]>>] \in X
    BY <2>1
  <2> DEFINE h == [n \in 0..m+1 |-> IF n = m + 1 THEN g[<<m, f[m]>>] ELSE f[n]]
  <2>3. h \in [0..m+1 -> X]
    <3>1. \A n \in 0..m+1 : n # m + 1 => f[n] \in X
      BY <2>1
    <3>2. QED BY <2>2, <3>1
  <2>4. h[0] = start
    BY <2>1
  <2>5. ASSUME NEW n \in 0..m PROVE h[n + 1] = g[<<n, h[n]>>]
    <3>1. h[n] = f[n]
      OBVIOUS
    <3>2. CASE n = m
      <4>1. m + 1 \in 0..m+1
        OBVIOUS
      <4>2. h[m + 1] = g[<<m, f[m]>>]
        BY <4>1
      <4> HIDE DEF h
      <4>3. QED BY <3>1, <3>2, <4>2
    <3>3. CASE n # m
      <4>1. n \in 0..m-1 /\ n + 1 \in 0..m+1 /\ n + 1 # m + 1
        BY <3>3
      <4>2. h[n + 1] = f[n + 1]
        BY <4>1
      <4>3. QED BY <2>1, <3>1, <4>1, <4>2
    <3>4. QED BY <3>2, <3>3
  <2> HIDE DEF h
  <2>6. Is(h, m + 1)
    BY <2>4, <2>5
  <2>7. QED BY <2>3, <2>6
<1> HIDE DEF T
<1>3. \A m \in Nat : m \in T
  BY <1>1, <1>2, SetOfNaturals
<1>4. N \in T /\ N <= N
  BY <1>3
<1>5. QED BY <1>4 DEF T, Follows

-----------------------------------------------------------------------------
(* Lists                                                                   *)

\* r has the entries of list at these places, in their order: g tells from where.
Sublist(g, r, list, places) ==
    /\ g \in [1..Len(r) -> places]
    /\ \A i, j \in 1..Len(r) : i < j => g[i] < g[j]
    /\ \A i \in 1..Len(r) : r[i] = list[g[i]]
    /\ \A k \in places : \E i \in 1..Len(r) : g[i] = k

LEMMA SublistGrows ==
    ASSUME NEW S, NEW list \in Seq(S), NEW n \in Nat, NEW e \in S,
           NEW few, few \subseteq 1..n, n + 1 \in 1..Len(list), list[n + 1] = e,
           NEW r \in Seq(S), NEW g, Sublist(g, r, list, few)
    PROVE  \E h : Sublist(h, Append(r, e), list, few \cup {n + 1})
<1> DEFINE m == Len(r)
           q == Append(r, e)
           h == [i \in 1..m+1 |-> IF i = m + 1 THEN n + 1 ELSE g[i]]
<1>1. m \in Nat /\ Len(q) = m + 1 /\ q[m + 1] = e /\ \A i \in 1..m : q[i] = r[i]
  OBVIOUS
<1>2. /\ g \in [1..m -> few] /\ \A i, j \in 1..m : i < j => g[i] < g[j]
      /\ \A i \in 1..m : r[i] = list[g[i]]
      /\ \A k \in few : \E i \in 1..m : g[i] = k
  BY DEF Sublist
<1> HIDE DEF m, q
<1>3. m + 1 \in 1..m+1 /\ \A i \in 1..m+1 : i = m + 1 \/ i \in 1..m
  BY <1>1
<1>4. h[m + 1] = n + 1 /\ \A i \in 1..m : h[i] = g[i] /\ g[i] \in few /\ g[i] \in 1..n
  <2>1. h[m + 1] = n + 1
    BY <1>3
  <2>2. ASSUME NEW i \in 1..m PROVE h[i] = g[i] /\ g[i] \in few /\ g[i] \in 1..n
    <3>1. i # m + 1 /\ i \in 1..m+1
      BY <1>1
    <3>2. g[i] \in few
      BY <1>2
    <3>3. QED BY <3>1, <3>2
  <2> HIDE DEF h
  <2>3. QED BY <2>1, <2>2
<1>5. h \in [1..m+1 -> few \cup {n + 1}]
  BY <1>3, <1>4
<1> HIDE DEF h
<1>6. \A i, j \in 1..m+1 : i < j => h[i] < h[j]
  <2> SUFFICES ASSUME NEW i \in 1..m+1, NEW j \in 1..m+1, i < j PROVE h[i] < h[j]
    OBVIOUS
  <2>1. i \in 1..m
    BY <1>1
  <2>2. CASE j = m + 1
    BY <1>4, <2>1, <2>2
  <2>3. CASE j \in 1..m
    BY <1>2, <1>4, <2>1, <2>3
  <2>4. QED BY <1>3, <2>2, <2>3
<1>7. \A i \in 1..m+1 : q[i] = list[h[i]]
  BY <1>1, <1>2, <1>3, <1>4
<1>8. \A k \in few \cup {n + 1} : \E i \in 1..m+1 : h[i] = k
  <2>1. \A i \in 1..m : i \in 1..m+1
    BY <1>1
  <2>2. QED BY <1>2, <1>3, <1>4, <2>1
<1>9. Sublist(h, q, list, few \cup {n + 1})
  BY <1>1, <1>5, <1>6, <1>7, <1>8 DEF Sublist
<1>10. QED BY <1>9 DEF q

\* What is kept of a list.
THEOREM OnlyAtIs ==
    ASSUME NEW S, NEW list \in Seq(S), NEW places, places \subseteq 1..Len(list)
    PROVE  /\ OnlyAt(list, places) \in Seq(S)
           /\ \E g : Sublist(g, OnlyAt(list, places), list, places)
<1> DEFINE N == Len(list)
           upTo[n \in 0..N] ==
             IF n = 0 THEN <<>> ELSE IF n \in places THEN Append(upTo[n - 1], list[n]) ELSE upTo[n - 1]
           Is(f) == f = [n \in 0..N |-> IF n = 0 THEN <<>>
                                       ELSE IF n \in places THEN Append(f[n - 1], list[n]) ELSE f[n - 1]]
           step == [p \in (0..N-1) \X Seq(S) |->
                      IF p[1] + 1 \in places THEN Append(p[2], list[p[1] + 1]) ELSE p[2]]
<1>0. OnlyAt(list, places) = upTo[N]
  BY DEF OnlyAt
<1>1. N \in Nat /\ \A n \in 0..N-1 : n + 1 \in 1..N /\ list[n + 1] \in S
  OBVIOUS
<1>2. step \in [(0..N-1) \X Seq(S) -> Seq(S)]
  BY <1>1
<1>3. \A n \in 0..N-1, q \in Seq(S) :
        step[<<n, q>>] = IF n + 1 \in places THEN Append(q, list[n + 1]) ELSE q
  OBVIOUS
<1> HIDE DEF step
<1>4. PICK t : /\ t \in [0..N -> Seq(S)] /\ t[0] = <<>> /\ \A n \in 0..N-1 : t[n + 1] = step[<<n, t[n]>>]
  <2>1. Advances(step, N, Seq(S)) /\ <<>> \in Seq(S)
    BY <1>2 DEF Advances
  <2>2. \E t : Follows(t, N, Seq(S), <<>>, step)
    BY <1>1, <2>1, Recursion
  <2>3. QED BY <2>2 DEF Follows
<1> HIDE DEF N
<1>5. ASSUME NEW n \in 0..N-1 PROVE t[n + 1] = IF n + 1 \in places THEN Append(t[n], list[n + 1]) ELSE t[n]
  <2>1. n \in 0..N /\ t[n] \in Seq(S)
    BY <1>1, <1>4
  <2>2. QED BY <1>3, <1>4, <2>1
<1>6. Is(t)
  <2>1. ASSUME NEW n \in 0..N
        PROVE  t[n] = IF n = 0 THEN <<>> ELSE IF n \in places THEN Append(t[n - 1], list[n]) ELSE t[n - 1]
    <3>1. n # 0 => n - 1 \in 0..N-1 /\ (n - 1) + 1 = n
      BY <1>1
    <3>2. QED BY <1>4, <1>5, <3>1
  <2>2. QED BY <1>4, <2>1
<1>7. Is(upTo)
  <2>1. upTo = CHOOSE f : Is(f)
    OBVIOUS
  <2>2. QED BY <1>6, <2>1
<1> HIDE DEF upTo
<1>8. upTo[0] = <<>>
  BY <1>1, <1>7
<1>9. ASSUME NEW n \in 0..N-1
      PROVE  upTo[n + 1] = IF n + 1 \in places THEN Append(upTo[n], list[n + 1]) ELSE upTo[n]
  <2>1. n + 1 \in 0..N /\ n + 1 # 0 /\ (n + 1) - 1 = n
    BY <1>1
  <2>2. QED BY <1>7, <2>1
<1> HIDE DEF Is
<1> DEFINE Sound(n) == upTo[n] \in Seq(S) /\ \E g : Sublist(g, upTo[n], list, places \cap (1..n))
           U == {n \in Nat : n <= N => Sound(n)}
<1>10. 0 \in U
  <2> DEFINE g == [i \in 1..0 |-> i]
  <2>1. places \cap (1..0) = {} /\ 1..0 = {} /\ Len(<<>>) = 0
    OBVIOUS
  <2>2. Sublist(g, <<>>, list, {})
    BY <2>1 DEF Sublist
  <2> HIDE DEF g
  <2>3. Sound(0)
    BY <1>8, <2>1, <2>2
  <2> HIDE DEF Sound
  <2>4. QED BY <2>3
<1>11. ASSUME NEW n \in Nat, n \in U PROVE n + 1 \in U
  <2> SUFFICES ASSUME n + 1 <= N PROVE Sound(n + 1)
    <3> HIDE DEF Sound
    <3>1. QED OBVIOUS
  <2>1. n \in 0..N-1 /\ n <= N
    BY <1>1
  <2>6. Sound(n)
    <3> HIDE DEF Sound
    <3>1. QED BY <1>11, <2>1
  <2>2. PICK g : upTo[n] \in Seq(S) /\ Sublist(g, upTo[n], list, places \cap (1..n))
    BY <2>6
  <2>3. CASE n + 1 \in places
    <3>1. upTo[n + 1] = Append(upTo[n], list[n + 1]) /\ list[n + 1] \in S
      BY <1>1, <1>9, <2>1, <2>3
    <3>2. places \cap (1..(n + 1)) = (places \cap (1..n)) \cup {n + 1}
      BY <2>3
    <3>3. n + 1 \in 1..Len(list) /\ places \cap (1..n) \subseteq 1..n
      BY <2>3
    <3> DEFINE r == upTo[n]
               few == places \cap (1..n)
    <3>4. r \in Seq(S) /\ Sublist(g, r, list, few) /\ few \subseteq 1..n
      BY <2>2
    <3> HIDE DEF r, few
    <3>5. \E h : Sublist(h, Append(r, list[n + 1]), list, few \cup {n + 1})
      BY <3>1, <3>3, <3>4, SublistGrows
    <3>6. Append(r, list[n + 1]) \in Seq(S)
      BY <3>1, <3>4
    <3>7. QED BY <3>1, <3>2, <3>5, <3>6 DEF r, few
  <2>4. CASE n + 1 \notin places
    <3>1. upTo[n + 1] = upTo[n]
      BY <1>9, <2>1, <2>4
    <3>2. places \cap (1..(n + 1)) = places \cap (1..n)
      BY <2>4
    <3>3. QED BY <2>2, <3>1, <3>2
  <2>5. QED BY <2>3, <2>4
<1> HIDE DEF U
<1>12. N \in U /\ N <= N
  BY <1>1, <1>10, <1>11, SetOfNaturals
<1>13. upTo[N] \in Seq(S) /\ \E g : Sublist(g, upTo[N], list, places \cap (1..N))
  <2>1. Sound(N)
    <3> HIDE DEF Sound
    <3>1. QED BY <1>12 DEF U
  <2>2. QED BY <2>1
<1>14. places \cap (1..N) = places
  BY DEF N
<1>15. QED BY <1>0, <1>13, <1>14

-----------------------------------------------------------------------------
(* Finite sets and folds over them                                         *)

Some(s) == CHOOSE x \in s : TRUE

\* What holds of the empty set, and of a set when it holds of the set without the
\* element that is chosen from it, holds of every subset.
LEMMA SetOfSubsets ==
    ASSUME NEW S, IsFiniteSet(S), NEW T, {} \in T,
           \A s \in SUBSET S : s # {} /\ s \ {Some(s)} \in T => s \in T
    PROVE  \A s \in SUBSET S : s \in T
<1> DEFINE U == {n \in Nat : \A s \in SUBSET S : Cardinality(s) <= n => s \in T}
<1>1. \A s \in SUBSET S : IsFiniteSet(s) /\ Cardinality(s) \in Nat /\ (Cardinality(s) = 0 <=> s = {})
  BY FS_Subset, FS_CardinalityType, FS_EmptySet
<1>2. 0 \in U
  <2>1. ASSUME NEW s \in SUBSET S, Cardinality(s) <= 0 PROVE s \in T
    <3>1. s = {}
      BY <1>1, <2>1
    <3>2. QED BY <3>1
  <2>2. QED BY <2>1
<1>3. ASSUME NEW n \in Nat, n \in U PROVE n + 1 \in U
  <2> SUFFICES ASSUME NEW s \in SUBSET S, Cardinality(s) <= n + 1, s # {} PROVE s \in T
    OBVIOUS
  <2>1. Some(s) \in s
    BY DEF Some
  <2>2. s \ {Some(s)} \in SUBSET S /\ Cardinality(s) \in Nat
        /\ Cardinality(s \ {Some(s)}) = Cardinality(s) - 1
    <3>1. IsFiniteSet(s)
      BY <1>1
    <3>2. Cardinality(s \ {Some(s)}) = Cardinality(s) - 1
      BY <2>1, <3>1, FS_RemoveElement
    <3>3. QED BY <1>1, <3>2
  <2>3. QED BY <1>3, <2>2
<1> HIDE DEF U
<1>4. \A n \in Nat : n \in U
  BY <1>2, <1>3, SetOfNaturals
<1>5. ASSUME NEW s \in SUBSET S PROVE s \in T
  <2>1. Cardinality(s) \in U /\ Cardinality(s) <= Cardinality(s)
    BY <1>1, <1>4
  <2>2. QED BY <2>1 DEF U
<1>6. QED BY <1>5

\* f[s] takes in the elements of s one by one, from base on, as g says.
Folded(f, S, base, g) ==
    \A s \in SUBSET S : f[s] = IF s = {} THEN base ELSE g[<<Some(s), f[s \ {Some(s)}]>>]

LEMMA FoldExists ==
    ASSUME NEW S, IsFiniteSet(S), NEW X, NEW base \in X, NEW g \in [S \X X -> X]
    PROVE  \E f \in [SUBSET S -> X] : Folded(f, S, base, g)
<1> DEFINE Fine(f, n) == \A s \in SUBSET S : Cardinality(s) <= n =>
             f[s] = IF s = {} THEN base ELSE g[<<Some(s), f[s \ {Some(s)}]>>]
           T == {n \in Nat : \E f \in [SUBSET S -> X] : Fine(f, n)}
<1>0. \A s \in SUBSET S : /\ IsFiniteSet(s) /\ Cardinality(s) \in Nat /\ (Cardinality(s) = 0 <=> s = {})
                          /\ Cardinality(s) <= Cardinality(S)
  BY FS_Subset, FS_CardinalityType, FS_EmptySet
<1>1. 0 \in T
  <2> DEFINE f == [s \in SUBSET S |-> base]
  <2>1. f \in [SUBSET S -> X] /\ Fine(f, 0)
    BY <1>0
  <2>2. QED BY <2>1
<1>2. ASSUME NEW n \in Nat, n \in T PROVE n + 1 \in T
  <2>1. PICK f \in [SUBSET S -> X] : Fine(f, n)
    BY <1>2
  <2> DEFINE h == [s \in SUBSET S |->
                     IF Cardinality(s) = n + 1 THEN g[<<Some(s), f[s \ {Some(s)}]>>] ELSE f[s]]
  <2>2. ASSUME NEW s \in SUBSET S, s # {}
        PROVE  /\ Some(s) \in s /\ Some(s) \in S /\ s \ {Some(s)} \in SUBSET S
               /\ Cardinality(s \ {Some(s)}) = Cardinality(s) - 1
    <3>1. Some(s) \in s
      BY <2>2 DEF Some
    <3>2. QED BY <1>0, <3>1, FS_RemoveElement
  <2>3. h \in [SUBSET S -> X]
    <3>1. ASSUME NEW s \in SUBSET S, Cardinality(s) = n + 1 PROVE g[<<Some(s), f[s \ {Some(s)}]>>] \in X
      <4>1. s # {}
        BY <1>0, <3>1
      <4>2. QED BY <2>2, <4>1
    <3>2. QED BY <3>1
  <2>4. ASSUME NEW s \in SUBSET S, Cardinality(s) <= n + 1
        PROVE  h[s] = IF s = {} THEN base ELSE g[<<Some(s), h[s \ {Some(s)}]>>]
    <3>1. CASE s = {}
      <4>1. h[s] = f[s]
        BY <1>0, <3>1
      <4>2. {} \in SUBSET S /\ Cardinality({}) <= n
        BY FS_EmptySet
      <4>3. QED BY <2>1, <3>1, <4>1, <4>2
    <3>2. CASE s # {}
      <4> DEFINE r == s \ {Some(s)}
      <4>1. r \in SUBSET S /\ Cardinality(r) = Cardinality(s) - 1 /\ Cardinality(s) \in Nat
        BY <1>0, <2>2, <3>2
      <4> HIDE DEF r
      <4>2. h[r] = f[r]
        BY <2>4, <4>1
      <4>3. CASE Cardinality(s) = n + 1
        BY <3>2, <4>2, <4>3 DEF r
      <4>4. CASE Cardinality(s) # n + 1
        <5>1. Cardinality(s) <= n /\ h[s] = f[s]
          BY <2>4, <4>1, <4>4
        <5>2. QED BY <2>1, <3>2, <4>2, <5>1 DEF r
      <4>5. QED BY <4>3, <4>4
    <3>3. QED BY <3>1, <3>2
  <2> HIDE DEF h
  <2>5. Fine(h, n + 1)
    BY <2>4
  <2> HIDE DEF Fine
  <2>6. \E f2 \in [SUBSET S -> X] : Fine(f2, n + 1)
    BY <2>3, <2>5
  <2>7. QED BY <2>6
<1>3. Cardinality(S) \in T
  <2> HIDE DEF T
  <2>1. \A n \in Nat : n \in T
    BY <1>1, <1>2, SetOfNaturals
  <2>2. QED BY <1>0, <2>1
<1>4. PICK f \in [SUBSET S -> X] : Fine(f, Cardinality(S))
  BY <1>3
<1>5. Folded(f, S, base, g)
  BY <1>0, <1>4 DEF Folded
<1>6. QED BY <1>5

-----------------------------------------------------------------------------
(* Sums                                                                    *)

SumOf(F, S) == MapThenSumSet(LAMBDA x : F[x], S)

SumEq(f, F, S) == \A s \in SUBSET S : f[s] = IF s = {} THEN 0 ELSE F[Some(s)] + f[s \ {Some(s)}]

LEMMA SumExists ==
    ASSUME NEW S, IsFiniteSet(S), NEW F, \A x \in S : F[x] \in Int
    PROVE  \E f \in [SUBSET S -> Int] : SumEq(f, F, S)
<1> DEFINE g == [p \in S \X Int |-> F[p[1]] + p[2]]
<1>1. g \in [S \X Int -> Int] /\ \A x \in S, n \in Int : g[<<x, n>>] = F[x] + n
  OBVIOUS
<1> HIDE DEF g
<1>2. PICK f \in [SUBSET S -> Int] : Folded(f, S, 0, g)
  <2>1. 0 \in Int
    OBVIOUS
  <2>2. QED BY <1>1, <2>1, FoldExists
<1>3. ASSUME NEW s \in SUBSET S, s # {} PROVE f[s] = F[Some(s)] + f[s \ {Some(s)}]
  <2>1. Some(s) \in S /\ s \ {Some(s)} \in SUBSET S
    BY <1>3 DEF Some
  <2>2. QED BY <1>1, <1>2, <1>3, <2>1 DEF Folded
<1>4. f[{}] = 0
  BY <1>2 DEF Folded
<1>5. SumEq(f, F, S)
  BY <1>3, <1>4 DEF SumEq
<1>6. QED BY <1>5

\* There is one such function only.
LEMMA SumUnique ==
    ASSUME NEW S, IsFiniteSet(S), NEW F, NEW G, NEW f, NEW g, SumEq(f, F, S), SumEq(g, G, S),
           \A x \in S : F[x] = G[x]
    PROVE  \A s \in SUBSET S : f[s] = g[s]
<1> DEFINE T == {s \in SUBSET S : f[s] = g[s]}
<1>1. {} \in T
  BY DEF SumEq
<1>2. ASSUME NEW s \in SUBSET S, s # {}, s \ {Some(s)} \in T PROVE s \in T
  <2>1. Some(s) \in S
    BY <1>2 DEF Some
  <2>2. F[Some(s)] = G[Some(s)]
    BY <2>1
  <2>3. QED BY <1>2, <2>2 DEF SumEq
<1> HIDE DEF T
<1>3. \A s \in SUBSET S : s \in T
  BY <1>1, <1>2, SetOfSubsets
<1>4. QED BY <1>3 DEF T

LEMMA SumIsOf ==
    ASSUME NEW S, IsFiniteSet(S), NEW F, \A x \in S : F[x] \in Int
    PROVE  \E f \in [SUBSET S -> Int] : SumEq(f, F, S) /\ SumOf(F, S) = f[S]
<1> DEFINE Is(f) == f = [s \in SUBSET S |-> IF s = {} THEN 0 ELSE F[Some(s)] + f[s \ {Some(s)}]]
           iter[s \in SUBSET S] == IF s = {} THEN 0 ELSE F[Some(s)] + iter[s \ {Some(s)}]
<1>1. SumOf(F, S) = iter[S]
  BY DEF SumOf, MapThenSumSet, MapThenFoldSet, Some
<1>2. iter = CHOOSE f : Is(f)
  OBVIOUS
<1> HIDE DEF iter
<1>3. PICK g \in [SUBSET S -> Int] : SumEq(g, F, S)
  BY SumExists
<1>4. Is(g)
  BY <1>3 DEF SumEq
<1>5. Is(iter)
  BY <1>2, <1>4
<1>6. SumEq(iter, F, S)
  BY <1>5 DEF SumEq
<1>7. iter[S] = g[S]
  BY <1>3, <1>6, SumUnique
<1>8. QED BY <1>1, <1>3, <1>7

SaysSums(f, F, S) == SumEq(f, F, S) /\ \A s \in SUBSET S : SumOf(F, s) = f[s]

LEMMA SumsAre ==
    ASSUME NEW S, IsFiniteSet(S), NEW F, \A x \in S : F[x] \in Int
    PROVE  \E f \in [SUBSET S -> Int] : SaysSums(f, F, S)
<1>1. PICK f \in [SUBSET S -> Int] : SumEq(f, F, S)
  BY SumExists
<1>2. ASSUME NEW s \in SUBSET S PROVE SumOf(F, s) = f[s]
  <2>1. IsFiniteSet(s) /\ \A x \in s : F[x] \in Int
    BY FS_Subset
  <2>2. PICK g \in [SUBSET s -> Int] : SumEq(g, F, s) /\ SumOf(F, s) = g[s]
    BY <2>1, SumIsOf
  <2>3. SumEq(f, F, s)
    BY <1>1 DEF SumEq
  <2>4. f[s] = g[s]
    BY <2>1, <2>2, <2>3, SumUnique
  <2>5. QED BY <2>2, <2>4
<1>3. SaysSums(f, F, S)
  BY <1>1, <1>2 DEF SaysSums
<1>4. QED BY <1>1, <1>3

\* Any element may be the first that is added.
THEOREM SumIs ==
    ASSUME NEW S, IsFiniteSet(S), NEW F, \A x \in S : F[x] \in Int
    PROVE  /\ SumOf(F, S) \in Int /\ SumOf(F, {}) = 0
           /\ \A x \in S : SumOf(F, S) = F[x] + SumOf(F, S \ {x})
<1>0. PICK f \in [SUBSET S -> Int] : SaysSums(f, F, S)
  BY SumsAre
<1>1. SumEq(f, F, S) /\ \A s \in SUBSET S : SumOf(F, s) = f[s]
  BY <1>0 DEF SaysSums
<1>2. \A s \in SUBSET S : IsFiniteSet(s) /\ Cardinality(s) \in Nat /\ (Cardinality(s) = 0 <=> s = {})
  BY FS_Subset, FS_CardinalityType, FS_EmptySet
<1>3. \A s \in SUBSET S : f[s] = IF s = {} THEN 0 ELSE F[Some(s)] + f[s \ {Some(s)}]
  BY <1>1 DEF SumEq
<1> DEFINE T == {n \in Nat : \A s \in SUBSET S : Cardinality(s) <= n => \A x \in s : f[s] = F[x] + f[s \ {x}]}
<1>4. 0 \in T
  BY <1>2
<1>5. ASSUME NEW n \in Nat, n \in T PROVE n + 1 \in T
  <2> SUFFICES ASSUME NEW s \in SUBSET S, Cardinality(s) <= n + 1, NEW x \in s PROVE f[s] = F[x] + f[s \ {x}]
    OBVIOUS
  <2> DEFINE y == Some(s)
             r == (s \ {x}) \ {y}
  <2>1. y \in s
    BY DEF Some
  <2>2. s \ {y} \in SUBSET S /\ Cardinality(s \ {y}) <= n /\ s \ {x} \in SUBSET S /\ Cardinality(s \ {x}) <= n
    BY <1>2, <2>1, FS_RemoveElement
  <2>3. f[s] = F[y] + f[s \ {y}]
    BY <1>3
  <2> HIDE DEF y
  <2>4. CASE x # y
    <3>1. x \in s \ {y} /\ (s \ {y}) \ {x} = r /\ y \in s \ {x} /\ r \in SUBSET S
      BY <2>1, <2>4
    <3> HIDE DEF r
    <3>2. f[s \ {y}] = F[x] + f[r]
      BY <1>5, <2>2, <3>1
    <3>3. f[s \ {x}] = F[y] + f[r]
      BY <1>5, <2>2, <3>1 DEF r
    <3>4. F[x] \in Int /\ F[y] \in Int /\ f[r] \in Int
      BY <1>1, <2>1, <3>1
    <3>5. QED BY <2>3, <3>2, <3>3, <3>4
  <2>5. QED BY <2>3, <2>4
<1> HIDE DEF T
<1>6. \A n \in Nat : n \in T
  BY <1>4, <1>5, SetOfNaturals
<1>7. ASSUME NEW x \in S PROVE f[S] = F[x] + f[S \ {x}]
  <2>1. Cardinality(S) \in T /\ Cardinality(S) <= Cardinality(S) /\ S \in SUBSET S
    BY <1>2, <1>6
  <2>2. QED BY <2>1 DEF T
<1>8. S \in SUBSET S /\ {} \in SUBSET S /\ \A x \in S : S \ {x} \in SUBSET S
  OBVIOUS
<1>9. f[{}] = 0
  BY <1>3, <1>8
<1>10. QED BY <1>1, <1>7, <1>8, <1>9

LEMMA SumSame ==
    ASSUME NEW S, IsFiniteSet(S), NEW F, NEW G, \A x \in S : F[x] \in Int /\ G[x] = F[x]
    PROVE  SumOf(F, S) = SumOf(G, S)
<1>1. PICK f \in [SUBSET S -> Int] : SumEq(f, F, S) /\ SumOf(F, S) = f[S]
  BY SumIsOf
<1>2. PICK g \in [SUBSET S -> Int] : SumEq(g, G, S) /\ SumOf(G, S) = g[S]
  BY SumIsOf
<1>3. f[S] = g[S]
  BY <1>1, <1>2, SumUnique
<1>4. QED BY <1>1, <1>2, <1>3
=============================================================================
