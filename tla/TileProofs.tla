----------------------------- MODULE TileProofs -----------------------------
(***************************************************************************)
(* What clients are told of a tile is what is there, for any tiles,        *)
(* watchers and sights, kinds and orders, and for any number of things     *)
(* that a client shows.  First what a change to a list does to what is     *)
(* shown of it, then what each change to a tile does to the stacks of its  *)
(* watchers, and last that each of the actions is such changes and keeps   *)
(* the inductive invariant TileInv.                                        *)
(***************************************************************************)
EXTENDS TileView, RecursionProofs, SequenceTheorems, TLAPS

-----------------------------------------------------------------------------
(* Sequences                                                               *)

LEMMA MinOfTwo ==
    ASSUME NEW a \in Int, NEW b \in Int
    PROVE  Min({a, b}) = IF a <= b THEN a ELSE b
BY DEF Min

\* s with x after its first k entries, and without the one that comes then.
Ins(s, k, x) == SubSeq(s, 1, k) \o <<x>> \o SubSeq(s, k + 1, Len(s))

\* That q is this, entry by entry.
IsIns(X, q, s, k, x) ==
    /\ q \in Seq(X) /\ Len(q) = Len(s) + 1
    /\ \A i \in 1..Len(s) + 1 : q[i] = IF i <= k THEN s[i] ELSE IF i = k + 1 THEN x ELSE s[i - 1]

LEMMA InsIs ==
    ASSUME NEW X, NEW s \in Seq(X), NEW k \in 0..Len(s), NEW x \in X
    PROVE  IsIns(X, Ins(s, k, x), s, k, x)
<1> DEFINE a == SubSeq(s, 1, k)
           c == SubSeq(s, k + 1, Len(s))
           ab == a \o <<x>>
<1>0. Len(s) \in Nat /\ k \in Nat /\ \A i \in 1..Len(s) : s[i] \in X
  OBVIOUS
<1>1. a \in Seq(X) /\ Len(a) = k /\ \A i \in 1..k : a[i] = s[i]
  OBVIOUS
<1>2. c \in Seq(X) /\ Len(c) = Len(s) - k /\ \A i \in 1..Len(s) - k : c[i] = s[k + i]
  OBVIOUS
<1>3. <<x>> \in Seq(X) /\ Len(<<x>>) = 1 /\ <<x>>[1] = x
  OBVIOUS
<1> HIDE DEF a, c
<1>4. ab \in Seq(X) /\ Len(ab) = k + 1 /\ \A i \in 1..k + 1 : ab[i] = IF i <= k THEN s[i] ELSE x
  BY <1>0, <1>1, <1>3
<1> HIDE DEF ab
<1>5. /\ ab \o c \in Seq(X) /\ Len(ab \o c) = Len(s) + 1
      /\ \A i \in 1..Len(s) + 1 : (ab \o c)[i] = IF i <= k + 1 THEN ab[i] ELSE c[i - (k + 1)]
  <2>1. /\ ab \o c \in Seq(X) /\ Len(ab \o c) = Len(ab) + Len(c)
        /\ \A i \in 1..Len(ab) + Len(c) : (ab \o c)[i] = IF i <= Len(ab) THEN ab[i] ELSE c[i - Len(ab)]
    BY <1>2, <1>4, ConcatProperties
  <2>2. Len(ab) = k + 1 /\ Len(ab) + Len(c) = Len(s) + 1
    BY <1>0, <1>2, <1>4
  <2>3. QED BY <2>1, <2>2
<1>6. ASSUME NEW i \in 1..Len(s) + 1
      PROVE  (ab \o c)[i] = IF i <= k THEN s[i] ELSE IF i = k + 1 THEN x ELSE s[i - 1]
  <2>1. CASE i <= k + 1
    BY <1>4, <1>5, <2>1
  <2>2. CASE ~ i <= k + 1
    <3>1. i - (k + 1) \in 1..Len(s) - k /\ k + (i - (k + 1)) = i - 1
      BY <1>0, <2>2
    <3>2. c[i - (k + 1)] = s[i - 1]
      BY <1>2, <3>1
    <3>3. QED BY <1>0, <1>5, <2>2, <3>2
  <2>3. QED BY <2>1, <2>2
<1>7. Ins(s, k, x) = ab \o c
  BY DEF Ins, ab, a, c
<1>8. QED BY <1>5, <1>6, <1>7 DEF IsIns

LEMMA RemoveAtIs ==
    ASSUME NEW X, NEW s \in Seq(X), NEW k \in 1..Len(s)
    PROVE  /\ RemoveAt(s, k) \in Seq(X) /\ Len(RemoveAt(s, k)) = Len(s) - 1
           /\ \A i \in 1..Len(s) - 1 : RemoveAt(s, k)[i] = IF i < k THEN s[i] ELSE s[i + 1]
<1> DEFINE a == SubSeq(s, 1, k - 1)
           c == SubSeq(s, k + 1, Len(s))
<1>0. Len(s) \in Nat /\ k \in Nat /\ \A i \in 1..Len(s) : s[i] \in X
  OBVIOUS
<1>1. a \in Seq(X) /\ Len(a) = k - 1 /\ \A i \in 1..k - 1 : a[i] = s[i]
  OBVIOUS
<1>2. c \in Seq(X) /\ Len(c) = Len(s) - k /\ \A i \in 1..Len(s) - k : c[i] = s[k + i]
  OBVIOUS
<1> HIDE DEF a, c
<1>3. /\ a \o c \in Seq(X) /\ Len(a \o c) = Len(s) - 1
      /\ \A i \in 1..Len(s) - 1 : (a \o c)[i] = IF i <= k - 1 THEN a[i] ELSE c[i - (k - 1)]
  <2>1. /\ a \o c \in Seq(X) /\ Len(a \o c) = Len(a) + Len(c)
        /\ \A i \in 1..Len(a) + Len(c) : (a \o c)[i] = IF i <= Len(a) THEN a[i] ELSE c[i - Len(a)]
    BY <1>1, <1>2, ConcatProperties
  <2>2. Len(a) = k - 1 /\ Len(a) + Len(c) = Len(s) - 1
    BY <1>0, <1>1, <1>2
  <2>3. QED BY <2>1, <2>2
<1>4. ASSUME NEW i \in 1..Len(s) - 1
      PROVE  (a \o c)[i] = IF i < k THEN s[i] ELSE s[i + 1]
  <2>1. CASE i < k
    BY <1>0, <1>1, <1>3, <2>1
  <2>2. CASE ~ i < k
    <3>1. i - (k - 1) \in 1..Len(s) - k /\ k + (i - (k - 1)) = i + 1
      BY <1>0, <2>2
    <3>2. c[i - (k - 1)] = s[i + 1]
      BY <1>2, <3>1
    <3>3. QED BY <1>0, <1>3, <2>2, <3>2
  <2>3. QED BY <2>1, <2>2
<1>5. RemoveAt(s, k) = a \o c
  BY DEF RemoveAt, a, c
<1>6. QED BY <1>3, <1>4, <1>5

\* What is shown of a list, entry by entry.
LEMMA ShownIs ==
    ASSUME ViewAssumption, NEW X, NEW s \in Seq(X)
    PROVE  /\ Shown(s) \in Seq(X) /\ Len(Shown(s)) = (IF Len(s) <= Limit THEN Len(s) ELSE Limit)
           /\ \A i \in 1..Len(s) : i <= Limit => Shown(s)[i] = s[i]
<1> DEFINE m == IF Len(s) <= Limit THEN Len(s) ELSE Limit
<1>1. Limit \in Nat /\ Limit > 0 /\ Len(s) \in Nat
  BY DEF ViewAssumption
<1>2. Min({Limit, Len(s)}) = m /\ m \in Nat /\ m <= Len(s)
  BY <1>1, MinOfTwo
<1>3. Shown(s) = SubSeq(s, 1, m)
  BY <1>2 DEF Shown
<1>4. \A i \in 1..m : s[i] \in X
  BY <1>1, <1>2
<1>5. \A i \in 1..Len(s) : i <= Limit => i \in 1..m
  BY <1>1
<1> HIDE DEF m
<1>6. /\ SubSeq(s, 1, m) \in Seq(X) /\ Len(SubSeq(s, 1, m)) = m
      /\ \A i \in 1..m : SubSeq(s, 1, m)[i] = s[i]
  BY <1>2, <1>4
<1>7. QED BY <1>3, <1>5, <1>6 DEF m

\* What comes to a place shows at it.
LEMMA AddedShown ==
    ASSUME ViewAssumption, NEW X, NEW s \in Seq(X), NEW k \in 0..Len(s), NEW x \in X
    PROVE  Added(Shown(s), k, x) = Shown(Ins(s, k, x))
<1> DEFINE w == Shown(s)
           q == Ins(s, k, x)
<1>1. Limit \in Nat /\ Limit > 0 /\ Len(s) \in Nat /\ k \in Nat /\ k <= Len(s)
  BY DEF ViewAssumption
<1>2. /\ w \in Seq(X) /\ Len(w) = (IF Len(s) <= Limit THEN Len(s) ELSE Limit)
      /\ \A i \in 1..Len(s) : i <= Limit => w[i] = s[i]
  BY ShownIs
<1>3. /\ q \in Seq(X) /\ Len(q) = Len(s) + 1
      /\ \A i \in 1..Len(s) + 1 : q[i] = IF i <= k THEN s[i] ELSE IF i = k + 1 THEN x ELSE s[i - 1]
  <2>1. IsIns(X, q, s, k, x)
    BY InsIs
  <2>2. QED BY <2>1 DEF IsIns
<1>4. /\ Shown(q) \in Seq(X) /\ Len(Shown(q)) = (IF Len(q) <= Limit THEN Len(q) ELSE Limit)
      /\ \A i \in 1..Len(q) : i <= Limit => Shown(q)[i] = q[i]
  BY <1>3, ShownIs
<1> HIDE DEF w, q
<1>5. CASE k >= Limit
  <2>1. Added(w, k, x) = w
    BY <1>5 DEF Added
  <2>2. Len(w) = Limit /\ Len(Shown(q)) = Limit
    BY <1>1, <1>2, <1>3, <1>4, <1>5
  <2>3. ASSUME NEW i \in 1..Limit PROVE w[i] = Shown(q)[i]
    <3>1. i \in 1..Len(s) /\ i \in 1..Len(s) + 1 /\ i <= k /\ i <= Limit
      BY <1>1, <1>5
    <3>2. w[i] = s[i] /\ q[i] = s[i]
      BY <1>2, <1>3, <3>1
    <3>3. i \in 1..Len(q)
      BY <1>3, <3>1
    <3>4. QED BY <1>4, <3>1, <3>2, <3>3
  <2>4. w = Shown(q)
    BY <1>2, <1>4, <2>2, <2>3, SeqEqual
  <2>5. QED BY <2>1, <2>4 DEF w, q
<1>6. CASE k < Limit
  <2> DEFINE r == Ins(w, k, x)
  <2>1. k \in 0..Len(w) /\ Len(w) \in Nat
    BY <1>1, <1>2, <1>6
  <2>2. Min({k, Len(w)}) = k
    BY <1>1, <2>1, MinOfTwo
  <2>3. Added(w, k, x) = Shown(r)
    BY <1>1, <1>6, <2>2 DEF Added, Ins
  <2>4. /\ r \in Seq(X) /\ Len(r) = Len(w) + 1
        /\ \A i \in 1..Len(w) + 1 : r[i] = IF i <= k THEN w[i] ELSE IF i = k + 1 THEN x ELSE w[i - 1]
    <3>1. IsIns(X, r, w, k, x)
      BY <1>2, <2>1, InsIs
    <3>2. QED BY <3>1 DEF IsIns
  <2> HIDE DEF r
  <2>5. /\ Shown(r) \in Seq(X) /\ Len(Shown(r)) = (IF Len(r) <= Limit THEN Len(r) ELSE Limit)
        /\ \A i \in 1..Len(r) : i <= Limit => Shown(r)[i] = r[i]
    BY <2>4, ShownIs
  <2>6. Len(Shown(r)) = Len(Shown(q))
    BY <1>1, <1>2, <1>3, <1>4, <2>4, <2>5
  <2>7. ASSUME NEW i \in 1..Len(Shown(q)) PROVE Shown(r)[i] = Shown(q)[i]
    <3>1. i \in 1..Len(q) /\ i \in 1..Len(r) /\ i <= Limit /\ i \in 1..Len(s) + 1 /\ i \in 1..Len(w) + 1
      BY <1>1, <1>2, <1>3, <1>4, <2>1, <2>4, <2>5
    <3>2. Shown(r)[i] = r[i] /\ Shown(q)[i] = q[i]
      BY <1>4, <2>5, <3>1
    <3>3. CASE i <= k
      <4>1. i \in 1..Len(s)
        BY <1>1, <3>1, <3>3
      <4>2. QED BY <1>2, <1>3, <2>4, <3>1, <3>2, <3>3, <4>1
    <3>4. CASE i = k + 1
      BY <1>1, <1>3, <2>4, <3>1, <3>2, <3>4
    <3>5. CASE i > k + 1
      <4>1. i - 1 \in 1..Len(s) /\ i - 1 <= Limit /\ ~ i <= k /\ i # k + 1
        BY <1>1, <3>1, <3>5
      <4>2. w[i - 1] = s[i - 1]
        BY <1>2, <4>1
      <4>3. QED BY <1>3, <2>4, <3>1, <3>2, <4>1, <4>2
    <3>6. QED BY <1>1, <3>1, <3>3, <3>4, <3>5
  <2>8. Shown(r) = Shown(q)
    BY <1>4, <2>5, <2>6, <2>7, SeqEqual
  <2>9. QED BY <2>3, <2>8 DEF w, q
<1>7. QED BY <1>1, <1>5, <1>6

\* What goes from a place shows no more, if nothing comes from below that was not shown.
LEMMA RemovedShown ==
    ASSUME ViewAssumption, NEW X, NEW s \in Seq(X), NEW k \in 0..Len(s) - 1, Len(s) <= Limit \/ k >= Limit
    PROVE  Removed(Shown(s), k) = Shown(RemoveAt(s, k + 1))
<1> DEFINE w == Shown(s)
           q == RemoveAt(s, k + 1)
<1>1. Limit \in Nat /\ Limit > 0 /\ Len(s) \in Nat /\ k \in Nat /\ k < Len(s) /\ k + 1 \in 1..Len(s)
  BY DEF ViewAssumption
<1>2. /\ w \in Seq(X) /\ Len(w) = (IF Len(s) <= Limit THEN Len(s) ELSE Limit)
      /\ \A i \in 1..Len(s) : i <= Limit => w[i] = s[i]
  BY ShownIs
<1>3. /\ q \in Seq(X) /\ Len(q) = Len(s) - 1
      /\ \A i \in 1..Len(s) - 1 : q[i] = IF i < k + 1 THEN s[i] ELSE s[i + 1]
  BY <1>1, RemoveAtIs
<1>4. /\ Shown(q) \in Seq(X) /\ Len(Shown(q)) = (IF Len(q) <= Limit THEN Len(q) ELSE Limit)
      /\ \A i \in 1..Len(q) : i <= Limit => Shown(q)[i] = q[i]
  BY <1>3, ShownIs
<1> HIDE DEF w, q
<1>5. CASE k >= Limit
  <2>1. Removed(w, k) = w
    BY <1>1, <1>2, <1>5 DEF Removed
  <2>2. Len(w) = Limit /\ Len(Shown(q)) = Limit
    BY <1>1, <1>2, <1>3, <1>4, <1>5
  <2>3. ASSUME NEW i \in 1..Limit PROVE w[i] = Shown(q)[i]
    <3>1. i \in 1..Len(s) /\ i \in 1..Len(s) - 1 /\ i < k + 1 /\ i <= Limit
      BY <1>1, <1>5
    <3>2. w[i] = s[i] /\ q[i] = s[i]
      BY <1>2, <1>3, <3>1
    <3>3. i \in 1..Len(q)
      BY <1>3, <3>1
    <3>4. QED BY <1>4, <3>1, <3>2, <3>3
  <2>4. w = Shown(q)
    BY <1>2, <1>4, <2>2, <2>3, SeqEqual
  <2>5. QED BY <2>1, <2>4 DEF w, q
<1>6. CASE k < Limit
  <2>1. Len(s) <= Limit
    BY <1>1, <1>6
  <2>2. Len(w) = Len(s) /\ \A i \in 1..Len(s) : w[i] = s[i]
    BY <1>1, <1>2, <2>1
  <2>3. w = s
    BY <1>2, <2>2, SeqEqual
  <2>4. Removed(w, k) = q
    BY <1>1, <2>2, <2>3 DEF Removed, q
  <2>5. Len(Shown(q)) = Len(q) /\ \A i \in 1..Len(q) : Shown(q)[i] = q[i]
    BY <1>1, <1>3, <1>4, <2>1
  <2>6. Shown(q) = q
    BY <1>3, <1>4, <2>5, SeqEqual
  <2>7. QED BY <2>4, <2>6 DEF w, q
<1>7. QED BY <1>1, <1>5, <1>6

\* s with x in the place of entry k + 1.
Put(s, k, x) == [s EXCEPT ![k + 1] = x]

\* What changes at a place shows so.
LEMMA UpdatedShown ==
    ASSUME ViewAssumption, NEW X, NEW s \in Seq(X), NEW k \in 0..Len(s) - 1, NEW x \in X
    PROVE  Updated(Shown(s), k, x) = Shown(Put(s, k, x))
<1> DEFINE w == Shown(s)
           q == [s EXCEPT ![k + 1] = x]
<1>1. Limit \in Nat /\ Limit > 0 /\ Len(s) \in Nat /\ k \in Nat /\ k < Len(s) /\ k + 1 \in 1..Len(s)
  BY DEF ViewAssumption
<1>2. /\ w \in Seq(X) /\ Len(w) = (IF Len(s) <= Limit THEN Len(s) ELSE Limit)
      /\ \A i \in 1..Len(s) : i <= Limit => w[i] = s[i]
  BY ShownIs
<1>3. /\ q \in Seq(X) /\ Len(q) = Len(s)
      /\ \A i \in 1..Len(s) : q[i] = IF i = k + 1 THEN x ELSE s[i]
  BY <1>1, ExceptSeq
<1>4. /\ Shown(q) \in Seq(X) /\ Len(Shown(q)) = (IF Len(q) <= Limit THEN Len(q) ELSE Limit)
      /\ \A i \in 1..Len(q) : i <= Limit => Shown(q)[i] = q[i]
  BY <1>3, ShownIs
<1> HIDE DEF w, q
<1>5. Len(w) = Len(Shown(q)) /\ Len(w) \in Nat
  BY <1>1, <1>2, <1>3, <1>4
<1>6. ASSUME NEW i \in 1..Len(w) PROVE i \in 1..Len(s) /\ i <= Limit /\ w[i] = s[i] /\ Shown(q)[i] = q[i]
  <2>1. i \in 1..Len(s) /\ i <= Limit
    BY <1>1, <1>2
  <2>2. QED BY <1>2, <1>3, <1>4, <2>1
<1>7. CASE k + 1 \in 1..Len(w)
  <2> DEFINE u == [w EXCEPT ![k + 1] = x]
  <2>1. Updated(w, k, x) = u
    <3>1. k \in 0..Len(w) - 1
      BY <1>1, <1>5, <1>7
    <3>2. QED BY <3>1 DEF Updated
  <2>2. u \in Seq(X) /\ Len(u) = Len(w) /\ \A i \in 1..Len(w) : u[i] = IF i = k + 1 THEN x ELSE w[i]
    BY <1>2, <1>7, ExceptSeq
  <2> HIDE DEF u
  <2>3. \A i \in 1..Len(u) : u[i] = Shown(q)[i]
    BY <1>3, <1>6, <2>2
  <2>4. u = Shown(q)
    BY <1>4, <1>5, <2>2, <2>3, SeqEqual
  <2>5. QED BY <2>1, <2>4 DEF w, q, Put
<1>8. CASE k + 1 \notin 1..Len(w)
  <2>1. Updated(w, k, x) = w
    BY <1>1, <1>5, <1>8 DEF Updated
  <2>2. \A i \in 1..Len(w) : w[i] = Shown(q)[i]
    BY <1>3, <1>6, <1>8
  <2>3. w = Shown(q)
    BY <1>2, <1>4, <1>5, <2>2, SeqEqual
  <2>4. QED BY <2>1, <2>3 DEF w, q, Put
<1>9. QED BY <1>7, <1>8

\* That q is s and then t.
IsConcat(X, q, s, t) ==
    /\ q \in Seq(X) /\ Len(q) = Len(s) + Len(t)
    /\ \A i \in 1..Len(s) + Len(t) : q[i] = IF i <= Len(s) THEN s[i] ELSE t[i - Len(s)]

LEMMA ConcatIs ==
    ASSUME NEW X, NEW s \in Seq(X), NEW t \in Seq(X)
    PROVE  IsConcat(X, s \o t, s, t)
BY ConcatProperties DEF IsConcat

\* That q is a, b and c, one after the other.
IsJoin(X, q, a, b, c) ==
    /\ q \in Seq(X) /\ Len(q) = Len(a) + Len(b) + Len(c)
    /\ \A i \in 1..Len(a) : q[i] = a[i]
    /\ \A i \in 1..Len(b) : q[Len(a) + i] = b[i]
    /\ \A i \in 1..Len(c) : q[Len(a) + Len(b) + i] = c[i]

Join(a, b, c) == a \o b \o c

LEMMA JoinIs ==
    ASSUME NEW X, NEW a \in Seq(X), NEW b \in Seq(X), NEW c \in Seq(X)
    PROVE  IsJoin(X, a \o b \o c, a, b, c)
<1> DEFINE ab == a \o b
           q == ab \o c
<1>0. Len(a) \in Nat /\ Len(b) \in Nat /\ Len(c) \in Nat
  OBVIOUS
<1>1. /\ ab \in Seq(X) /\ Len(ab) = Len(a) + Len(b)
      /\ \A i \in 1..Len(a) + Len(b) : ab[i] = IF i <= Len(a) THEN a[i] ELSE b[i - Len(a)]
  <2>1. IsConcat(X, ab, a, b)
    BY ConcatIs
  <2>2. QED BY <2>1 DEF IsConcat
<1> HIDE DEF ab
<1>2. /\ q \in Seq(X) /\ Len(q) = Len(ab) + Len(c)
      /\ \A i \in 1..Len(ab) + Len(c) : q[i] = IF i <= Len(ab) THEN ab[i] ELSE c[i - Len(ab)]
  <2>1. IsConcat(X, q, ab, c)
    BY <1>1, ConcatIs
  <2>2. QED BY <2>1 DEF IsConcat
<1> HIDE DEF q
<1>3. ASSUME NEW i \in 1..Len(a) PROVE q[i] = a[i]
  <2>1. i \in 1..Len(ab) + Len(c) /\ i <= Len(ab) /\ i \in 1..Len(a) + Len(b) /\ i <= Len(a)
    BY <1>0, <1>1
  <2>2. QED BY <1>1, <1>2, <2>1
<1>4. ASSUME NEW i \in 1..Len(b) PROVE q[Len(a) + i] = b[i]
  <2> DEFINE j == Len(a) + i
  <2>1. j \in 1..Len(ab) + Len(c) /\ j <= Len(ab) /\ j \in 1..Len(a) + Len(b) /\ ~ j <= Len(a) /\ j - Len(a) = i
    BY <1>0, <1>1
  <2> HIDE DEF j
  <2>2. q[j] = b[i]
    BY <1>1, <1>2, <2>1
  <2>3. QED BY <2>2 DEF j
<1>5. ASSUME NEW i \in 1..Len(c) PROVE q[Len(a) + Len(b) + i] = c[i]
  <2> DEFINE j == Len(a) + Len(b) + i
  <2>1. j \in 1..Len(ab) + Len(c) /\ ~ j <= Len(ab) /\ j - Len(ab) = i
    BY <1>0, <1>1
  <2> HIDE DEF j
  <2>2. q[j] = c[i]
    BY <1>2, <2>1
  <2>3. QED BY <2>2 DEF j
<1>6. QED BY <1>0, <1>1, <1>2, <1>3, <1>4, <1>5 DEF IsJoin, q, ab

\* Two lists are one if they have the same entries in each of three parts.
LEMMA JoinSame ==
    ASSUME NEW X, NEW q \in Seq(X), NEW a \in Seq(X), NEW b \in Seq(X), NEW c \in Seq(X),
           IsJoin(X, q, a, b, c)
    PROVE  q = Join(a, b, c)
<1> DEFINE r == a \o b \o c
<1>0. Len(a) \in Nat /\ Len(b) \in Nat /\ Len(c) \in Nat
  OBVIOUS
<1>1. IsJoin(X, r, a, b, c)
  BY JoinIs
<1> HIDE DEF r
<1>2. r \in Seq(X) /\ Len(q) = Len(r) /\ Len(q) = Len(a) + Len(b) + Len(c)
  BY <1>1 DEF IsJoin
<1>3. ASSUME NEW i \in 1..Len(q) PROVE q[i] = r[i]
  <2>1. CASE i <= Len(a)
    <3>1. i \in 1..Len(a)
      BY <1>0, <2>1
    <3>2. QED BY <1>1, <3>1 DEF IsJoin
  <2>2. CASE i > Len(a) /\ i <= Len(a) + Len(b)
    <3> DEFINE j == i - Len(a)
    <3>1. j \in 1..Len(b) /\ Len(a) + j = i
      BY <1>0, <1>2, <2>2
    <3> HIDE DEF j
    <3>2. q[Len(a) + j] = b[j] /\ r[Len(a) + j] = b[j]
      BY <1>1, <3>1 DEF IsJoin
    <3>3. QED BY <3>1, <3>2
  <2>3. CASE i > Len(a) + Len(b)
    <3> DEFINE j == i - Len(a) - Len(b)
    <3>1. j \in 1..Len(c) /\ Len(a) + Len(b) + j = i
      BY <1>0, <1>2, <2>3
    <3> HIDE DEF j
    <3>2. q[Len(a) + Len(b) + j] = c[j] /\ r[Len(a) + Len(b) + j] = c[j]
      BY <1>1, <3>1 DEF IsJoin
    <3>3. QED BY <3>1, <3>2
  <2>4. QED BY <1>0, <1>2, <2>1, <2>2, <2>3
<1>4. q = r
  BY <1>2, <1>3, SeqEqual
<1>5. QED BY <1>4 DEF r, Join

\* What comes in, goes out of or changes in a part does so in the whole.
LEMMA InsOfPart ==
    ASSUME NEW X, NEW a \in Seq(X), NEW b \in Seq(X), NEW c \in Seq(X),
           NEW k \in 0..Len(b), NEW x \in X
    PROVE  /\ Ins(a \o b \o c, Len(a) + k, x) = a \o Ins(b, k, x) \o c
           /\ Len(a) + k \in 0..Len(a \o b \o c)
<1> DEFINE s == a \o b \o c
           d == Ins(b, k, x)
           n == Len(a) + k
           q == Ins(s, n, x)
<1>0. Len(a) \in Nat /\ Len(b) \in Nat /\ Len(c) \in Nat /\ k \in Nat /\ k <= Len(b)
  OBVIOUS
<1>1. IsJoin(X, s, a, b, c)
  BY JoinIs
<1> HIDE DEF s
<1>2. IsIns(X, d, b, k, x)
  BY InsIs
<1> HIDE DEF d
<1>3. s \in Seq(X) /\ n \in 0..Len(s) /\ Len(s) = Len(a) + Len(b) + Len(c)
  BY <1>0, <1>1 DEF IsJoin
<1>4. IsIns(X, q, s, n, x)
  <2> HIDE DEF n
  <2>1. QED BY <1>3, InsIs
<1> HIDE DEF q
<1>5. q \in Seq(X) /\ d \in Seq(X) /\ Len(d) = Len(b) + 1 /\ Len(q) = Len(a) + Len(d) + Len(c)
  BY <1>0, <1>2, <1>3, <1>4 DEF IsIns
<1>6. ASSUME NEW i \in 1..Len(a) PROVE q[i] = a[i]
  <2>1. i \in 1..Len(s) + 1 /\ i <= n
    BY <1>0, <1>3
  <2>2. q[i] = s[i]
    BY <1>4, <2>1 DEF IsIns
  <2>3. QED BY <1>1, <2>2 DEF IsJoin
<1>7. ASSUME NEW i \in 1..Len(d) PROVE q[Len(a) + i] = d[i]
  <2> DEFINE j == Len(a) + i
  <2>1. /\ j \in 1..Len(s) + 1 /\ i \in 1..Len(b) + 1 /\ (j <= n <=> i <= k) /\ (j = n + 1 <=> i = k + 1)
        /\ j - 1 = Len(a) + (i - 1)
    <3>1. i \in Nat /\ i >= 1 /\ i <= Len(b) + 1
      BY <1>0, <1>5
    <3>2. j \in 1..Len(s) + 1 /\ i \in 1..Len(b) + 1
      BY <1>0, <1>3, <3>1
    <3>3. (j <= n <=> i <= k) /\ (j = n + 1 <=> i = k + 1) /\ j - 1 = Len(a) + (i - 1)
      BY <1>0, <3>1
    <3>4. QED BY <3>2, <3>3
  <2>2. /\ q[j] = IF j <= n THEN s[j] ELSE IF j = n + 1 THEN x ELSE s[j - 1]
        /\ d[i] = IF i <= k THEN b[i] ELSE IF i = k + 1 THEN x ELSE b[i - 1]
    <3> HIDE DEF j, n
    <3>1. QED BY <1>2, <1>4, <2>1 DEF IsIns
  <2>3. CASE i <= k
    <3>1. i \in 1..Len(b)
      BY <1>0, <2>3
    <3>2. s[Len(a) + i] = b[i]
      BY <1>1, <3>1 DEF IsJoin
    <3>3. QED BY <2>1, <2>2, <2>3, <3>2
  <2>4. CASE i = k + 1
    <3> HIDE DEF j, n
    <3>1. ~ i <= k
      BY <1>0, <2>4
    <3>2. q[j] = d[i]
      BY <2>1, <2>2, <2>4, <3>1
    <3>3. QED BY <3>2 DEF j
  <2>5. CASE ~ i <= k /\ i # k + 1
    <3>1. i - 1 \in 1..Len(b)
      BY <1>0, <1>5, <2>5
    <3>2. s[Len(a) + (i - 1)] = b[i - 1]
      BY <1>1, <3>1 DEF IsJoin
    <3> HIDE DEF j, n
    <3>3. q[j] = d[i]
      BY <2>1, <2>2, <2>5, <3>2
    <3>4. QED BY <3>3 DEF j
  <2>6. QED BY <2>3, <2>4, <2>5
<1>8. ASSUME NEW i \in 1..Len(c) PROVE q[Len(a) + Len(d) + i] = c[i]
  <2> DEFINE j == Len(a) + Len(d) + i
  <2>1. j \in 1..Len(s) + 1 /\ ~ j <= n /\ j # n + 1 /\ j - 1 = Len(a) + Len(b) + i
    BY <1>0, <1>3, <1>5
  <2>2. s[Len(a) + Len(b) + i] = c[i]
    BY <1>1 DEF IsJoin
  <2> HIDE DEF j, n
  <2>3. q[j] = s[j - 1]
    BY <1>4, <2>1 DEF IsIns
  <2>4. q[j] = c[i]
    BY <2>1, <2>2, <2>3
  <2>5. QED BY <2>4 DEF j
<1>9. IsJoin(X, q, a, d, c)
  BY <1>5, <1>6, <1>7, <1>8 DEF IsJoin
<1>10. q = Join(a, d, c)
  BY <1>5, <1>9, JoinSame
<1>11. QED BY <1>3, <1>10 DEF q, d, s, Join

LEMMA RemoveOfPart ==
    ASSUME NEW X, NEW a \in Seq(X), NEW b \in Seq(X), NEW c \in Seq(X), NEW k \in 1..Len(b)
    PROVE  /\ RemoveAt(a \o b \o c, Len(a) + k) = a \o RemoveAt(b, k) \o c
           /\ Len(a) + k \in 1..Len(a \o b \o c)
<1> DEFINE s == a \o b \o c
           d == RemoveAt(b, k)
           n == Len(a) + k
           q == RemoveAt(s, n)
<1>0. Len(a) \in Nat /\ Len(b) \in Nat /\ Len(c) \in Nat /\ k \in Nat /\ k >= 1 /\ k <= Len(b)
  OBVIOUS
<1>1. IsJoin(X, s, a, b, c)
  BY JoinIs
<1> HIDE DEF s
<1>2. /\ d \in Seq(X) /\ Len(d) = Len(b) - 1
      /\ \A i \in 1..Len(b) - 1 : d[i] = IF i < k THEN b[i] ELSE b[i + 1]
  BY RemoveAtIs
<1> HIDE DEF d
<1>3. s \in Seq(X) /\ n \in 1..Len(s) /\ Len(s) = Len(a) + Len(b) + Len(c)
  BY <1>0, <1>1 DEF IsJoin
<1>4. /\ q \in Seq(X) /\ Len(q) = Len(s) - 1
      /\ \A i \in 1..Len(s) - 1 : q[i] = IF i < n THEN s[i] ELSE s[i + 1]
  <2> HIDE DEF n
  <2>1. QED BY <1>3, RemoveAtIs
<1> HIDE DEF q
<1>5. Len(q) = Len(a) + Len(d) + Len(c) /\ Len(d) \in Nat
  BY <1>0, <1>2, <1>3, <1>4
<1>6. ASSUME NEW i \in 1..Len(a) PROVE q[i] = a[i]
  <2>1. i \in 1..Len(s) - 1 /\ i < n
    BY <1>0, <1>3
  <2>2. q[i] = s[i]
    BY <1>4, <2>1
  <2>3. QED BY <1>1, <2>2 DEF IsJoin
<1>7. ASSUME NEW i \in 1..Len(d) PROVE q[Len(a) + i] = d[i]
  <2> DEFINE j == Len(a) + i
  <2>1. /\ j \in 1..Len(s) - 1 /\ i \in 1..Len(b) - 1 /\ (j < n <=> i < k) /\ j + 1 = Len(a) + (i + 1)
        /\ i \in 1..Len(b) /\ i + 1 \in 1..Len(b)
    BY <1>0, <1>2, <1>3, <1>5
  <2>2. s[Len(a) + i] = b[i] /\ s[Len(a) + (i + 1)] = b[i + 1]
    BY <1>1, <2>1 DEF IsJoin
  <2>3. s[j] = b[i] /\ s[j + 1] = b[i + 1]
    BY <2>1, <2>2
  <2> HIDE DEF j, n
  <2>4. q[j] = d[i]
    BY <1>2, <1>4, <2>1, <2>3
  <2>5. QED BY <2>4 DEF j
<1>8. ASSUME NEW i \in 1..Len(c) PROVE q[Len(a) + Len(d) + i] = c[i]
  <2> DEFINE j == Len(a) + Len(d) + i
  <2>1. j \in 1..Len(s) - 1 /\ ~ j < n /\ j + 1 = Len(a) + Len(b) + i
    BY <1>0, <1>2, <1>3, <1>5
  <2>2. s[Len(a) + Len(b) + i] = c[i]
    BY <1>1 DEF IsJoin
  <2> HIDE DEF j, n
  <2>3. q[j] = s[j + 1]
    BY <1>4, <2>1
  <2>4. q[j] = c[i]
    BY <2>1, <2>2, <2>3
  <2>5. QED BY <2>4 DEF j
<1>9. IsJoin(X, q, a, d, c)
  BY <1>4, <1>5, <1>6, <1>7, <1>8 DEF IsJoin
<1>10. q = Join(a, d, c)
  BY <1>2, <1>4, <1>9, JoinSame
<1>11. QED BY <1>3, <1>10 DEF q, d, s, Join

LEMMA ExceptOfPart ==
    ASSUME NEW X, NEW a \in Seq(X), NEW b \in Seq(X), NEW c \in Seq(X), NEW k \in 1..Len(b), NEW x \in X
    PROVE  /\ [a \o b \o c EXCEPT ![Len(a) + k] = x] = a \o [b EXCEPT ![k] = x] \o c
           /\ Len(a) + k \in 1..Len(a \o b \o c)
<1> DEFINE s == a \o b \o c
           d == [b EXCEPT ![k] = x]
           n == Len(a) + k
           q == [s EXCEPT ![n] = x]
<1>0. Len(a) \in Nat /\ Len(b) \in Nat /\ Len(c) \in Nat /\ k \in Nat /\ k >= 1 /\ k <= Len(b)
  OBVIOUS
<1>1. IsJoin(X, s, a, b, c)
  BY JoinIs
<1> HIDE DEF s
<1>2. /\ d \in Seq(X) /\ Len(d) = Len(b)
      /\ \A i \in 1..Len(b) : d[i] = IF i = k THEN x ELSE b[i]
  BY ExceptSeq
<1> HIDE DEF d
<1>3. s \in Seq(X) /\ n \in 1..Len(s) /\ Len(s) = Len(a) + Len(b) + Len(c)
  BY <1>0, <1>1 DEF IsJoin
<1>4. /\ q \in Seq(X) /\ Len(q) = Len(s)
      /\ \A i \in 1..Len(s) : q[i] = IF i = n THEN x ELSE s[i]
  <2> HIDE DEF n
  <2>1. QED BY <1>3, ExceptSeq
<1> HIDE DEF q
<1>5. Len(q) = Len(a) + Len(d) + Len(c) /\ Len(d) \in Nat
  BY <1>0, <1>2, <1>3, <1>4
<1>6. ASSUME NEW i \in 1..Len(a) PROVE q[i] = a[i]
  <2>1. i \in 1..Len(s) /\ i # n
    BY <1>0, <1>3
  <2>2. q[i] = s[i]
    BY <1>4, <2>1
  <2>3. QED BY <1>1, <2>2 DEF IsJoin
<1>7. ASSUME NEW i \in 1..Len(d) PROVE q[Len(a) + i] = d[i]
  <2> DEFINE j == Len(a) + i
  <2>1. j \in 1..Len(s) /\ i \in 1..Len(b) /\ (j = n <=> i = k)
    <3>1. i \in Int /\ i >= 1 /\ i <= Len(b) /\ i \in 1..Len(b)
      BY <1>0, <1>2
    <3>2. j \in 1..Len(s)
      BY <1>0, <1>3, <3>1
    <3>3. j = n <=> i = k
      BY <1>0, <3>1
    <3>4. QED BY <3>1, <3>2, <3>3
  <2>2. s[j] = b[i]
    BY <1>1, <2>1 DEF IsJoin
  <2> HIDE DEF j, n
  <2>4. q[j] = d[i]
    BY <1>2, <1>4, <2>1, <2>2
  <2>5. QED BY <2>4 DEF j
<1>8. ASSUME NEW i \in 1..Len(c) PROVE q[Len(a) + Len(d) + i] = c[i]
  <2> DEFINE j == Len(a) + Len(b) + i
  <2>1. j \in 1..Len(s) /\ j # n /\ Len(a) + Len(d) + i = j
    BY <1>0, <1>2, <1>3
  <2>2. s[j] = c[i]
    BY <1>1 DEF IsJoin
  <2> HIDE DEF j, n
  <2>3. QED BY <1>4, <2>1, <2>2
<1>9. IsJoin(X, q, a, d, c)
  BY <1>4, <1>5, <1>6, <1>7, <1>8 DEF IsJoin
<1>10. q = Join(a, d, c)
  BY <1>2, <1>4, <1>9, JoinSame
<1>11. QED BY <1>3, <1>10 DEF q, d, s, Join

-----------------------------------------------------------------------------
(* The creatures that a player sees                                        *)

\* f says of each prefix of the list what of it is visible.
IsVisible(f, v, list, h) ==
    /\ f \in [0..Len(list) -> Seq(Visitors)] /\ f[0] = <<>>
    /\ \A n \in 0..Len(list) - 1 :
          f[n + 1] = IF canSeeCreature(v, list[n + 1], h) THEN <<list[n + 1]>> \o f[n] ELSE f[n]

LEMMA VisibleIs ==
    ASSUME NEW v, NEW h, NEW list \in Seq(Visitors)
    PROVE  \E f : IsVisible(f, v, list, h) /\ Visible(v, list, h) = f[Len(list)]
<1> DEFINE N == Len(list)
           upTo[n \in 0..N] ==
             IF n = 0 THEN <<>>
             ELSE IF canSeeCreature(v, list[n], h) THEN <<list[n]>> \o upTo[n - 1]
             ELSE upTo[n - 1]
           Is(f) == f = [n \in 0..N |-> IF n = 0 THEN <<>>
                        ELSE IF canSeeCreature(v, list[n], h) THEN <<list[n]>> \o f[n - 1] ELSE f[n - 1]]
           step == [p \in (0..N-1) \X Seq(Visitors) |->
                      IF canSeeCreature(v, list[p[1] + 1], h) THEN <<list[p[1] + 1]>> \o p[2] ELSE p[2]]
<1>0. Visible(v, list, h) = upTo[N]
  BY DEF Visible
<1>1. N \in Nat /\ \A n \in 0..N-1 : n + 1 \in 1..N /\ list[n + 1] \in Visitors
  OBVIOUS
<1>2. step \in [(0..N-1) \X Seq(Visitors) -> Seq(Visitors)]
  BY <1>1
<1>3. \A n \in 0..N-1, q \in Seq(Visitors) :
        step[<<n, q>>] = IF canSeeCreature(v, list[n + 1], h) THEN <<list[n + 1]>> \o q ELSE q
  OBVIOUS
<1> HIDE DEF step
<1>4. PICK t : /\ t \in [0..N -> Seq(Visitors)] /\ t[0] = <<>> /\ \A n \in 0..N-1 : t[n + 1] = step[<<n, t[n]>>]
  <2>1. Advances(step, N, Seq(Visitors)) /\ <<>> \in Seq(Visitors)
    BY <1>2 DEF Advances
  <2>2. \E t : Follows(t, N, Seq(Visitors), <<>>, step)
    BY <1>1, <2>1, Recursion
  <2>3. QED BY <2>2 DEF Follows
<1> HIDE DEF N
<1>5. ASSUME NEW n \in 0..N-1
      PROVE  t[n + 1] = IF canSeeCreature(v, list[n + 1], h) THEN <<list[n + 1]>> \o t[n] ELSE t[n]
  <2>1. n \in 0..N /\ t[n] \in Seq(Visitors)
    BY <1>1, <1>4
  <2>2. QED BY <1>3, <1>4, <2>1
<1>6. Is(t)
  <2>1. ASSUME NEW n \in 0..N
        PROVE  t[n] = IF n = 0 THEN <<>>
                      ELSE IF canSeeCreature(v, list[n], h) THEN <<list[n]>> \o t[n - 1] ELSE t[n - 1]
    <3>1. n # 0 => n - 1 \in 0..N-1 /\ (n - 1) + 1 = n
      BY <1>1
    <3>2. QED BY <1>4, <1>5, <3>1
  <2>2. QED BY <1>4, <2>1
<1>7. Is(upTo)
  <2>1. upTo = CHOOSE f : Is(f)
    OBVIOUS
  <2>2. QED BY <1>6, <2>1
<1> HIDE DEF upTo
<1>8. upTo = t
  <2>1. \A n \in Nat : n <= N => upTo[n] = t[n]
    <3> DEFINE T == {n \in Nat : n <= N => upTo[n] = t[n]}
    <3>1. 0 \in T
      BY <1>1, <1>4, <1>7
    <3>2. ASSUME NEW n \in Nat, n \in T PROVE n + 1 \in T
      <4>1. CASE n + 1 <= N
        <5>1. n \in 0..N-1 /\ n + 1 \in 0..N /\ n + 1 # 0 /\ (n + 1) - 1 = n /\ n <= N
          BY <1>1, <4>1
        <5>2. upTo[n + 1] = IF canSeeCreature(v, list[n + 1], h) THEN <<list[n + 1]>> \o upTo[n] ELSE upTo[n]
          BY <1>7, <5>1
        <5>3. upTo[n] = t[n]
          BY <3>2, <5>1
        <5>4. QED BY <1>5, <5>1, <5>2, <5>3
      <4>2. QED BY <4>1
    <3> HIDE DEF T
    <3>3. \A n \in Nat : n \in T
      BY <3>1, <3>2, SetOfNaturals
    <3>4. QED BY <3>3 DEF T
  <2>2. \A n \in 0..N : upTo[n] = t[n]
    BY <1>1, <2>1
  <2>3. upTo = [n \in 0..N |-> upTo[n]]
    BY <1>7
  <2>4. QED BY <1>4, <2>2, <2>3
<1>9. IsVisible(t, v, list, h)
  BY <1>4, <1>5 DEF IsVisible, N
<1>10. QED BY <1>0, <1>8, <1>9 DEF N

\* Two lists begin with the same m creatures, and two players see the same of them.
SameSeen(m, v, g, list, u, h, other) ==
    /\ m \in Nat /\ m <= Len(list) /\ m <= Len(other)
    /\ \A i \in 1..m : /\ list[i] = other[i]
                       /\ canSeeCreature(v, list[i], g) = canSeeCreature(u, list[i], h)

LEMMA VisibleSame ==
    ASSUME NEW v, NEW u, NEW g, NEW h, NEW list \in Seq(Visitors), NEW other \in Seq(Visitors),
           NEW e, NEW f, IsVisible(e, v, list, g), IsVisible(f, u, other, h),
           NEW m, SameSeen(m, v, g, list, u, h, other)
    PROVE  e[m] = f[m]
<1> DEFINE T == {n \in Nat : n <= m => e[n] = f[n]}
<1>0. m \in Nat /\ m <= Len(list) /\ m <= Len(other) /\ Len(list) \in Nat /\ Len(other) \in Nat
  BY DEF SameSeen
<1>1. 0 \in T
  BY DEF IsVisible
<1>2. ASSUME NEW n \in Nat, n \in T PROVE n + 1 \in T
  <2> SUFFICES ASSUME n + 1 <= m PROVE e[n + 1] = f[n + 1]
    OBVIOUS
  <2>1. n \in 0..Len(list) - 1 /\ n \in 0..Len(other) - 1 /\ n + 1 \in 1..m /\ e[n] = f[n]
    BY <1>0, <1>2
  <2>2. /\ list[n + 1] = other[n + 1]
        /\ canSeeCreature(v, list[n + 1], g) = canSeeCreature(u, list[n + 1], h)
    BY <2>1 DEF SameSeen
  <2>3. e[n + 1] = IF canSeeCreature(v, list[n + 1], g) THEN <<list[n + 1]>> \o e[n] ELSE e[n]
    BY <2>1 DEF IsVisible
  <2>4. f[n + 1] = IF canSeeCreature(u, other[n + 1], h) THEN <<other[n + 1]>> \o f[n] ELSE f[n]
    BY <2>1 DEF IsVisible
  <2>5. QED BY <2>1, <2>2, <2>3, <2>4
<1> HIDE DEF T
<1>3. \A n \in Nat : n \in T
  BY <1>1, <1>2, SetOfNaturals
<1>4. QED BY <1>0, <1>3 DEF T

LEMMA VisibleType ==
    ASSUME NEW v, NEW h, NEW list \in Seq(Visitors)
    PROVE  Visible(v, list, h) \in Seq(Visitors) /\ (list = <<>> => Visible(v, list, h) = <<>>)
<1>1. PICK f : IsVisible(f, v, list, h) /\ Visible(v, list, h) = f[Len(list)]
  BY VisibleIs
<1>2. Len(list) \in 0..Len(list) /\ (list = <<>> => Len(list) = 0)
  OBVIOUS
<1>3. QED BY <1>1, <1>2 DEF IsVisible

LEMMA VisibleAppend ==
    ASSUME NEW v, NEW h, NEW list \in Seq(Visitors), NEW c \in Visitors
    PROVE  Visible(v, Append(list, c), h) =
             IF canSeeCreature(v, c, h) THEN <<c>> \o Visible(v, list, h) ELSE Visible(v, list, h)
<1> DEFINE q == Append(list, c)
           n == Len(list)
<1>1. /\ q \in Seq(Visitors) /\ Len(q) = n + 1 /\ n \in Nat /\ q[n + 1] = c
      /\ \A i \in 1..n : q[i] = list[i]
  OBVIOUS
<1> HIDE DEF q
<1>2. PICK e : IsVisible(e, v, list, h) /\ Visible(v, list, h) = e[n]
  BY VisibleIs
<1>3. PICK f : IsVisible(f, v, q, h) /\ Visible(v, q, h) = f[n + 1]
  BY <1>1, VisibleIs
<1>4. n <= Len(list) /\ n <= Len(q) /\ n \in 0..Len(q) - 1
  BY <1>1
<1>5. e[n] = f[n]
  <2> HIDE DEF n
  <2>1. SameSeen(n, v, h, list, v, h, q)
    BY <1>1, <1>4 DEF SameSeen
  <2>2. QED BY <1>1, <1>2, <1>3, <1>4, <2>1, VisibleSame
<1>6. f[n + 1] = IF canSeeCreature(v, q[n + 1], h) THEN <<q[n + 1]>> \o f[n] ELSE f[n]
  BY <1>3, <1>4 DEF IsVisible
<1>7. QED BY <1>1, <1>2, <1>3, <1>5, <1>6 DEF q

\* Who comes later in the vector is seen first.
LEMMA VisibleConcat ==
    ASSUME NEW v, NEW h, NEW a \in Seq(Visitors), NEW b \in Seq(Visitors)
    PROVE  Visible(v, a \o b, h) = Visible(v, b, h) \o Visible(v, a, h)
<1> DEFINE Fits(q) == Visible(v, a \o q, h) = Visible(v, q, h) \o Visible(v, a, h)
           T == {n \in Nat : \A q \in Seq(Visitors) : Len(q) = n => Fits(q)}
<1>0. Visible(v, a, h) \in Seq(Visitors)
  BY VisibleType
<1>1. 0 \in T
  <2> SUFFICES ASSUME NEW q \in Seq(Visitors), Len(q) = 0 PROVE Fits(q)
    OBVIOUS
  <2>1. q = <<>> /\ a \o <<>> = a
    BY ConcatEmptySeq
  <2>2. Visible(v, q, h) = <<>>
    BY <2>1, VisibleType
  <2>3. <<>> \o Visible(v, a, h) = Visible(v, a, h)
    BY <1>0, ConcatEmptySeq
  <2>4. QED BY <2>1, <2>2, <2>3
<1>2. ASSUME NEW n \in Nat, n \in T PROVE n + 1 \in T
  <2> SUFFICES ASSUME NEW q \in Seq(Visitors), Len(q) = n + 1 PROVE Fits(q)
    <3> HIDE DEF Fits
    <3>1. QED OBVIOUS
  <2>1. PICK p \in Seq(Visitors), c \in Visitors : q = Append(p, c)
    <3>1. q # <<>>
      OBVIOUS
    <3>2. QED BY <3>1, SequenceEmptyOrAppend
  <2>2. Len(p) = n
    BY <2>1
  <2>3. Visible(v, a \o p, h) = Visible(v, p, h) \o Visible(v, a, h)
    BY <1>2, <2>2
  <2>4. a \o q = Append(a \o p, c) /\ a \o p \in Seq(Visitors)
    BY <2>1
  <2>5. Visible(v, a \o q, h) = IF canSeeCreature(v, c, h) THEN <<c>> \o Visible(v, a \o p, h)
                                ELSE Visible(v, a \o p, h)
    BY <2>4, VisibleAppend
  <2>6. Visible(v, q, h) = IF canSeeCreature(v, c, h) THEN <<c>> \o Visible(v, p, h) ELSE Visible(v, p, h)
    BY <2>1, VisibleAppend
  <2>7. Visible(v, p, h) \in Seq(Visitors) /\ <<c>> \in Seq(Visitors)
    BY VisibleType
  <2>8. (<<c>> \o Visible(v, p, h)) \o Visible(v, a, h) = <<c>> \o (Visible(v, p, h) \o Visible(v, a, h))
    BY <1>0, <2>7, ConcatAssociative
  <2>9. QED BY <2>3, <2>5, <2>6, <2>8
<1> HIDE DEF T
<1>3. \A n \in Nat : n \in T
  BY <1>1, <1>2, SetOfNaturals
<1>4. Len(b) \in T
  BY <1>3
<1>5. QED BY <1>4 DEF T

LEMMA VisibleOne ==
    ASSUME NEW v, NEW h, NEW c \in Visitors
    PROVE  Visible(v, <<c>>, h) = IF canSeeCreature(v, c, h) THEN <<c>> ELSE <<>>
<1>1. <<>> \in Seq(Visitors) /\ <<c>> = Append(<<>>, c)
  OBVIOUS
<1>2. Visible(v, <<>>, h) = <<>>
  BY <1>1, VisibleType
<1>3. <<c>> \o <<>> = <<c>>
  OBVIOUS
<1>4. QED BY <1>1, <1>2, <1>3, VisibleAppend

\* Nothing else becomes visible or hidden if of none in the list it changes.
LEMMA VisibleKept ==
    ASSUME NEW v, NEW g, NEW h, NEW list \in Seq(Visitors),
           \A i \in 1..Len(list) : canSeeCreature(v, list[i], g) = canSeeCreature(v, list[i], h)
    PROVE  Visible(v, list, g) = Visible(v, list, h)
<1>1. PICK e : IsVisible(e, v, list, g) /\ Visible(v, list, g) = e[Len(list)]
  BY VisibleIs
<1>2. PICK f : IsVisible(f, v, list, h) /\ Visible(v, list, h) = f[Len(list)]
  BY VisibleIs
<1>3. SameSeen(Len(list), v, g, list, v, h, list)
  BY DEF SameSeen
<1>4. QED BY <1>1, <1>2, <1>3, VisibleSame

\* The list around one of its creatures.
LEMMA AroundOne ==
    ASSUME NEW X, NEW list \in Seq(X), NEW k \in 1..Len(list)
    PROVE  /\ SubSeq(list, 1, k - 1) \in Seq(X) /\ SubSeq(list, k + 1, Len(list)) \in Seq(X)
           /\ list[k] \in X
           /\ list = SubSeq(list, 1, k - 1) \o (<<list[k]>> \o SubSeq(list, k + 1, Len(list)))
           /\ RemoveAt(list, k) = SubSeq(list, 1, k - 1) \o SubSeq(list, k + 1, Len(list))
<1> DEFINE a == SubSeq(list, 1, k - 1)
           b == SubSeq(list, k + 1, Len(list))
           c == SubSeq(list, k, Len(list))
<1>1. a \in Seq(X) /\ b \in Seq(X) /\ list[k] \in X
  OBVIOUS
<1>2. c = <<list[k]>> \o b
  BY SubSeqRecursiveFirst
<1>3. a \o c = list
  <2>1. /\ 1 \in 1..Len(list) + 1 /\ k - 1 \in 1 - 1..Len(list) /\ Len(list) \in k - 1..Len(list)
        /\ (k - 1) + 1 = k
    OBVIOUS
  <2>2. SubSeq(list, 1, k - 1) \o SubSeq(list, (k - 1) + 1, Len(list)) = SubSeq(list, 1, Len(list))
    BY <2>1, ConcatAdjacentSubSeq
  <2>3. QED BY <2>1, <2>2, SubSeqFull
<1>4. QED BY <1>1, <1>2, <1>3 DEF RemoveAt

\* What is seen of a list before and behind its k-th creature, in the order of the client,
\* with it and without it.
SeenBefore(v, list, k, h) == Visible(v, SubSeq(list, k + 1, Len(list)), h)
SeenBehind(v, list, k, h) == Visible(v, SubSeq(list, 1, k - 1), h)
SeenAround(v, list, k, h) ==
    /\ SeenBefore(v, list, k, h) \in Seq(Visitors) /\ SeenBehind(v, list, k, h) \in Seq(Visitors)
    /\ Visible(v, list, h) = SeenBefore(v, list, k, h)
          \o (IF canSeeCreature(v, list[k], h) THEN <<list[k]>> ELSE <<>>) \o SeenBehind(v, list, k, h)
    /\ Visible(v, RemoveAt(list, k), h) = SeenBefore(v, list, k, h) \o SeenBehind(v, list, k, h)

LEMMA VisibleAround ==
    ASSUME NEW v, NEW h, NEW list \in Seq(Visitors), NEW k \in 1..Len(list)
    PROVE  SeenAround(v, list, k, h)
<1> DEFINE a == SubSeq(list, 1, k - 1)
           b == SubSeq(list, k + 1, Len(list))
           x == <<list[k]>>
           one == IF canSeeCreature(v, list[k], h) THEN x ELSE <<>>
<1>1. /\ a \in Seq(Visitors) /\ b \in Seq(Visitors) /\ list[k] \in Visitors
      /\ list = a \o (x \o b) /\ RemoveAt(list, k) = a \o b
  BY AroundOne
<1>2. x \in Seq(Visitors) /\ x \o b \in Seq(Visitors)
  <2>1. x \in Seq(Visitors)
    <3>1. list[k] \in Visitors
      BY <1>1
    <3>2. QED BY <3>1
  <2>2. QED BY <1>1, <2>1, ConcatProperties
<1>3. Visible(v, x, h) = one
  BY <1>1, VisibleOne
<1>4. Visible(v, a, h) \in Seq(Visitors) /\ Visible(v, b, h) \in Seq(Visitors)
  BY <1>1, VisibleType
<1> HIDE DEF a, b, x
<1>5. Visible(v, a \o (x \o b), h) = Visible(v, x \o b, h) \o Visible(v, a, h)
  BY <1>1, <1>2, VisibleConcat
<1>6. Visible(v, x \o b, h) = Visible(v, b, h) \o Visible(v, x, h)
  BY <1>1, <1>2, VisibleConcat
<1>7. Visible(v, a \o b, h) = Visible(v, b, h) \o Visible(v, a, h)
  BY <1>1, VisibleConcat
<1>8. QED BY <1>1, <1>3, <1>4, <1>5, <1>6, <1>7 DEF a, b, x, SeenAround, SeenBefore, SeenBehind

-----------------------------------------------------------------------------
(* The stack of a tile and its four parts                                  *)

Things == Grounds \cup TopItems \cup Visitors \cup DownItems
TileRecs == [ground : Grounds \cup {NoGround}, top : Seq(TopItems), creatures : Seq(Visitors), down : Seq(DownItems)]

Part(v, T, h, part) ==
    CASE part = "ground" -> Ground(T)
      [] part = "top" -> T.top
      [] part = "creatures" -> Visible(v, T.creatures, h)
      [] part = "down" -> T.down
Before(v, T, h, part) ==
    CASE part = "ground" -> <<>>
      [] part = "top" -> Ground(T)
      [] part = "creatures" -> Ground(T) \o T.top
      [] part = "down" -> Ground(T) \o T.top \o Visible(v, T.creatures, h)
After(v, T, h, part) ==
    CASE part = "ground" -> T.top \o Visible(v, T.creatures, h) \o T.down
      [] part = "top" -> Visible(v, T.creatures, h) \o T.down
      [] part = "creatures" -> T.down
      [] part = "down" -> <<>>

LEMMA PartsAre ==
    ASSUME NEW v, NEW h, NEW T \in TileRecs
    PROVE  /\ Ground(T) \in Seq(Things) /\ Len(Ground(T)) = (IF T.ground = NoGround THEN 0 ELSE 1)
           /\ T.top \in Seq(Things) /\ T.down \in Seq(Things) /\ Visible(v, T.creatures, h) \in Seq(Things)
<1>1. T.ground \in Grounds \cup {NoGround} /\ T.top \in Seq(TopItems) /\ T.down \in Seq(DownItems)
      /\ T.creatures \in Seq(Visitors)
  BY DEF TileRecs
<1>2. TopItems \subseteq Things /\ DownItems \subseteq Things /\ Visitors \subseteq Things /\ Grounds \subseteq Things
  BY DEF Things
<1>3. T.top \in Seq(Things) /\ T.down \in Seq(Things)
  BY <1>1, <1>2, SeqMonotonic
<1>4. Visible(v, T.creatures, h) \in Seq(Things)
  BY <1>1, <1>2, VisibleType, SeqMonotonic
<1>5. Ground(T) \in Seq(Things) /\ Len(Ground(T)) = (IF T.ground = NoGround THEN 0 ELSE 1)
  BY <1>1, <1>2 DEF Ground
<1>6. QED BY <1>3, <1>4, <1>5

\* The stack is what is before a part, the part, and what is behind it.
LEMMA StackIs ==
    ASSUME NEW v, NEW h, NEW T \in TileRecs, NEW part \in {"ground", "top", "creatures", "down"}
    PROVE  /\ Before(v, T, h, part) \in Seq(Things) /\ Part(v, T, h, part) \in Seq(Things)
           /\ After(v, T, h, part) \in Seq(Things)
           /\ Stack(v, T, h) = Join(Before(v, T, h, part), Part(v, T, h, part), After(v, T, h, part))
<1> DEFINE g == Ground(T)
           t == T.top
           c == Visible(v, T.creatures, h)
           d == T.down
<1>1. g \in Seq(Things) /\ t \in Seq(Things) /\ c \in Seq(Things) /\ d \in Seq(Things)
  BY PartsAre
<1>2. Stack(v, T, h) = g \o t \o c \o d
  BY DEF Stack
<1>3. CASE part = "ground"
  <2>1. Before(v, T, h, part) = <<>> /\ Part(v, T, h, part) = g /\ After(v, T, h, part) = t \o c \o d
    BY <1>3 DEF Before, Part, After
  <2> HIDE DEF g, t, c, d
  <2>2. t \o c \in Seq(Things) /\ t \o c \o d \in Seq(Things)
    <3>1. t \o c \in Seq(Things)
      BY <1>1, ConcatProperties
    <3>2. QED BY <1>1, <3>1, ConcatProperties
  <2>3. <<>> \o g = g /\ <<>> \in Seq(Things)
    BY <1>1, ConcatEmptySeq
  <2>4. (g \o t) \o c = g \o (t \o c)
    BY <1>1, ConcatAssociative
  <2>5. (g \o (t \o c)) \o d = g \o ((t \o c) \o d)
    BY <1>1, <2>2, ConcatAssociative
  <2>6. QED BY <1>1, <1>2, <2>1, <2>2, <2>3, <2>4, <2>5 DEF Join
<1>4. CASE part = "top"
  <2>1. Before(v, T, h, part) = g /\ Part(v, T, h, part) = t /\ After(v, T, h, part) = c \o d
    BY <1>4 DEF Before, Part, After
  <2> HIDE DEF g, t, c, d
  <2>2. c \o d \in Seq(Things) /\ g \o t \in Seq(Things)
    BY <1>1, ConcatProperties
  <2>3. ((g \o t) \o c) \o d = (g \o t) \o (c \o d)
    <3> DEFINE gt == g \o t
    <3>1. gt \in Seq(Things)
      BY <2>2
    <3> HIDE DEF gt
    <3>2. (gt \o c) \o d = gt \o (c \o d)
      BY <1>1, <3>1, ConcatAssociative, SMTT(30)
    <3>3. QED BY <3>2 DEF gt
  <2>4. QED BY <1>1, <1>2, <2>1, <2>2, <2>3 DEF Join
<1>5. CASE part = "creatures"
  <2>1. Before(v, T, h, part) = g \o t /\ Part(v, T, h, part) = c /\ After(v, T, h, part) = d
    BY <1>5 DEF Before, Part, After
  <2> HIDE DEF g, t, c, d
  <2>2. g \o t \in Seq(Things)
    BY <1>1, ConcatProperties
  <2>3. QED BY <1>1, <1>2, <2>1, <2>2 DEF Join
<1>6. CASE part = "down"
  <2>1. Before(v, T, h, part) = g \o t \o c /\ Part(v, T, h, part) = d /\ After(v, T, h, part) = <<>>
    BY <1>6 DEF Before, Part, After
  <2> HIDE DEF g, t, c, d
  <2>2. g \o t \in Seq(Things)
    BY <1>1, ConcatProperties
  <2>3. g \o t \o c \in Seq(Things)
    BY <1>1, <2>2, ConcatProperties
  <2>4. g \o t \o c \o d \in Seq(Things)
    BY <1>1, <2>3, ConcatProperties
  <2>5. (g \o t \o c \o d) \o <<>> = g \o t \o c \o d /\ <<>> \in Seq(Things)
    BY <2>4, ConcatEmptySeq
  <2>6. QED BY <1>1, <1>2, <2>1, <2>3, <2>5 DEF Join
<1>7. QED BY <1>3, <1>4, <1>5, <1>6

\* A tile that differs in one part has the same before and behind it.
SameBut(T, U, part) ==
    /\ part # "ground" => U.ground = T.ground
    /\ part # "top" => U.top = T.top
    /\ part # "creatures" => U.creatures = T.creatures
    /\ part # "down" => U.down = T.down

LEMMA OtherParts ==
    ASSUME NEW v, NEW h, NEW T \in TileRecs, NEW U \in TileRecs,
           NEW part \in {"ground", "top", "creatures", "down"},
           SameBut(T, U, part)
    PROVE  Before(v, U, h, part) = Before(v, T, h, part) /\ After(v, U, h, part) = After(v, T, h, part)
BY DEF SameBut, Before, After, Ground

InPart(part, i) == i \in Nat /\ (part = "ground" => i = 1)

\* The place of an item is how far it comes behind what is before its part.
LEMMA ItemIndex ==
    ASSUME NEW v, NEW h, NEW T \in TileRecs, NEW part \in {"ground", "top", "down"}, NEW i,
           InPart(part, i)
    PROVE  getClientIndexOfThing(v, T, h, Place(part, i)) = Len(Before(v, T, h, part)) + i - 1
<1>1. Ground(T) \in Seq(Things) /\ T.top \in Seq(Things) /\ Visible(v, T.creatures, h) \in Seq(Things)
  BY PartsAre
<1>2. Len(Ground(T) \o T.top) = Len(Ground(T)) + Len(T.top) /\ Ground(T) \o T.top \in Seq(Things)
  BY <1>1
<1>3. Len(Ground(T) \o T.top \o Visible(v, T.creatures, h))
        = Len(Ground(T)) + Len(T.top) + Len(Visible(v, T.creatures, h))
  BY <1>1, <1>2
<1>4. Len(<<>>) = 0
  OBVIOUS
<1>5. Place(part, i).part = part /\ Place(part, i).at = i
  BY DEF Place
<1>6. CASE part = "ground"
  BY <1>4, <1>5, <1>6 DEF InPart, getClientIndexOfThing, Before
<1>7. CASE part = "top"
  BY <1>5, <1>7 DEF getClientIndexOfThing, Before
<1>8. CASE part = "down"
  BY <1>3, <1>5, <1>8 DEF getClientIndexOfThing, Before
<1>9. QED BY <1>6, <1>7, <1>8

-----------------------------------------------------------------------------
(* What a change of a tile is for its stack                                *)

Kinds(part) == CASE part = "ground" -> Grounds [] part = "top" -> TopItems [] part = "down" -> DownItems

\* Where entry k of a part comes in the stack of T.
At(v, T, h, part, k) == Len(Before(v, T, h, part)) + k

\* A part with an entry more, one less, or another in its place.
LEMMA PartGets ==
    ASSUME NEW v, NEW h, NEW T \in TileRecs, NEW U \in TileRecs,
           NEW part \in {"ground", "top", "creatures", "down"}, SameBut(T, U, part),
           NEW k \in 0..Len(Part(v, T, h, part)), NEW x \in Things,
           Part(v, U, h, part) = Ins(Part(v, T, h, part), k, x)
    PROVE  /\ At(v, T, h, part, k) \in 0..Len(Stack(v, T, h)) /\ At(v, U, h, part, k) = At(v, T, h, part, k)
           /\ Stack(v, U, h) = Ins(Stack(v, T, h), At(v, T, h, part, k), x)
<1> DEFINE a == Before(v, T, h, part)
           b == Part(v, T, h, part)
           c == After(v, T, h, part)
<1>1. Before(v, U, h, part) = a /\ After(v, U, h, part) = c
  BY OtherParts
<1>2. a \in Seq(Things) /\ b \in Seq(Things) /\ c \in Seq(Things) /\ Stack(v, T, h) = Join(a, b, c)
  BY StackIs
<1>3. Stack(v, U, h) = Join(Before(v, U, h, part), Part(v, U, h, part), After(v, U, h, part))
  BY StackIs
<1>4. k \in 0..Len(b) /\ Part(v, U, h, part) = Ins(b, k, x)
  OBVIOUS
<1> HIDE DEF a, b, c
<1>5. Ins(a \o b \o c, Len(a) + k, x) = a \o Ins(b, k, x) \o c /\ Len(a) + k \in 0..Len(a \o b \o c)
  BY <1>2, <1>4, InsOfPart
<1>6. QED BY <1>1, <1>2, <1>3, <1>4, <1>5 DEF Join, At, a

LEMMA PartLoses ==
    ASSUME NEW v, NEW h, NEW T \in TileRecs, NEW U \in TileRecs,
           NEW part \in {"ground", "top", "creatures", "down"}, SameBut(T, U, part),
           NEW k \in 1..Len(Part(v, T, h, part)),
           Part(v, U, h, part) = RemoveAt(Part(v, T, h, part), k)
    PROVE  /\ At(v, T, h, part, k) \in 1..Len(Stack(v, T, h))
           /\ Stack(v, U, h) = RemoveAt(Stack(v, T, h), At(v, T, h, part, k))
<1> DEFINE a == Before(v, T, h, part)
           b == Part(v, T, h, part)
           c == After(v, T, h, part)
<1>1. Before(v, U, h, part) = a /\ After(v, U, h, part) = c
  BY OtherParts
<1>2. a \in Seq(Things) /\ b \in Seq(Things) /\ c \in Seq(Things) /\ Stack(v, T, h) = Join(a, b, c)
  BY StackIs
<1>3. Stack(v, U, h) = Join(Before(v, U, h, part), Part(v, U, h, part), After(v, U, h, part))
  BY StackIs
<1>4. k \in 1..Len(b) /\ Part(v, U, h, part) = RemoveAt(b, k)
  OBVIOUS
<1> HIDE DEF a, b, c
<1>5. RemoveAt(a \o b \o c, Len(a) + k) = a \o RemoveAt(b, k) \o c /\ Len(a) + k \in 1..Len(a \o b \o c)
  BY <1>2, <1>4, RemoveOfPart
<1>6. QED BY <1>1, <1>2, <1>3, <1>4, <1>5 DEF Join, At, a

LEMMA PartChanges ==
    ASSUME NEW v, NEW h, NEW T \in TileRecs, NEW U \in TileRecs,
           NEW part \in {"ground", "top", "creatures", "down"}, SameBut(T, U, part),
           NEW k \in 1..Len(Part(v, T, h, part)), NEW x \in Things,
           Part(v, U, h, part) = [Part(v, T, h, part) EXCEPT ![k] = x]
    PROVE  /\ At(v, T, h, part, k) \in 1..Len(Stack(v, T, h)) /\ At(v, U, h, part, k) = At(v, T, h, part, k)
           /\ Stack(v, U, h) = [Stack(v, T, h) EXCEPT ![At(v, T, h, part, k)] = x]
<1> DEFINE a == Before(v, T, h, part)
           b == Part(v, T, h, part)
           c == After(v, T, h, part)
<1>1. Before(v, U, h, part) = a /\ After(v, U, h, part) = c
  BY OtherParts
<1>2. a \in Seq(Things) /\ b \in Seq(Things) /\ c \in Seq(Things) /\ Stack(v, T, h) = Join(a, b, c)
  BY StackIs
<1>3. Stack(v, U, h) = Join(Before(v, U, h, part), Part(v, U, h, part), After(v, U, h, part))
  BY StackIs
<1>4. k \in 1..Len(b) /\ Part(v, U, h, part) = [b EXCEPT ![k] = x]
  OBVIOUS
<1> HIDE DEF a, b, c
<1>5. [a \o b \o c EXCEPT ![Len(a) + k] = x] = a \o [b EXCEPT ![k] = x] \o c /\ Len(a) + k \in 1..Len(a \o b \o c)
  BY <1>2, <1>4, ExceptOfPart
<1>6. QED BY <1>1, <1>2, <1>3, <1>4, <1>5 DEF Join, At, a

LEMMA ItemAt ==
    ASSUME NEW v, NEW h, NEW T \in TileRecs, NEW part \in {"ground", "top", "down"}, NEW i, InPart(part, i)
    PROVE  getClientIndexOfThing(v, T, h, Place(part, i)) = At(v, T, h, part, i) - 1
<1>1. getClientIndexOfThing(v, T, h, Place(part, i)) = Len(Before(v, T, h, part)) + i - 1
  BY ItemIndex
<1>2. i \in Int /\ Len(Before(v, T, h, part)) \in Int
  BY StackIs DEF InPart
<1>3. QED BY <1>1, <1>2 DEF At

LEMMA StackType ==
    ASSUME NEW v, NEW h, NEW T \in TileRecs
    PROVE  Stack(v, T, h) \in Seq(Things)
<1> DEFINE a == Before(v, T, h, "down")
           b == Part(v, T, h, "down")
           c == After(v, T, h, "down")
<1>1. a \in Seq(Things) /\ b \in Seq(Things) /\ c \in Seq(Things) /\ Stack(v, T, h) = Join(a, b, c)
  BY StackIs
<1> HIDE DEF a, b, c
<1>2. IsJoin(Things, Join(a, b, c), a, b, c)
  BY <1>1, JoinIs DEF Join
<1>3. QED BY <1>1, <1>2 DEF IsJoin

-----------------------------------------------------------------------------
(* What an item that comes, goes or changes is for the copies              *)

\* An item comes to place i of a part.
Comes(T, U, part, i, x) ==
    \/ /\ part \in {"top", "down"} /\ i \in 1..Len(T[part]) + 1 /\ U = [T EXCEPT ![part] = InsertAt(@, i, x)]
    \/ part = "ground" /\ i = 1 /\ T.ground = NoGround /\ U = [T EXCEPT !.ground = x]

LEMMA ItemComes ==
    ASSUME ViewAssumption, NEW v, NEW h, NEW T \in TileRecs, NEW U \in TileRecs,
           NEW part, NEW i, NEW x \in Things, Comes(T, U, part, i, x), part = "ground" => x # NoGround
    PROVE  Added(GetTileDescription(v, T, h), getClientIndexOfThing(v, U, h, Place(part, i)), x)
             = GetTileDescription(v, U, h)
<1> DEFINE k == i - 1
           s == Stack(v, T, h)
<1>1. /\ part \in {"ground", "top", "down"} /\ part \in {"ground", "top", "creatures", "down"}
      /\ InPart(part, i) /\ k + 1 = i /\ SameBut(T, U, part)
  BY DEF Comes, InPart, SameBut, TileRecs
<1>2. k \in 0..Len(Part(v, T, h, part)) /\ Part(v, U, h, part) = Ins(Part(v, T, h, part), k, x)
  <2>1. CASE part = "ground"
    <3>1. Part(v, T, h, part) = <<>> /\ Part(v, U, h, part) = <<x>> /\ k = 0
      BY <2>1 DEF Comes, Part, Ground, TileRecs
    <3>2. Ins(<<>>, 0, x) = <<x>> /\ 0 \in 0..Len(<<>>)
      <4>1. IsIns(Things, Ins(<<>>, 0, x), <<>>, 0, x)
        <5>1. <<>> \in Seq(Things) /\ 0 \in 0..Len(<<>>)
          OBVIOUS
        <5>2. QED BY <5>1, InsIs
      <4>2. Ins(<<>>, 0, x) \in Seq(Things) /\ Len(Ins(<<>>, 0, x)) = 1 /\ Ins(<<>>, 0, x)[1] = x
        BY <4>1 DEF IsIns
      <4>3. QED BY <4>2
    <3>3. QED BY <3>1, <3>2
  <2>2. CASE part \in {"top", "down"}
    <3>1. Part(v, T, h, part) = T[part] /\ Part(v, U, h, part) = InsertAt(T[part], i, x)
      BY <2>2 DEF Comes, Part, TileRecs
    <3>2. InsertAt(T[part], i, x) = Ins(T[part], k, x)
      BY <1>1 DEF InsertAt, Ins
    <3>3. k \in 0..Len(T[part])
      BY <2>2 DEF Comes, TileRecs
    <3>4. QED BY <3>1, <3>2, <3>3
  <2>3. QED BY <1>1, <2>1, <2>2
<1> HIDE DEF k
<1> DEFINE n == At(v, T, h, part, k)
<1>3. n \in 0..Len(s) /\ At(v, U, h, part, k) = n /\ Stack(v, U, h) = Ins(s, n, x)
  BY <1>1, <1>2, PartGets
<1>4. getClientIndexOfThing(v, U, h, Place(part, i)) = n
  <2>1. getClientIndexOfThing(v, U, h, Place(part, i)) = At(v, U, h, part, i) - 1
    BY <1>1, ItemAt
  <2>2. At(v, U, h, part, i) - 1 = At(v, U, h, part, k)
    BY <1>1, <1>2 DEF At, InPart, k
  <2>3. QED BY <1>3, <2>1, <2>2
<1>5. s \in Seq(Things)
  BY StackType
<1> HIDE DEF n, s
<1>6. Added(Shown(s), n, x) = Shown(Ins(s, n, x))
  BY <1>3, <1>5, AddedShown
<1>7. QED BY <1>3, <1>4, <1>6 DEF GetTileDescription, s

\* An item goes from place i of a part.
Goes(T, U, part, i) ==
    \/ part \in {"top", "down"} /\ i \in 1..Len(T[part]) /\ U = [T EXCEPT ![part] = RemoveAt(@, i)]
    \/ part = "ground" /\ i = 1 /\ T.ground # NoGround /\ U = [T EXCEPT !.ground = NoGround]

LEMMA ItemGoes ==
    ASSUME ViewAssumption, NEW v, NEW h, NEW T \in TileRecs, NEW U \in TileRecs,
           NEW part, NEW i, Goes(T, U, part, i),
           \/ Len(Stack(v, T, h)) <= Limit
           \/ getClientIndexOfThing(v, T, h, Place(part, i)) >= Limit
    PROVE  Removed(GetTileDescription(v, T, h), getClientIndexOfThing(v, T, h, Place(part, i)))
             = GetTileDescription(v, U, h)
<1> DEFINE s == Stack(v, T, h)
           n == At(v, T, h, part, i)
           k == n - 1
<1>1. /\ part \in {"ground", "top", "down"} /\ part \in {"ground", "top", "creatures", "down"}
      /\ InPart(part, i) /\ SameBut(T, U, part)
  BY DEF Goes, InPart, SameBut, TileRecs
<1>2. i \in 1..Len(Part(v, T, h, part)) /\ Part(v, U, h, part) = RemoveAt(Part(v, T, h, part), i)
  <2>1. CASE part = "ground"
    <3>1. Part(v, T, h, part) = <<T.ground>> /\ Part(v, U, h, part) = <<>> /\ i = 1
      BY <2>1 DEF Goes, Part, Ground, TileRecs
    <3>2. RemoveAt(<<T.ground>>, 1) = <<>> /\ 1 \in 1..Len(<<T.ground>>)
      <4> DEFINE X == {T.ground}
                 q == <<T.ground>>
      <4>1. q \in Seq(X) /\ Len(q) = 1 /\ 1 \in 1..Len(q)
        OBVIOUS
      <4> HIDE DEF X, q
      <4>2. RemoveAt(q, 1) \in Seq(X) /\ Len(RemoveAt(q, 1)) = Len(q) - 1
        BY <4>1, RemoveAtIs
      <4>3. RemoveAt(q, 1) = <<>> /\ 1 \in 1..Len(q)
        BY <4>1, <4>2
      <4>4. QED BY <4>3 DEF q
    <3>3. QED BY <3>1, <3>2
  <2>2. CASE part \in {"top", "down"}
    BY <2>2 DEF Goes, Part, TileRecs
  <2>3. QED BY <1>1, <2>1, <2>2
<1>3. n \in 1..Len(s) /\ Stack(v, U, h) = RemoveAt(s, n)
  BY <1>1, <1>2, PartLoses
<1>4. getClientIndexOfThing(v, T, h, Place(part, i)) = k
  BY <1>1, ItemAt
<1>5. s \in Seq(Things)
  BY StackType
<1>6. Len(s) <= Limit \/ k >= Limit
  BY <1>4
<1> HIDE DEF n, s
<1>7. k \in 0..Len(s) - 1 /\ k + 1 = n
  BY <1>3, <1>5
<1> HIDE DEF k
<1>8. Removed(Shown(s), k) = Shown(RemoveAt(s, k + 1))
  BY <1>5, <1>6, <1>7, RemovedShown
<1>9. QED BY <1>3, <1>4, <1>7, <1>8 DEF GetTileDescription, s

\* There is another item in its place, or the same with other looks.
Changes(T, U, part, i, x) ==
    \/ part \in {"top", "down"} /\ i \in 1..Len(T[part]) /\ U = [T EXCEPT ![part][i] = x]
    \/ /\ part = "ground" /\ i = 1 /\ T.ground # NoGround /\ x # NoGround
       /\ U = [T EXCEPT !.ground = x]

LEMMA ChangedStack ==
    ASSUME ViewAssumption, NEW v, NEW h, NEW T \in TileRecs, NEW U \in TileRecs,
           NEW part, NEW i, NEW x \in Things, Changes(T, U, part, i, x)
    PROVE  /\ getClientIndexOfThing(v, T, h, Place(part, i)) \in 0..Len(Stack(v, T, h)) - 1
           /\ getClientIndexOfThing(v, U, h, Place(part, i)) = getClientIndexOfThing(v, T, h, Place(part, i))
           /\ Stack(v, U, h)
                = [Stack(v, T, h) EXCEPT ![getClientIndexOfThing(v, T, h, Place(part, i)) + 1] = x]
<1> DEFINE s == Stack(v, T, h)
           n == At(v, T, h, part, i)
           k == getClientIndexOfThing(v, T, h, Place(part, i))
<1>1. /\ part \in {"ground", "top", "down"} /\ part \in {"ground", "top", "creatures", "down"}
      /\ InPart(part, i) /\ SameBut(T, U, part)
  BY DEF Changes, InPart, SameBut, TileRecs
<1>2. i \in 1..Len(Part(v, T, h, part)) /\ Part(v, U, h, part) = [Part(v, T, h, part) EXCEPT ![i] = x]
  <2>1. CASE part = "ground"
    <3>1. Part(v, T, h, part) = <<T.ground>> /\ Part(v, U, h, part) = <<x>> /\ i = 1
      BY <2>1 DEF Changes, Part, Ground, TileRecs
    <3>2. QED BY <3>1
  <2>2. CASE part \in {"top", "down"}
    BY <2>2 DEF Changes, Part, TileRecs
  <2>3. QED BY <1>1, <2>1, <2>2
<1>3. n \in 1..Len(s) /\ At(v, U, h, part, i) = n /\ Stack(v, U, h) = [s EXCEPT ![n] = x]
  BY <1>1, <1>2, PartChanges
<1>4. k = n - 1 /\ getClientIndexOfThing(v, U, h, Place(part, i)) = At(v, U, h, part, i) - 1
  BY <1>1, ItemAt
<1>5. s \in Seq(Things)
  BY StackType
<1> HIDE DEF n, s, k
<1>6. k \in 0..Len(s) - 1 /\ k + 1 = n
  BY <1>3, <1>4, <1>5
<1>7. QED BY <1>3, <1>4, <1>6 DEF s, k

LEMMA ItemChanges ==
    ASSUME ViewAssumption, NEW v, NEW h, NEW T \in TileRecs, NEW U \in TileRecs,
           NEW part, NEW i, NEW x \in Things, Changes(T, U, part, i, x)
    PROVE  Updated(GetTileDescription(v, T, h), getClientIndexOfThing(v, U, h, Place(part, i)), x)
             = GetTileDescription(v, U, h)
<1> DEFINE s == Stack(v, T, h)
           k == getClientIndexOfThing(v, T, h, Place(part, i))
<1>1. /\ k \in 0..Len(s) - 1 /\ getClientIndexOfThing(v, U, h, Place(part, i)) = k
      /\ Stack(v, U, h) = [s EXCEPT ![k + 1] = x]
  BY ChangedStack
<1>2. s \in Seq(Things)
  BY StackType
<1> HIDE DEF s, k
<1>3. Updated(Shown(s), k, x) = Shown(Put(s, k, x))
  BY <1>1, <1>2, UpdatedShown
<1>4. QED BY <1>1, <1>3 DEF GetTileDescription, s, Put

\* What is replaced below the part that is shown changes nothing of it.
LEMMA ReplacedBelow ==
    ASSUME ViewAssumption, NEW v, NEW h, NEW T \in TileRecs, NEW U \in TileRecs,
           NEW part, NEW i, NEW x \in Things, Changes(T, U, part, i, x),
           ~ getClientIndexOfThing(v, T, h, Place(part, i)) < Limit
    PROVE  GetTileDescription(v, U, h) = GetTileDescription(v, T, h)
<1> DEFINE s == Stack(v, T, h)
           k == getClientIndexOfThing(v, T, h, Place(part, i))
<1>1. /\ k \in 0..Len(s) - 1 /\ getClientIndexOfThing(v, U, h, Place(part, i)) = k
      /\ Stack(v, U, h) = [s EXCEPT ![k + 1] = x]
  BY ChangedStack
<1>2. s \in Seq(Things) /\ ~ k < Limit
  BY StackType
<1> HIDE DEF s, k
<1>3. Updated(Shown(s), k, x) = Shown(Put(s, k, x))
  BY <1>1, <1>2, UpdatedShown
<1>4. k \notin 0..Len(Shown(s)) - 1
  <2>1. Len(Shown(s)) = (IF Len(s) <= Limit THEN Len(s) ELSE Limit) /\ Len(s) \in Nat
    BY <1>2, ShownIs
  <2>2. QED BY <1>1, <1>2, <2>1 DEF ViewAssumption
<1>5. Updated(Shown(s), k, x) = Shown(s)
  BY <1>4 DEF Updated
<1>6. QED BY <1>1, <1>3, <1>5 DEF GetTileDescription, s, Put

-----------------------------------------------------------------------------
(* What a creature that comes or goes is for the copies                    *)

\* The place that the one has before which these are seen.
SeenAt(T, k) == Len(Ground(T)) + Len(T.top) + k

LEMMA SeenGets ==
    ASSUME NEW v, NEW g, NEW h, NEW T \in TileRecs, NEW U \in TileRecs, SameBut(T, U, "creatures"),
           NEW k \in 0..Len(Visible(v, T.creatures, h)), NEW x \in Things,
           Visible(v, U.creatures, g) = Ins(Visible(v, T.creatures, h), k, x)
    PROVE  SeenAt(T, k) \in 0..Len(Stack(v, T, h)) /\ Stack(v, U, g) = Ins(Stack(v, T, h), SeenAt(T, k), x)
<1> DEFINE a == Ground(T) \o T.top
           b == Visible(v, T.creatures, h)
           c == T.down
<1>1. Ground(U) = Ground(T) /\ U.top = T.top /\ U.down = T.down
  BY DEF SameBut, Ground
<1>2. Ground(T) \in Seq(Things) /\ T.top \in Seq(Things) /\ b \in Seq(Things) /\ c \in Seq(Things)
  BY PartsAre
<1>3. a \in Seq(Things) /\ Len(a) + k = SeenAt(T, k)
  BY <1>2 DEF SeenAt
<1>4. Stack(v, T, h) = a \o b \o c /\ Stack(v, U, g) = a \o Ins(b, k, x) \o c
  BY <1>1 DEF Stack
<1>5. k \in 0..Len(b)
  OBVIOUS
<1> HIDE DEF a, b, c
<1>6. Ins(a \o b \o c, Len(a) + k, x) = a \o Ins(b, k, x) \o c /\ Len(a) + k \in 0..Len(a \o b \o c)
  BY <1>2, <1>3, <1>5, InsOfPart
<1>7. QED BY <1>3, <1>4, <1>6

LEMMA SeenLoses ==
    ASSUME NEW v, NEW g, NEW h, NEW T \in TileRecs, NEW U \in TileRecs, SameBut(T, U, "creatures"),
           NEW k \in 1..Len(Visible(v, T.creatures, h)),
           Visible(v, U.creatures, g) = RemoveAt(Visible(v, T.creatures, h), k)
    PROVE  SeenAt(T, k) \in 1..Len(Stack(v, T, h)) /\ Stack(v, U, g) = RemoveAt(Stack(v, T, h), SeenAt(T, k))
<1> DEFINE a == Ground(T) \o T.top
           b == Visible(v, T.creatures, h)
           c == T.down
<1>1. Ground(U) = Ground(T) /\ U.top = T.top /\ U.down = T.down
  BY DEF SameBut, Ground
<1>2. Ground(T) \in Seq(Things) /\ T.top \in Seq(Things) /\ b \in Seq(Things) /\ c \in Seq(Things)
  BY PartsAre
<1>3. a \in Seq(Things) /\ Len(a) + k = SeenAt(T, k)
  BY <1>2 DEF SeenAt
<1>4. Stack(v, T, h) = a \o b \o c /\ Stack(v, U, g) = a \o RemoveAt(b, k) \o c
  BY <1>1 DEF Stack
<1>5. k \in 1..Len(b)
  OBVIOUS
<1> HIDE DEF a, b, c
<1>6. RemoveAt(a \o b \o c, Len(a) + k) = a \o RemoveAt(b, k) \o c /\ Len(a) + k \in 1..Len(a \o b \o c)
  BY <1>2, <1>3, <1>5, RemoveOfPart
<1>7. QED BY <1>3, <1>4, <1>6

LEMMA CreatureIndex ==
    ASSUME NEW v, NEW h, NEW T \in TileRecs, NEW k \in 1..Len(T.creatures)
    PROVE  getClientIndexOfThing(v, T, h, Place("creatures", k)) = SeenAt(T, Len(SeenBefore(v, T.creatures, k, h)))
<1>1. Place("creatures", k).part = "creatures" /\ Place("creatures", k).at = k
  BY DEF Place
<1>2. QED BY <1>1 DEF getClientIndexOfThing, SeenAt, SeenBefore

\* That l and m are a and b, without and with x between them.
Among(l, m, a, b, x) ==
    /\ Len(a) \in 0..Len(l) /\ m = Ins(l, Len(a), x)
    /\ Len(a) + 1 \in 1..Len(m) /\ l = RemoveAt(m, Len(a) + 1)

LEMMA AmongIs ==
    ASSUME NEW X, NEW a \in Seq(X), NEW b \in Seq(X), NEW x \in X
    PROVE  Among(a \o b, a \o <<x>> \o b, a, b, x)
<1> DEFINE e == <<>>
           o == <<x>>
<1>1. e \in Seq(X) /\ Len(e) = 0 /\ o \in Seq(X) /\ Len(o) = 1
  OBVIOUS
<1>2. a \o e = a /\ Ins(e, 0, x) = o /\ RemoveAt(o, 1) = e
  <2>1. a \o e = a
    BY ConcatEmptySeq
  <2>2. IsIns(X, Ins(e, 0, x), e, 0, x)
    <3>1. 0 \in 0..Len(e)
      OBVIOUS
    <3>2. QED BY <1>1, <3>1, InsIs
  <2>3. Ins(e, 0, x) \in Seq(X) /\ Len(Ins(e, 0, x)) = 1 /\ Ins(e, 0, x)[1] = x
    BY <2>2 DEF IsIns
  <2>4. Ins(e, 0, x) = o
    BY <2>3
  <2> HIDE DEF o
  <2>5. RemoveAt(o, 1) \in Seq(X) /\ Len(RemoveAt(o, 1)) = Len(o) - 1
    <3>1. 1 \in 1..Len(o)
      BY <1>1
    <3>2. QED BY <1>1, <3>1, RemoveAtIs
  <2>6. QED BY <1>1, <2>1, <2>4, <2>5
<1> HIDE DEF e, o
<1>3. Ins(a \o e \o b, Len(a) + 0, x) = a \o Ins(e, 0, x) \o b /\ Len(a) + 0 \in 0..Len(a \o e \o b)
  <2> DEFINE z == 0
  <2>1. z \in 0..Len(e)
    BY <1>1
  <2> HIDE DEF z
  <2>2. Ins(a \o e \o b, Len(a) + z, x) = a \o Ins(e, z, x) \o b /\ Len(a) + z \in 0..Len(a \o e \o b)
    BY <1>1, <2>1, InsOfPart
  <2>3. QED BY <2>2 DEF z
<1>4. RemoveAt(a \o o \o b, Len(a) + 1) = a \o RemoveAt(o, 1) \o b /\ Len(a) + 1 \in 1..Len(a \o o \o b)
  <2>1. 1 \in 1..Len(o)
    BY <1>1
  <2>2. QED BY <1>1, <2>1, RemoveOfPart
<1>5. a \o b \in Seq(X)
  BY ConcatProperties
<1>6. IsJoin(X, a \o o \o b, a, o, b)
  BY <1>1, JoinIs
<1>7. a \o o \o b \in Seq(X)
  BY <1>6 DEF IsJoin
<1>8. Len(a) + 0 = Len(a)
  OBVIOUS
<1>9. QED BY <1>2, <1>3, <1>4, <1>5, <1>7, <1>8 DEF o, Among

LEMMA CreatureAppears ==
    ASSUME ViewAssumption, NEW v, NEW g, NEW h, NEW T \in TileRecs, NEW U \in TileRecs,
           SameBut(T, U, "creatures"), NEW k \in 1..Len(U.creatures), canSeeCreature(v, U.creatures[k], g),
           Visible(v, T.creatures, h) = Visible(v, RemoveAt(U.creatures, k), g)
    PROVE  Added(GetTileDescription(v, T, h), getClientIndexOfThing(v, U, g, Place("creatures", k)), U.creatures[k])
             = GetTileDescription(v, U, g)
<1> DEFINE list == U.creatures
           x == list[k]
           after == SeenBefore(v, list, k, g)
           before == SeenBehind(v, list, k, g)
           m == Len(after)
           s == Stack(v, T, h)
<1>1. list \in Seq(Visitors)
  BY DEF TileRecs
<1>2. /\ before \in Seq(Visitors) /\ after \in Seq(Visitors) /\ x \in Visitors
      /\ Visible(v, list, g) = after \o <<x>> \o before /\ Visible(v, RemoveAt(list, k), g) = after \o before
  <2>1. SeenAround(v, list, k, g)
    BY <1>1, VisibleAround
  <2>2. x \in Visitors
    BY <1>1
  <2>3. QED BY <2>1, <2>2 DEF SeenAround
<1>3. m \in 0..Len(Visible(v, T.creatures, h)) /\ Visible(v, U.creatures, g) = Ins(Visible(v, T.creatures, h), m, x)
  <2> HIDE DEF after, before, x
  <2>1. Among(after \o before, after \o <<x>> \o before, after, before, x)
    BY <1>2, AmongIs
  <2>2. QED BY <1>2, <2>1 DEF Among
<1>4. x \in Things
  BY <1>2 DEF Things
<1>5. getClientIndexOfThing(v, U, g, Place("creatures", k)) = SeenAt(U, m) /\ SeenAt(U, m) = SeenAt(T, m)
  <2>1. getClientIndexOfThing(v, U, g, Place("creatures", k)) = SeenAt(U, m)
    BY CreatureIndex
  <2>2. QED BY <2>1 DEF SeenAt, SameBut, Ground
<1> HIDE DEF x, m
<1>6. SeenAt(T, m) \in 0..Len(s) /\ Stack(v, U, g) = Ins(s, SeenAt(T, m), x)
  BY <1>3, <1>4, SeenGets
<1>7. s \in Seq(Things)
  BY StackType
<1> HIDE DEF s
<1> DEFINE n == SeenAt(T, m)
<1>8. n \in 0..Len(s)
  BY <1>6
<1> HIDE DEF n
<1>9. Added(Shown(s), n, x) = Shown(Ins(s, n, x))
  BY <1>4, <1>7, <1>8, AddedShown
<1>10. QED BY <1>5, <1>6, <1>9 DEF GetTileDescription, s, x, n

LEMMA CreatureVanishes ==
    ASSUME ViewAssumption, NEW v, NEW g, NEW h, NEW T \in TileRecs, NEW U \in TileRecs,
           SameBut(T, U, "creatures"), NEW k \in 1..Len(T.creatures), canSeeCreature(v, T.creatures[k], h),
           Visible(v, U.creatures, g) = Visible(v, RemoveAt(T.creatures, k), h),
           \/ Len(Stack(v, T, h)) <= Limit
           \/ getClientIndexOfThing(v, T, h, Place("creatures", k)) >= Limit
    PROVE  Removed(GetTileDescription(v, T, h), getClientIndexOfThing(v, T, h, Place("creatures", k)))
             = GetTileDescription(v, U, g)
<1> DEFINE list == T.creatures
           x == list[k]
           after == SeenBefore(v, list, k, h)
           before == SeenBehind(v, list, k, h)
           m == Len(after) + 1
           s == Stack(v, T, h)
           n == getClientIndexOfThing(v, T, h, Place("creatures", k))
<1>1. list \in Seq(Visitors)
  BY DEF TileRecs
<1>2. /\ before \in Seq(Visitors) /\ after \in Seq(Visitors) /\ x \in Visitors
      /\ Visible(v, list, h) = after \o <<x>> \o before /\ Visible(v, RemoveAt(list, k), h) = after \o before
  <2>1. SeenAround(v, list, k, h)
    BY <1>1, VisibleAround
  <2>2. x \in Visitors
    BY <1>1
  <2>3. QED BY <2>1, <2>2 DEF SeenAround
<1>3. m \in 1..Len(Visible(v, list, h)) /\ Visible(v, U.creatures, g) = RemoveAt(Visible(v, list, h), m)
  <2> HIDE DEF after, before, x
  <2>1. Among(after \o before, after \o <<x>> \o before, after, before, x)
    BY <1>2, AmongIs
  <2>2. QED BY <1>2, <2>1 DEF Among
<1>4. n + 1 = SeenAt(T, m) /\ n \in Nat
  <2>1. n = SeenAt(T, Len(after))
    BY CreatureIndex
  <2>2. Len(Ground(T)) \in Nat /\ Len(T.top) \in Nat /\ Len(after) \in Nat
    BY <1>2, PartsAre
  <2>3. n \in Nat
    <3> HIDE DEF after, n
    <3>1. QED BY <2>1, <2>2 DEF SeenAt
  <2>4. n + 1 = SeenAt(T, m)
    <3>1. n = Len(Ground(T)) + Len(T.top) + Len(after)
      BY <2>1 DEF SeenAt
    <3>2. SeenAt(T, m) = Len(Ground(T)) + Len(T.top) + (Len(after) + 1)
      BY DEF SeenAt
    <3> DEFINE l == Len(Ground(T))
               t == Len(T.top)
               a == Len(after)
    <3>3. n = l + t + a /\ SeenAt(T, m) = l + t + (a + 1) /\ l \in Nat /\ t \in Nat /\ a \in Nat
      BY <2>2, <3>1, <3>2
    <3> HIDE DEF l, t, a, n, m
    <3>4. n + 1 = l + t + (a + 1)
      BY <3>3
    <3>5. QED BY <3>3, <3>4
  <2>5. QED BY <2>3, <2>4
<1> HIDE DEF m
<1>5. SeenAt(T, m) \in 1..Len(s) /\ Stack(v, U, g) = RemoveAt(s, SeenAt(T, m))
  BY <1>3, SeenLoses
<1>6. s \in Seq(Things)
  BY StackType
<1>7. Len(s) <= Limit \/ n >= Limit
  OBVIOUS
<1> HIDE DEF s, n
<1>8. n \in 0..Len(s) - 1
  BY <1>4, <1>5, <1>6
<1>9. Removed(Shown(s), n) = Shown(RemoveAt(s, n + 1))
  BY <1>6, <1>7, <1>8, RemovedShown
<1>10. QED BY <1>4, <1>5, <1>9 DEF GetTileDescription, s, n

LEMMA CreatureUnseen ==
    ASSUME NEW v, NEW g, NEW h, NEW T, NEW U, SameBut(T, U, "creatures"),
           Visible(v, U.creatures, g) = Visible(v, T.creatures, h)
    PROVE  GetTileDescription(v, U, g) = GetTileDescription(v, T, h)
BY DEF GetTileDescription, Stack, SameBut, Ground

\* A client puts a creature it carries over where the creature is for its player.
LEMMA CarriedOver ==
    ASSUME ViewAssumption, NEW v, NEW h, NEW T \in TileRecs, NEW c
    PROVE  Added(GetTileDescription(v, T, h), BehindCreatures(GetTileDescription(v, T, h)), c)
             = Added(GetTileDescription(v, T, h), SeenAt(T, Len(Visible(v, T.creatures, h))), c)
<1> DEFINE s == Stack(v, T, h)
           w == Shown(s)
           up == Ground(T) \o T.top \o Visible(v, T.creatures, h)
           n == SeenAt(T, Len(Visible(v, T.creatures, h)))
           Upper == Grounds \cup TopItems \cup Visitors
           m == IF n <= Limit THEN n ELSE Limit
<1>0. Limit \in Nat /\ Limit > 0 /\ DownItems \cap Upper = {}
  BY DEF ViewAssumption
<1>1. Ground(T) \in Seq(Upper) /\ T.top \in Seq(Upper) /\ Visible(v, T.creatures, h) \in Seq(Upper)
  <2>1. T.ground \in Grounds \cup {NoGround} /\ T.top \in Seq(TopItems) /\ T.creatures \in Seq(Visitors)
    BY DEF TileRecs
  <2>2. Visible(v, T.creatures, h) \in Seq(Visitors)
    BY <2>1, VisibleType
  <2>3. TopItems \subseteq Upper /\ Visitors \subseteq Upper /\ Grounds \subseteq Upper
    OBVIOUS
  <2> HIDE DEF Upper
  <2>4. Ground(T) \in Seq(Upper)
    BY <2>1, <2>3 DEF Ground
  <2>5. QED BY <2>1, <2>2, <2>3, <2>4, SeqMonotonic
<1> HIDE DEF Upper
<1>2. up \in Seq(Upper) /\ Len(up) = n /\ n \in Nat
  <2> DEFINE a == Ground(T)
             b == T.top
             d == Visible(v, T.creatures, h)
  <2>1. IsJoin(Upper, a \o b \o d, a, b, d)
    BY <1>1, JoinIs
  <2>2. Len(a) \in Nat /\ Len(b) \in Nat /\ Len(d) \in Nat
    BY <1>1
  <2> HIDE DEF a, b, d
  <2>3. a \o b \o d \in Seq(Upper) /\ Len(a \o b \o d) = Len(a) + Len(b) + Len(d)
    BY <2>1 DEF IsJoin
  <2>4. n = Len(a) + Len(b) + Len(d)
    BY DEF SeenAt, a, b, d
  <2> HIDE DEF n
  <2>5. n \in Nat
    BY <2>2, <2>4
  <2>6. QED BY <2>3, <2>4, <2>5 DEF a, b, d
<1>3. s = up \o T.down /\ T.down \in Seq(DownItems)
  BY DEF Stack, TileRecs
<1> HIDE DEF up, n
<1> DEFINE All == Upper \cup DownItems
<1>4. up \in Seq(All) /\ T.down \in Seq(All)
  <2>1. Upper \subseteq All /\ DownItems \subseteq All
    OBVIOUS
  <2> HIDE DEF All
  <2>2. QED BY <1>2, <1>3, <2>1, SeqMonotonic
<1> HIDE DEF All
<1>5. IsConcat(All, up \o T.down, up, T.down)
  BY <1>4, ConcatIs
<1> HIDE DEF s, w
<1>6. /\ s \in Seq(All) /\ Len(s) = n + Len(T.down) /\ Len(T.down) \in Nat
      /\ \A i \in 1..n : s[i] = up[i] /\ \A j \in 1..Len(T.down) : s[n + j] = T.down[j]
  <2>1. Len(T.down) \in Nat
    BY <1>3
  <2>2. s \in Seq(All) /\ Len(s) = n + Len(T.down)
    BY <1>2, <1>3, <1>5 DEF IsConcat
  <2>3. ASSUME NEW i \in 1..n PROVE s[i] = up[i]
    <3>1. i \in 1..Len(up) + Len(T.down) /\ i <= Len(up)
      BY <1>2, <2>1
    <3>2. QED BY <1>3, <1>5, <3>1 DEF IsConcat
  <2>4. ASSUME NEW j \in 1..Len(T.down) PROVE s[n + j] = T.down[j]
    <3>1. n + j \in 1..Len(up) + Len(T.down) /\ ~ n + j <= Len(up) /\ (n + j) - Len(up) = j
      BY <1>2, <2>1
    <3>2. QED BY <1>3, <1>5, <3>1 DEF IsConcat
  <2>5. QED BY <2>1, <2>2, <2>3, <2>4
<1>7. \A i \in 1..Len(s) : s[i] \notin DownItems <=> i <= n
  <2> SUFFICES ASSUME NEW i \in 1..Len(s) PROVE s[i] \notin DownItems <=> i <= n
    OBVIOUS
  <2>1. CASE i <= n
    <3>1. i \in 1..n /\ i \in 1..Len(up)
      BY <1>2, <2>1
    <3>2. s[i] = up[i] /\ up[i] \in Upper
      BY <1>2, <1>6, <3>1
    <3>3. QED BY <1>0, <2>1, <3>2
  <2>2. CASE ~ i <= n
    <3> DEFINE j == i - n
    <3>1. j \in 1..Len(T.down) /\ n + j = i
      BY <1>2, <1>6, <2>2
    <3> HIDE DEF j
    <3>2. 1..n # {} \/ n = 0
      BY <1>2
    <3>3. s[n + j] = T.down[j]
      <4>1. IsConcat(All, s, up, T.down)
        BY <1>3, <1>5
      <4>2. n + j \in 1..Len(up) + Len(T.down) /\ ~ n + j <= Len(up) /\ (n + j) - Len(up) = j
        BY <1>2, <1>6, <3>1
      <4>3. QED BY <4>1, <4>2 DEF IsConcat
    <3>4. T.down[j] \in DownItems
      BY <1>3, <3>1
    <3>5. QED BY <2>2, <3>1, <3>3, <3>4
  <2>3. QED BY <2>1, <2>2
<1>8. /\ w \in Seq(All) /\ Len(w) = (IF Len(s) <= Limit THEN Len(s) ELSE Limit)
      /\ \A i \in 1..Len(s) : i <= Limit => w[i] = s[i]
  BY <1>6, ShownIs DEF w
<1>9. DOMAIN w = 1..Len(w)
  BY <1>8
<1>10. {i \in DOMAIN w : w[i] \notin DownItems} = 1..m
  <2>1. ASSUME NEW i \in 1..Len(w) PROVE w[i] \notin DownItems <=> i <= m
    <3>1. i \in 1..Len(s) /\ i <= Limit
      BY <1>0, <1>6, <1>8, <1>2
    <3>2. w[i] = s[i]
      BY <1>8, <3>1
    <3>3. QED BY <1>0, <1>2, <1>7, <3>1, <3>2
  <2>2. m <= Len(w) /\ m \in Nat /\ Len(w) \in Nat
    BY <1>0, <1>2, <1>6, <1>8
  <2>3. QED BY <1>9, <2>1, <2>2
<1>11. BehindCreatures(w) = m
  <2>1. m \in Nat
    BY <1>0, <1>2
  <2>2. Cardinality(1..m) = m
    <3> HIDE DEF m
    <3>1. 1 \in Int /\ m \in Int
      BY <2>1
    <3>2. Cardinality(1..m) = IF 1 <= m THEN m - 1 + 1 ELSE 0
      BY <3>1, FS_Interval
    <3>3. QED BY <2>1, <3>2
  <2>3. QED BY <1>10, <2>2 DEF BehindCreatures
<1>12. Added(w, m, c) = Added(w, n, c)
  <2>1. CASE n <= Limit
    BY <2>1
  <2>2. CASE ~ n <= Limit
    <3>1. m = Limit /\ Limit >= Limit /\ n >= Limit
      BY <1>0, <1>2, <2>2
    <3>2. QED BY <3>1 DEF Added
  <2>3. QED BY <2>1, <2>2
<1>13. GetTileDescription(v, T, h) = w
  BY DEF GetTileDescription, w, s
<1>14. QED BY <1>11, <1>12, <1>13 DEF n

-----------------------------------------------------------------------------
(* Scenes                                                                  *)

IsScene(s) ==
    /\ s = [tile |-> s.tile, view |-> s.view, lost |-> s.lost]
    /\ s.tile \in [Tiles -> TileRecs] /\ s.lost \subseteq Watchers \X Tiles
    /\ s.view = [v \in Watchers |-> [t \in Tiles |-> s.view[v][t]]]

\* A creature has one place, on one tile.
Apart(tiles) ==
    \A t, u \in Tiles : \A i \in 1..Len(tiles[t].creatures), j \in 1..Len(tiles[u].creatures) :
        tiles[t].creatures[i] = tiles[u].creatures[j] => t = u /\ i = j

\* A client has the copies of the tiles in its sight that are not lost, and no others.
Copies(s, h) == \A v \in Watchers, t \in Tiles :
    IF t \notin Sight[v] THEN s.view[v][t] = <<>>
    ELSE <<v, t>> \notin s.lost => s.view[v][t] = GetTileDescription(v, s.tile[t], h)

Good(s, h) == IsScene(s) /\ Apart(s.tile) /\ Copies(s, h)

\* The inductive invariant.
TileInv ==
    /\ hidden \subseteq Hiders /\ Good(Scene, hidden)
    /\ \A v \in Watchers, t \in Tiles : view[v][t] \in Seq(Things) /\ Len(view[v][t]) <= Limit

LEMMA DescriptionType ==
    ASSUME ViewAssumption, NEW v, NEW h, NEW T \in TileRecs
    PROVE  GetTileDescription(v, T, h) \in Seq(Things) /\ Len(GetTileDescription(v, T, h)) <= Limit
<1> DEFINE s == Stack(v, T, h)
<1>1. s \in Seq(Things)
  BY StackType
<1>2. GetTileDescription(v, T, h) = Shown(s)
  BY DEF GetTileDescription
<1> HIDE DEF s
<1>3. Shown(s) \in Seq(Things) /\ Len(Shown(s)) = (IF Len(s) <= Limit THEN Len(s) ELSE Limit)
  BY <1>1, ShownIs
<1>4. Limit \in Nat /\ Len(s) \in Nat
  BY <1>1 DEF ViewAssumption
<1>5. QED BY <1>2, <1>3, <1>4

\* A scene whose copies are true becomes a state that is fine.
LEMMA GoodBecomes ==
    ASSUME ViewAssumption, NEW s, TilesBecome(s), Good(s, hidden'), hidden' \subseteq Hiders
    PROVE  TileInv'
<1>1. tile' = s.tile /\ stray' = s.lost /\ IsScene(s) /\ Apart(s.tile) /\ Copies(s, hidden')
  BY DEF TilesBecome, Good
<1>2. view' = [v \in Watchers |-> [t \in Tiles |-> IF <<v, t>> \in s.lost THEN <<>> ELSE s.view[v][t]]]
  BY DEF TilesBecome
<1>3. \A v \in Watchers, t \in Tiles : view'[v][t] = IF <<v, t>> \in s.lost THEN <<>> ELSE s.view[v][t]
  BY <1>2
<1>4. view' = [v \in Watchers |-> [t \in Tiles |-> view'[v][t]]]
  BY <1>2
<1>5. Scene' = [tile |-> tile', view |-> view', lost |-> stray']
  BY DEF Scene
<1>6. IsScene(Scene')
  BY <1>1, <1>4, <1>5 DEF IsScene
<1> DEFINE h == hidden'
           r == Scene'
<1>c. \A v \in Watchers, t \in Tiles :
         IF t \notin Sight[v] THEN s.view[v][t] = <<>>
         ELSE <<v, t>> \notin s.lost => s.view[v][t] = GetTileDescription(v, s.tile[t], h)
  BY <1>1 DEF Copies
<1>7. Copies(r, h)
  <2>1. r.view = view' /\ r.lost = s.lost /\ r.tile = s.tile
    BY <1>1, <1>5
  <2> HIDE DEF h, r
  <2>2. \A v \in Watchers, t \in Tiles :
          IF t \notin Sight[v] THEN r.view[v][t] = <<>>
          ELSE <<v, t>> \notin r.lost => r.view[v][t] = GetTileDescription(v, r.tile[t], h)
    <3> SUFFICES ASSUME NEW v \in Watchers, NEW t \in Tiles
                 PROVE  IF t \notin Sight[v] THEN r.view[v][t] = <<>>
                        ELSE <<v, t>> \notin r.lost => r.view[v][t] = GetTileDescription(v, r.tile[t], h)
      OBVIOUS
    <3>1. r.view[v][t] = IF <<v, t>> \in s.lost THEN <<>> ELSE s.view[v][t]
      BY <1>3, <2>1
    <3>2. CASE t \notin Sight[v]
      BY <1>c, <3>1, <3>2
    <3>3. CASE t \in Sight[v] /\ <<v, t>> \notin s.lost
      BY <1>c, <2>1, <3>1, <3>3
    <3>4. QED BY <2>1, <3>2, <3>3
  <2>3. QED BY <2>2 DEF Copies
<1>8. \A v \in Watchers, t \in Tiles : view'[v][t] \in Seq(Things) /\ Len(view'[v][t]) <= Limit
  <2> SUFFICES ASSUME NEW v \in Watchers, NEW t \in Tiles
               PROVE  view'[v][t] \in Seq(Things) /\ Len(view'[v][t]) <= Limit
    OBVIOUS
  <2>1. CASE view'[v][t] = <<>>
    <3>1. Limit \in Nat
      BY DEF ViewAssumption
    <3>2. QED BY <2>1, <3>1
  <2>2. CASE view'[v][t] # <<>>
    <3>1. view'[v][t] = GetTileDescription(v, s.tile[t], h)
      <4> HIDE DEF h
      <4>1. QED BY <1>3, <1>c, <2>2
    <3>2. s.tile[t] \in TileRecs
      BY <1>1 DEF IsScene
    <3> HIDE DEF h
    <3>3. QED BY <3>1, <3>2, DescriptionType
  <2>3. QED BY <2>1, <2>2
<1>9. Apart(Scene'.tile)
  BY <1>1, <1>5
<1>10. QED BY <1>6, <1>7, <1>8, <1>9 DEF TileInv, Good

\* Tell, with what each watcher shows then as a function.
Told(s, t, m) == [s EXCEPT !.view =
    [v \in Watchers |-> IF t \in Sight[v] /\ <<v, t>> \notin s.lost
                        THEN [s.view[v] EXCEPT ![t] = m[v]] ELSE s.view[v]]]

IsTold(r, s, t, m) ==
    /\ IsScene(r) /\ r.tile = s.tile /\ r.lost = s.lost
    /\ \A v \in Watchers, u \in Tiles :
          r.view[v][u] = IF u = t /\ t \in Sight[v] /\ <<v, t>> \notin s.lost THEN m[v] ELSE s.view[v][u]

LEMMA ToldIs ==
    ASSUME NEW s, IsScene(s), NEW t \in Tiles, NEW m
    PROVE  IsTold(Told(s, t, m), s, t, m)
<1> DEFINE W == [v \in Watchers |-> IF t \in Sight[v] /\ <<v, t>> \notin s.lost
                                    THEN [s.view[v] EXCEPT ![t] = m[v]] ELSE s.view[v]]
           r == Told(s, t, m)
<1>1. r = [s EXCEPT !.view = W]
  BY DEF Told
<1>2. r.tile = s.tile /\ r.lost = s.lost /\ r.view = W /\ r = [tile |-> r.tile, view |-> r.view, lost |-> r.lost]
  <2> HIDE DEF W
  <2>1. s = [tile |-> s.tile, view |-> s.view, lost |-> s.lost]
    BY DEF IsScene
  <2> HIDE DEF r
  <2>2. QED BY <1>1, <2>1
<1> HIDE DEF r
<1>3. ASSUME NEW v \in Watchers
      PROVE  /\ W[v] = [u \in Tiles |-> W[v][u]]
             /\ \A u \in Tiles : W[v][u] = IF u = t /\ t \in Sight[v] /\ <<v, t>> \notin s.lost THEN m[v] ELSE s.view[v][u]
  <2>1. s.view[v] = [u \in Tiles |-> s.view[v][u]]
    BY DEF IsScene
  <2>2. QED BY <2>1
<1>4. W = [v \in Watchers |-> W[v]]
  OBVIOUS
<1> HIDE DEF W
<1>5. W = [v \in Watchers |-> [u \in Tiles |-> W[v][u]]]
  BY <1>3, <1>4
<1>6. s.tile \in [Tiles -> TileRecs] /\ s.lost \subseteq Watchers \X Tiles
  BY DEF IsScene
<1>7. IsScene(r)
  BY <1>2, <1>5, <1>6 DEF IsScene
<1>8. QED BY <1>2, <1>3, <1>7 DEF IsTold, r

\* What is left to show of a call that changes one tile.
Retells(s, r, t, U, h) ==
    /\ IsScene(r) /\ U \in TileRecs /\ r.tile = [s.tile EXCEPT ![t] = U]
    /\ \A v \in Watchers, u \in Tiles \ {t} :
          r.view[v][u] = s.view[v][u] /\ (<<v, u>> \in s.lost => <<v, u>> \in r.lost)
    /\ \A v \in Watchers : IF t \notin Sight[v] THEN r.view[v][t] = s.view[v][t]
                           ELSE <<v, t>> \notin r.lost => r.view[v][t] = GetTileDescription(v, U, h)

LEMMA RetoldIsGood ==
    ASSUME NEW s, NEW r, NEW h, Good(s, h), NEW t \in Tiles, NEW U, Retells(s, r, t, U, h), Apart(r.tile)
    PROVE  Good(r, h)
<1>1. /\ IsScene(r) /\ r.tile[t] = U /\ \A u \in Tiles \ {t} : r.tile[u] = s.tile[u]
  BY DEF Good, IsScene, Retells
<1>2. ASSUME NEW v \in Watchers, NEW u \in Tiles
      PROVE  IF u \notin Sight[v] THEN r.view[v][u] = <<>>
             ELSE <<v, u>> \notin r.lost => r.view[v][u] = GetTileDescription(v, r.tile[u], h)
  <2>1. IF u \notin Sight[v] THEN s.view[v][u] = <<>>
        ELSE <<v, u>> \notin s.lost => s.view[v][u] = GetTileDescription(v, s.tile[u], h)
    BY DEF Good, Copies
  <2>2. CASE u = t
    BY <1>1, <2>1, <2>2 DEF Retells
  <2>3. CASE u # t
    BY <1>1, <2>1, <2>3 DEF Retells
  <2>4. QED BY <2>2, <2>3
<1>3. Copies(r, h)
  BY <1>2 DEF Copies
<1>4. QED BY <1>1, <1>3 DEF Good

\* One tile is changed, those who see it are told, and some copies are lost.
Turned(s, t, m, U, L) == [tile |-> [s.tile EXCEPT ![t] = U], view |-> Told(s, t, m).view, lost |-> L]

LEMMA TurnedIsGood ==
    ASSUME NEW s, NEW h, Good(s, h), NEW t \in Tiles, NEW m, NEW U \in TileRecs, NEW L,
           L \subseteq Watchers \X Tiles, s.lost \subseteq L, Apart([s.tile EXCEPT ![t] = U]),
           \A v \in Watchers : (t \in Sight[v] /\ <<v, t>> \notin L) => m[v] = GetTileDescription(v, U, h)
    PROVE  Good(Turned(s, t, m, U, L), h)
<1> DEFINE q == Told(s, t, m)
           r == Turned(s, t, m, U, L)
<1>1. IsTold(q, s, t, m) /\ IsScene(s)
  BY ToldIs DEF Good
<1> HIDE DEF q
<1>2. r.tile = [s.tile EXCEPT ![t] = U] /\ r.view = q.view /\ r.lost = L
      /\ r = [tile |-> r.tile, view |-> r.view, lost |-> r.lost]
  BY DEF Turned, q
<1> HIDE DEF r
<1>3. [s.tile EXCEPT ![t] = U] \in [Tiles -> TileRecs]
  BY <1>1 DEF IsScene
<1>4. q.view = [v \in Watchers |-> [u \in Tiles |-> q.view[v][u]]]
  BY <1>1 DEF IsTold, IsScene
<1>5. IsScene(r)
  BY <1>2, <1>3, <1>4 DEF IsScene
<1>6. Retells(s, r, t, U, h)
  <2>1. \A v \in Watchers, u \in Tiles :
          r.view[v][u] = IF u = t /\ t \in Sight[v] /\ <<v, t>> \notin s.lost THEN m[v] ELSE s.view[v][u]
    BY <1>1, <1>2 DEF IsTold
  <2>2. ASSUME NEW v \in Watchers
        PROVE  IF t \notin Sight[v] THEN r.view[v][t] = s.view[v][t]
               ELSE <<v, t>> \notin r.lost => r.view[v][t] = GetTileDescription(v, U, h)
    BY <1>2, <2>1
  <2>3. ASSUME NEW v \in Watchers, NEW u \in Tiles \ {t}
        PROVE  r.view[v][u] = s.view[v][u] /\ (<<v, u>> \in s.lost => <<v, u>> \in r.lost)
    BY <1>2, <2>1
  <2>4. QED BY <1>2, <1>5, <2>2, <2>3 DEF Retells
<1>7. QED BY <1>2, <1>6, RetoldIsGood DEF r

\* A change of items leaves creatures where they are.
LEMMA ItemsApart ==
    ASSUME NEW tiles \in [Tiles -> TileRecs], Apart(tiles), NEW t \in Tiles, NEW U,
           U.creatures = tiles[t].creatures
    PROVE  Apart([tiles EXCEPT ![t] = U])
BY DEF Apart

WithTile(q, t, U) == [q EXCEPT !.tile[t] = U]
WithTileLost(q, t, U, L) == [q EXCEPT !.tile[t] = U, !.lost = L]

LEMMA TurnedIs ==
    ASSUME NEW s, IsScene(s), NEW t \in Tiles, NEW m, NEW U, NEW L
    PROVE  /\ WithTile(Told(s, t, m), t, U) = Turned(s, t, m, U, s.lost)
           /\ WithTileLost(Told(s, t, m), t, U, L) = Turned(s, t, m, U, L)
<1> DEFINE q == Told(s, t, m)
<1>1. IsTold(q, s, t, m)
  BY ToldIs
<1>2. q = [tile |-> s.tile, view |-> q.view, lost |-> s.lost] /\ s.tile \in [Tiles -> TileRecs]
  BY <1>1 DEF IsTold, IsScene
<1> HIDE DEF q
<1> DEFINE a == s.tile
           b == q.view
           c == s.lost
           Q == [q EXCEPT !.tile[t] = U]
<1>3. q = [tile |-> a, view |-> b, lost |-> c]
  BY <1>2
<1> HIDE DEF a, b, c
<1>4. Q = [tile |-> [a EXCEPT ![t] = U], view |-> b, lost |-> c]
  BY <1>3
<1>5. WithTileLost(q, t, U, L) = [Q EXCEPT !.lost = L] /\ WithTile(q, t, U) = Q
  BY DEF WithTileLost, WithTile
<1> HIDE DEF Q
<1> DEFINE A == [a EXCEPT ![t] = U]
<1>6. Q = [tile |-> A, view |-> b, lost |-> c]
  BY <1>4
<1> HIDE DEF A
<1>7. [Q EXCEPT !.lost = L] = [tile |-> A, view |-> b, lost |-> L]
  BY <1>6
<1>8. QED BY <1>5, <1>6, <1>7 DEF Turned, A, a, b, c, q

AddsAt(s, t, part, i, k, U) ==
    AddAt(s, t, Place(part, i), k)
      = Turned(s, t, [v \in Watchers |->
                      Added(s.view[v][t], getClientIndexOfThing(v, U, hidden, Place(part, i)), k)], U, s.lost)

LEMMA AddAtIs ==
    ASSUME NEW s, IsScene(s), NEW t \in Tiles, NEW part, NEW i, NEW k, NEW U,
           U = [s.tile[t] EXCEPT ![part] = InsertAt(@, i, k)]
    PROVE  AddsAt(s, t, part, i, k, U)
<1> DEFINE p == Place(part, i)
           W == [s.tile[t] EXCEPT ![p.part] = InsertAt(@, p.at, k)]
           m == [v \in Watchers |-> Added(s.view[v][t], getClientIndexOfThing(v, W, hidden, p), k)]
           q == Tell(s, t, LAMBDA v, was : Added(was, getClientIndexOfThing(v, W, hidden, p), k))
<1>1. p.part = part /\ p.at = i
  BY DEF Place
<1>2. W = U
  BY <1>1
<1>3. AddAt(s, t, p, k) = WithTile(q, t, W)
  <2> HIDE DEF p
  <2>1. QED BY DEF AddAt, WithTile
<1> HIDE DEF W, p
<1>4. q = Told(s, t, m)
  BY DEF Tell, Told
<1> HIDE DEF m, q
<1>5. AddAt(s, t, p, k) = WithTile(Told(s, t, m), t, U)
  BY <1>2, <1>3, <1>4
<1>6. WithTile(Told(s, t, m), t, U) = Turned(s, t, m, U, s.lost)
  BY TurnedIs
<1>7. QED BY <1>2, <1>5, <1>6 DEF m, p, AddsAt

\* A tile with an item more or less, or another in its place, is a tile.
LEMMA ComesType ==
    ASSUME ViewAssumption, NEW T \in TileRecs, NEW U, NEW part, NEW i, NEW x, Comes(T, U, part, i, x),
           x \in Kinds(part)
    PROVE  U \in TileRecs /\ U.creatures = T.creatures
<1>1. CASE part = "ground"
  <2>1. U = [T EXCEPT !.ground = x] /\ x \in Grounds
    BY <1>1 DEF Comes, Kinds
  <2>2. QED BY <2>1 DEF TileRecs
<1>2. CASE part # "ground"
  <2> DEFINE X == Kinds(part)
             new == InsertAt(T[part], i, x)
  <2>1. part \in {"top", "down"} /\ i \in 1..Len(T[part]) + 1 /\ U = [T EXCEPT ![part] = new]
    BY <1>2 DEF Comes
  <2>2. T[part] \in Seq(X) /\ Len(T[part]) \in Nat
    BY <2>1 DEF TileRecs, Kinds
  <2>3. i - 1 \in 0..Len(T[part]) /\ (i - 1) + 1 = i
    BY <2>1, <2>2
  <2> HIDE DEF X
  <2>4. IsIns(X, Ins(T[part], i - 1, x), T[part], i - 1, x)
    BY <2>2, <2>3, InsIs DEF X
  <2>5. new \in Seq(X)
    BY <2>3, <2>4 DEF IsIns, Ins, InsertAt
  <2> HIDE DEF new
  <2>6. CASE part = "top"
    BY <2>1, <2>5, <2>6 DEF TileRecs, Kinds, X
  <2>7. CASE part = "down"
    BY <2>1, <2>5, <2>7 DEF TileRecs, Kinds, X
  <2>8. QED BY <2>1, <2>6, <2>7
<1>3. QED BY <1>1, <1>2

LEMMA GoesType ==
    ASSUME NEW T \in TileRecs, NEW U, NEW part, NEW i, Goes(T, U, part, i)
    PROVE  U \in TileRecs /\ U.creatures = T.creatures
<1>1. CASE part = "ground"
  <2>1. U = [T EXCEPT !.ground = NoGround]
    BY <1>1 DEF Goes
  <2>2. QED BY <2>1 DEF TileRecs
<1>2. CASE part # "ground"
  <2> DEFINE X == Kinds(part)
             new == RemoveAt(T[part], i)
  <2>1. part \in {"top", "down"} /\ i \in 1..Len(T[part]) /\ U = [T EXCEPT ![part] = new]
    BY <1>2 DEF Goes
  <2>2. T[part] \in Seq(X)
    BY <2>1 DEF TileRecs, Kinds
  <2> HIDE DEF X
  <2>5. new \in Seq(X)
    BY <2>1, <2>2, RemoveAtIs
  <2> HIDE DEF new
  <2>6. CASE part = "top"
    BY <2>1, <2>5, <2>6 DEF TileRecs, Kinds, X
  <2>7. CASE part = "down"
    BY <2>1, <2>5, <2>7 DEF TileRecs, Kinds, X
  <2>8. QED BY <2>1, <2>6, <2>7
<1>3. QED BY <1>1, <1>2

LEMMA ChangesType ==
    ASSUME NEW T \in TileRecs, NEW U, NEW part, NEW i, NEW x, Changes(T, U, part, i, x), x \in Kinds(part)
    PROVE  U \in TileRecs /\ U.creatures = T.creatures
<1>1. CASE part = "ground"
  <2>1. U = [T EXCEPT !.ground = x] /\ x \in Grounds
    BY <1>1 DEF Changes, Kinds
  <2>2. QED BY <2>1 DEF TileRecs
<1>2. CASE part # "ground"
  <2> DEFINE X == Kinds(part)
             new == [T[part] EXCEPT ![i] = x]
  <2>1. part \in {"top", "down"} /\ i \in 1..Len(T[part]) /\ U = [T EXCEPT ![part] = new]
    BY <1>2 DEF Changes
  <2>2. T[part] \in Seq(X)
    BY <2>1 DEF TileRecs, Kinds
  <2>3. x \in X
    OBVIOUS
  <2> HIDE DEF X
  <2>5. new \in Seq(X)
    BY <2>1, <2>2, <2>3
  <2> HIDE DEF new
  <2>6. CASE part = "top"
    BY <2>1, <2>5, <2>6 DEF TileRecs, Kinds, X
  <2>7. CASE part = "down"
    BY <2>1, <2>5, <2>7 DEF TileRecs, Kinds, X
  <2>8. QED BY <2>1, <2>6, <2>7
<1>3. QED BY <1>1, <1>2

LEMMA KindsAreThings ==
    ASSUME NEW part \in {"ground", "top", "down"}, NEW x \in Kinds(part)
    PROVE  x \in Things
BY DEF Kinds, Things

LEMMA AddAtGood ==
    ASSUME ViewAssumption, NEW s, Good(s, hidden), NEW t \in Tiles, NEW part \in {"top", "down"},
           NEW i \in 1..Len(s.tile[t][part]) + 1, NEW k \in Kinds(part)
    PROVE  Good(AddAt(s, t, Place(part, i), k), hidden)
<1> DEFINE T == s.tile[t]
           U == [T EXCEPT ![part] = InsertAt(@, i, k)]
           m == [v \in Watchers |-> Added(s.view[v][t], getClientIndexOfThing(v, U, hidden, Place(part, i)), k)]
<1>1. IsScene(s) /\ T \in TileRecs /\ s.tile \in [Tiles -> TileRecs] /\ s.lost \subseteq Watchers \X Tiles
  BY DEF Good, IsScene
<1>2. Comes(T, U, part, i, k) /\ part # "ground" /\ k \in Things
  BY KindsAreThings DEF Comes
<1> HIDE DEF T
<1>3. U \in TileRecs /\ U.creatures = T.creatures
  <2> HIDE DEF U
  <2>1. QED BY <1>1, <1>2, ComesType
<1>6. AddAt(s, t, Place(part, i), k) = Turned(s, t, m, U, s.lost)
  <2>1. U = [s.tile[t] EXCEPT ![part] = InsertAt(@, i, k)]
    BY DEF T
  <2>2. AddsAt(s, t, part, i, k, U)
    <3> HIDE DEF U
    <3>1. QED BY <1>1, <2>1, AddAtIs
  <2>3. QED BY <2>2 DEF AddsAt
<1> HIDE DEF U
<1>7. ASSUME NEW v \in Watchers, t \in Sight[v], <<v, t>> \notin s.lost
      PROVE  m[v] = GetTileDescription(v, U, hidden)
  <2>1. s.view[v][t] = GetTileDescription(v, T, hidden)
    BY <1>7 DEF Good, Copies, T
  <2>3. Added(GetTileDescription(v, T, hidden), getClientIndexOfThing(v, U, hidden, Place(part, i)), k)
          = GetTileDescription(v, U, hidden)
    BY <1>1, <1>2, <1>3, ItemComes
  <2>4. QED BY <2>1, <2>3
<1> HIDE DEF m
<1>8. Apart([s.tile EXCEPT ![t] = U])
  BY <1>1, <1>3, ItemsApart DEF Good, T
<1>9. Good(Turned(s, t, m, U, s.lost), hidden)
  BY <1>1, <1>3, <1>7, <1>8, TurnedIsGood
<1>10. QED BY <1>6, <1>9



\* A way of saying where an item goes from, for any of its parts.
LEMMA RemoveThingIs ==
    ASSUME NEW s, IsScene(s), NEW t \in Tiles, NEW part, NEW i, NEW U, Goes(s.tile[t], U, part, i)
    PROVE  RemoveThing(s, t, Place(part, i))
             = Turned(s, t, [v \in Watchers |->
                      Removed(s.view[v][t], getClientIndexOfThing(v, s.tile[t], hidden, Place(part, i)))], U,
                      s.lost \cup Uncovered(s, t, Place(part, i), Watchers))
<1> DEFINE p == Place(part, i)
           T == s.tile[t]
           W == IF p.part = "ground" THEN [T EXCEPT !.ground = NoGround]
                ELSE [T EXCEPT ![p.part] = RemoveAt(@, p.at)]
           m == [v \in Watchers |-> Removed(s.view[v][t], getClientIndexOfThing(v, T, hidden, p))]
           q == Tell(s, t, LAMBDA v, was : Removed(was, getClientIndexOfThing(v, T, hidden, p)))
           L == s.lost \cup Uncovered(s, t, p, Watchers)
<1>1. p.part = part /\ p.at = i
  BY DEF Place
<1>2. W = U
  BY <1>1 DEF Goes
<1>3. RemoveThing(s, t, p) = [q EXCEPT !.tile[t] = W, !.lost = @ \cup Uncovered(s, t, p, Watchers)]
  <2> HIDE DEF p
  <2>1. QED BY DEF RemoveThing
<1> HIDE DEF p, T
<1>4. q = Told(s, t, m)
  BY DEF Tell, Told
<1> HIDE DEF m, q, W
<1>5. IsTold(q, s, t, m)
  BY <1>4, ToldIs
<1>6. [q EXCEPT !.tile[t] = W, !.lost = @ \cup Uncovered(s, t, p, Watchers)] = WithTileLost(q, t, W, L)
  BY <1>5 DEF IsTold, WithTileLost
<1> HIDE DEF L
<1>7. RemoveThing(s, t, p) = WithTileLost(Told(s, t, m), t, U, L)
  BY <1>2, <1>3, <1>4, <1>6
<1>8. RemoveThing(s, t, p) = Turned(s, t, m, U, L)
  BY <1>7, TurnedIs
<1>9. QED BY <1>8 DEF m, L, p, T

LEMMA UncoveredIs ==
    ASSUME NEW s, NEW t \in Tiles, NEW p, NEW who \in SUBSET Watchers
    PROVE  /\ Uncovered(s, t, p, who) \subseteq Watchers \X Tiles
           /\ \A v \in who : t \in Sight[v] /\ <<v, t>> \notin Uncovered(s, t, p, who)
                => ~ (Len(Stack(v, s.tile[t], hidden)) > Limit /\ getClientIndexOfThing(v, s.tile[t], hidden, p) < Limit)
BY DEF Uncovered

\* The place of an item is a number.
LEMMA ItemIndexType ==
    ASSUME NEW v, NEW h, NEW T \in TileRecs, NEW part \in {"ground", "top", "down"}, NEW i, InPart(part, i)
    PROVE  getClientIndexOfThing(v, T, h, Place(part, i)) \in Int
<1> DEFINE l == Len(Before(v, T, h, part))
<1>1. Before(v, T, h, part) \in Seq(Things)
  BY StackIs
<1>2. l \in Nat /\ i \in Nat
  BY <1>1 DEF InPart
<1>3. getClientIndexOfThing(v, T, h, Place(part, i)) = l + i - 1
  BY ItemIndex
<1> HIDE DEF l
<1>4. QED BY <1>2, <1>3

LEMMA RemoveThingGood ==
    ASSUME ViewAssumption, NEW s, Good(s, hidden), NEW t \in Tiles, NEW part, NEW i, NEW U,
           Goes(s.tile[t], U, part, i)
    PROVE  /\ Good(RemoveThing(s, t, Place(part, i)), hidden) /\ U \in TileRecs
           /\ RemoveThing(s, t, Place(part, i)).tile = [s.tile EXCEPT ![t] = U]
<1> DEFINE T == s.tile[t]
           p == Place(part, i)
           m == [v \in Watchers |-> Removed(s.view[v][t], getClientIndexOfThing(v, T, hidden, p))]
           L == s.lost \cup Uncovered(s, t, p, Watchers)
<1>1. IsScene(s) /\ T \in TileRecs /\ s.tile \in [Tiles -> TileRecs] /\ s.lost \subseteq Watchers \X Tiles
  BY DEF Good, IsScene
<1>3. U \in TileRecs /\ U.creatures = T.creatures
  <2> HIDE DEF T
  <2>1. QED BY <1>1, GoesType DEF T
<1>6. RemoveThing(s, t, p) = Turned(s, t, m, U, L)
  BY <1>1, RemoveThingIs
<1>7. ASSUME NEW v \in Watchers, t \in Sight[v], <<v, t>> \notin L
      PROVE  m[v] = GetTileDescription(v, U, hidden)
  <2>1. s.view[v][t] = GetTileDescription(v, T, hidden)
    BY <1>7 DEF Good, Copies
  <2>2. ~ (Len(Stack(v, T, hidden)) > Limit /\ getClientIndexOfThing(v, T, hidden, p) < Limit)
    BY <1>7, UncoveredIs
  <2> HIDE DEF T
  <2>3. Stack(v, T, hidden) \in Seq(Things) /\ Limit \in Nat
    BY <1>1, StackType DEF ViewAssumption
  <2>4. part \in {"ground", "top", "down"} /\ InPart(part, i)
    <3>1. T.top \in Seq(TopItems) /\ T.down \in Seq(DownItems)
      BY <1>1 DEF TileRecs
    <3>2. Goes(T, U, part, i)
      BY DEF T
    <3>3. QED BY <3>1, <3>2 DEF Goes, InPart
  <2>5. getClientIndexOfThing(v, T, hidden, Place(part, i)) \in Int
    BY <1>1, <2>4, ItemIndexType
  <2>6. Len(Stack(v, T, hidden)) <= Limit \/ getClientIndexOfThing(v, T, hidden, Place(part, i)) >= Limit
    <3> DEFINE a == Len(Stack(v, T, hidden))
               b == getClientIndexOfThing(v, T, hidden, Place(part, i))
    <3>1. a \in Nat /\ b \in Int /\ ~ (a > Limit /\ b < Limit)
      BY <2>2, <2>3, <2>5
    <3> HIDE DEF a, b
    <3>2. a <= Limit \/ b >= Limit
      BY <2>3, <3>1
    <3>3. QED BY <3>2 DEF a, b
  <2>7. Goes(T, U, part, i)
    BY DEF T
  <2>8. Removed(GetTileDescription(v, T, hidden), getClientIndexOfThing(v, T, hidden, Place(part, i)))
          = GetTileDescription(v, U, hidden)
    BY <1>1, <1>3, <2>6, <2>7, ItemGoes
  <2>9. QED BY <2>1, <2>8
<1>8. Apart([s.tile EXCEPT ![t] = U])
  BY <1>1, <1>3, ItemsApart DEF Good
<1>9. L \subseteq Watchers \X Tiles /\ s.lost \subseteq L
  BY <1>1, UncoveredIs
<1>11. Turned(s, t, m, U, L).tile = [s.tile EXCEPT ![t] = U]
  BY DEF Turned
<1> HIDE DEF m, L
<1>10. Good(Turned(s, t, m, U, L), hidden)
  BY <1>1, <1>3, <1>7, <1>8, <1>9, TurnedIsGood
<1>12. QED BY <1>3, <1>6, <1>10, <1>11



\* A tile is changed before those who see it are told.
Changed(s, u, t, U) ==
    /\ IsScene(u) /\ u.tile = [s.tile EXCEPT ![t] = U] /\ u.view = s.view
    /\ \A v \in Watchers, w \in Tiles \ {t} : <<v, w>> \in s.lost => <<v, w>> \in u.lost

LEMMA ToldRetells ==
    ASSUME NEW s, NEW u, NEW t \in Tiles, NEW U \in TileRecs, NEW m, NEW h, Changed(s, u, t, U),
           \A v \in Watchers : (t \in Sight[v] /\ <<v, t>> \notin u.lost) => m[v] = GetTileDescription(v, U, h)
    PROVE  Retells(s, Told(u, t, m), t, U, h)
<1> DEFINE r == Told(u, t, m)
<1>1. IsTold(r, u, t, m)
  BY ToldIs DEF Changed
<1> HIDE DEF r
<1>2. IsScene(r) /\ r.tile = u.tile /\ r.lost = u.lost /\ u.view = s.view /\ u.tile = [s.tile EXCEPT ![t] = U]
  BY <1>1 DEF IsTold, Changed
<1>3. \A v \in Watchers, w \in Tiles :
        r.view[v][w] = IF w = t /\ t \in Sight[v] /\ <<v, t>> \notin u.lost THEN m[v] ELSE s.view[v][w]
  BY <1>1, <1>2 DEF IsTold
<1>4. ASSUME NEW v \in Watchers, NEW w \in Tiles \ {t}
      PROVE  r.view[v][w] = s.view[v][w] /\ (<<v, w>> \in s.lost => <<v, w>> \in r.lost)
  BY <1>2, <1>3 DEF Changed
<1>5. ASSUME NEW v \in Watchers
      PROVE  IF t \notin Sight[v] THEN r.view[v][t] = s.view[v][t]
             ELSE <<v, t>> \notin r.lost => r.view[v][t] = GetTileDescription(v, U, h)
  BY <1>2, <1>3
<1>6. QED BY <1>2, <1>4, <1>5 DEF Retells, r

LEMMA GroundScene ==
    ASSUME NEW s, IsScene(s), NEW t \in Tiles, NEW k \in Grounds, NEW L, L \subseteq Watchers \X Tiles,
           \A v \in Watchers, w \in Tiles \ {t} : <<v, w>> \in s.lost => <<v, w>> \in L
    PROVE  /\ [s.tile[t] EXCEPT !.ground = k] \in TileRecs
           /\ [s EXCEPT !.tile[t].ground = k]
                = [tile |-> [s.tile EXCEPT ![t] = [s.tile[t] EXCEPT !.ground = k]], view |-> s.view, lost |-> s.lost]
           /\ Changed(s, [tile |-> [s.tile EXCEPT ![t] = [s.tile[t] EXCEPT !.ground = k]], view |-> s.view, lost |-> L],
                      t, [s.tile[t] EXCEPT !.ground = k])
<1> DEFINE U == [s.tile[t] EXCEPT !.ground = k]
           A == [s.tile EXCEPT ![t] = U]
           u == [tile |-> A, view |-> s.view, lost |-> L]
<1>1. s.tile[t] \in TileRecs /\ s.tile \in [Tiles -> TileRecs]
  BY DEF IsScene
<1>2. U \in TileRecs
  BY <1>1 DEF TileRecs
<1>3. [s EXCEPT !.tile[t].ground = k] = [tile |-> A, view |-> s.view, lost |-> s.lost]
  <2> DEFINE a == s.tile
             b == s.view
             c == s.lost
  <2>1. s = [tile |-> a, view |-> b, lost |-> c]
    BY DEF IsScene
  <2> HIDE DEF a, b, c
  <2>2. [s EXCEPT !.tile[t].ground = k] = [tile |-> [a EXCEPT ![t] = [a[t] EXCEPT !.ground = k]], view |-> b, lost |-> c]
    BY <2>1
  <2>3. QED BY <2>2 DEF a, b, c
<1> HIDE DEF U
<1>4. A \in [Tiles -> TileRecs]
  BY <1>1, <1>2
<1>5. u.tile = A /\ u.view = s.view /\ u.lost = L /\ u = [tile |-> u.tile, view |-> u.view, lost |-> u.lost]
  <2> HIDE DEF A
  <2>1. QED OBVIOUS
<1>6. s.view = [v \in Watchers |-> [w \in Tiles |-> s.view[v][w]]]
  BY DEF IsScene
<1> HIDE DEF u, A
<1>7. IsScene(u)
  BY <1>4, <1>5, <1>6 DEF IsScene
<1>8. Changed(s, u, t, U)
  BY <1>5, <1>7 DEF Changed, A
<1>9. QED BY <1>2, <1>3, <1>8 DEF u, A, U

LEMMA LostLess ==
    ASSUME NEW u, NEW a, NEW b, NEW c, NEW D, u = [tile |-> a, view |-> b, lost |-> c]
    PROVE  [u EXCEPT !.lost = @ \ D] = [tile |-> a, view |-> b, lost |-> c \ D]
OBVIOUS

LEMMA AddGroundGood ==
    ASSUME ViewAssumption, NEW s, Good(s, hidden), NEW t \in Tiles, NEW k \in Grounds
    PROVE  Good(AddGround(s, t, k), hidden)
<1> DEFINE T == s.tile[t]
           U == [T EXCEPT !.ground = k]
           A == [s.tile EXCEPT ![t] = U]
           u == [tile |-> A, view |-> s.view, lost |-> s.lost]
<1>1. IsScene(s) /\ T \in TileRecs /\ s.tile \in [Tiles -> TileRecs] /\ s.lost \subseteq Watchers \X Tiles
  BY DEF Good, IsScene
<1>2. [s EXCEPT !.tile[t].ground = k] = u /\ Changed(s, u, t, U) /\ U \in TileRecs
  <2>1. s.lost \subseteq Watchers \X Tiles
    BY <1>1
  <2>2. IsScene(s)
    BY <1>1
  <2>3. QED BY <2>1, <2>2, GroundScene
<1>3. Apart(A)
  <2>1. U.creatures = T.creatures
    BY <1>1 DEF TileRecs
  <2> HIDE DEF U
  <2>2. QED BY <1>1, <2>1, ItemsApart DEF Good
<1>4. CASE T.ground = NoGround
  <2> DEFINE m == [v \in Watchers |-> Added(u.view[v][t], 0, k)]
             q == Tell(u, t, LAMBDA v, was : Added(was, 0, k))
  <2>1. AddGround(s, t, k) = q
    <3>1. AddGround(s, t, k) = Tell([s EXCEPT !.tile[t].ground = k], t, LAMBDA v, was : Added(was, 0, k))
      BY <1>4 DEF AddGround
    <3> HIDE DEF u
    <3>2. QED BY <1>2, <3>1
  <2>2. u.view = s.view /\ u.lost = s.lost
    BY <1>2 DEF Changed
  <2>a. u.tile = A
    BY <1>2 DEF Changed
  <2> HIDE DEF u
  <2>3. q = Told(u, t, m)
    BY DEF Tell, Told
  <2>4. ASSUME NEW v \in Watchers, t \in Sight[v], <<v, t>> \notin u.lost
        PROVE  m[v] = GetTileDescription(v, U, hidden)
    <3>1. s.view[v][t] = GetTileDescription(v, T, hidden)
      BY <2>2, <2>4 DEF Good, Copies
    <3>2. Comes(T, U, "ground", 1, k) /\ k \in Things /\ k # NoGround
      BY <1>4 DEF Comes, Things, ViewAssumption
    <3>3. getClientIndexOfThing(v, U, hidden, Place("ground", 1)) = 0
      BY DEF getClientIndexOfThing, Place
    <3> HIDE DEF T, U
    <3>4. Added(GetTileDescription(v, T, hidden), getClientIndexOfThing(v, U, hidden, Place("ground", 1)), k)
            = GetTileDescription(v, U, hidden)
      BY <1>1, <1>2, <3>2, ItemComes
    <3>5. QED BY <2>2, <3>1, <3>3, <3>4
  <2> HIDE DEF m, q, U
  <2>5. Retells(s, Told(u, t, m), t, U, hidden)
    BY <1>2, <2>4, ToldRetells
  <2>6. IsTold(Told(u, t, m), u, t, m)
    BY <1>2, ToldIs DEF Changed
  <2>7. Told(u, t, m).tile = A
    BY <2>6, <2>a DEF IsTold
  <2>8. Good(Told(u, t, m), hidden)
    <3> HIDE DEF A
    <3>1. QED BY <1>3, <2>5, <2>7, RetoldIsGood
  <2>9. QED BY <2>1, <2>3, <2>8
<1>5. CASE T.ground # NoGround
  <2> DEFINE L == s.lost \ {<<v, t>> : v \in {w \in Watchers : t \in Sight[w]}}
             f == [tile |-> A, view |-> s.view, lost |-> L]
             m == [v \in Watchers |-> GetTileDescription(v, u.tile[t], hidden)]
             q == Tell(f, t, LAMBDA v, was : GetTileDescription(v, u.tile[t], hidden))
  <2>1. AddGround(s, t, k) = q
    <3>1. AddGround(s, t, k) = onUpdateTile([s EXCEPT !.tile[t].ground = k], t)
      BY <1>5 DEF AddGround
    <3>2. AddGround(s, t, k) = onUpdateTile(u, t)
      <4> HIDE DEF u
      <4>1. QED BY <1>2, <3>1
    <3>3. [u EXCEPT !.lost = @ \ {<<v, t>> : v \in {w \in Watchers : t \in Sight[w]}}] = f
      <4> DEFINE b == s.view
                 c == s.lost
                 D == {<<v, t>> : v \in {w \in Watchers : t \in Sight[w]}}
      <4>1. u = [tile |-> A, view |-> b, lost |-> c] /\ f = [tile |-> A, view |-> b, lost |-> c \ D]
        OBVIOUS
      <4> HIDE DEF A, b, c, D, u, f
      <4>3. [u EXCEPT !.lost = @ \ D] = f
        BY <4>1, LostLess
      <4>2. QED BY <4>3 DEF D
    <3> HIDE DEF f, u
    <3>4. onUpdateTile(u, t) = q
      BY <3>3 DEF onUpdateTile
    <3>5. QED BY <3>2, <3>4
  <2>2. u.tile = A /\ u.tile[t] = U
    BY <1>1
  <2>3. L \subseteq Watchers \X Tiles /\ \A v \in Watchers, w \in Tiles \ {t} : <<v, w>> \in s.lost => <<v, w>> \in L
    BY <1>1
  <2>4. Changed(s, f, t, U)
    <3> HIDE DEF L
    <3>1. QED BY <1>1, <2>3, GroundScene
  <2>5. f.lost = L /\ f.tile = A
    OBVIOUS
  <2> HIDE DEF u, f
  <2>6. q = Told(f, t, m)
    BY DEF Tell, Told
  <2>7. ASSUME NEW v \in Watchers
        PROVE  m[v] = GetTileDescription(v, U, hidden)
    BY <2>2
  <2> HIDE DEF m, q, U, L
  <2>8. Retells(s, Told(f, t, m), t, U, hidden)
    BY <1>2, <2>4, <2>7, ToldRetells
  <2>9. IsTold(Told(f, t, m), f, t, m)
    BY <2>4, ToldIs DEF Changed
  <2>10. Told(f, t, m).tile = A
    BY <2>5, <2>9 DEF IsTold
  <2>11. Good(Told(f, t, m), hidden)
    <3> HIDE DEF A
    <3>1. QED BY <1>3, <2>8, <2>10, RetoldIsGood
  <2>12. QED BY <2>1, <2>6, <2>11
<1>6. QED BY <1>4, <1>5



\* The first of some places of a list, 0 if there are none.
LEMMA FirstPlace ==
    ASSUME NEW n \in Nat, NEW I, I \subseteq 1..n, NEW k, k = IF I # {} THEN Min(I) ELSE 0
    PROVE  k \in 0..n /\ (k # 0 => k \in I) /\ (k = 0 => I = {})
<1>1. CASE I = {}
  BY <1>1
<1>2. CASE I # {}
  <2> DEFINE T == {m \in Nat : \A i \in I : i <= m => \E x \in I : \A y \in I : x <= y}
  <2>1. 0 \in T
    OBVIOUS
  <2>2. ASSUME NEW m \in Nat, m \in T PROVE m + 1 \in T
    <3> SUFFICES ASSUME NEW i \in I, i <= m + 1 PROVE \E x \in I : \A y \in I : x <= y
      OBVIOUS
    <3>1. CASE \E j \in I : j <= m
      BY <2>2, <3>1
    <3>2. CASE \A j \in I : ~(j <= m)
      <4>1. \A j \in I : i <= j
        BY <3>2
      <4>2. QED BY <4>1
    <3>3. QED BY <3>1, <3>2
  <2>3. \A m \in Nat : m \in T
    <3> HIDE DEF T
    <3>1. QED BY <2>1, <2>2, SetOfNaturals
  <2>4. PICK i \in I : TRUE
    BY <1>2
  <2>5. i \in T /\ i <= i
    <3>1. i \in Nat
      BY <2>4
    <3>2. QED BY <2>3, <3>1
  <2>6. \E x \in I : \A y \in I : x <= y
    BY <2>4, <2>5
  <2>7. Min(I) \in I
    BY <2>6 DEF Min
  <2> HIDE DEF T
  <2>8. k \in I /\ k \in 1..n
    BY <1>2, <2>7
  <2>9. QED BY <1>2, <2>8
<1>3. QED BY <1>1, <1>2

LEMMA AddTopGood ==
    ASSUME ViewAssumption, NEW s, Good(s, hidden), NEW t \in Tiles, NEW k \in TopItems
    PROVE  Good(AddTop(s, t, k), hidden)
<1> DEFINE list == s.tile[t].top
           I == {i \in 1..Len(list) : list[i] \in Splashes}
           old == SelectInSeq(list, LAMBDA j : j \in Splashes)
           U == IF k \in Splashes /\ old > 0 THEN RemoveThing(s, t, Place("top", old)) ELSE s
           next == SelectInSeq(U.tile[t].top, LAMBDA j : TopOrder[k] =< TopOrder[j])
           J == {i \in 1..Len(U.tile[t].top) : TopOrder[k] =< TopOrder[U.tile[t].top[i]]}
           i0 == IF next > 0 THEN next ELSE Len(U.tile[t].top) + 1
<1>1. IsScene(s) /\ s.tile[t] \in TileRecs /\ list \in Seq(TopItems) /\ Len(list) \in Nat
  BY DEF Good, IsScene, TileRecs
<1>2. old = IF I # {} THEN Min(I) ELSE 0
  BY DEF SelectInSeq
<1>3. old \in 0..Len(list)
  <2> HIDE DEF old, list
  <2>1. I \subseteq 1..Len(list)
    OBVIOUS
  <2> HIDE DEF I
  <2>2. QED BY <1>1, <1>2, <2>1, FirstPlace
<1>4. Good(U, hidden)
  <2>1. CASE k \in Splashes /\ old > 0
    <3> DEFINE W == [s.tile[t] EXCEPT !.top = RemoveAt(@, old)]
    <3>1. Goes(s.tile[t], W, "top", old)
      <4> HIDE DEF old
      <4>1. old \in 1..Len(list)
        BY <1>1, <1>3, <2>1
      <4>2. QED BY <4>1 DEF Goes
    <3> HIDE DEF W, old
    <3>2. QED BY <2>1, <3>1, RemoveThingGood
  <2>2. CASE ~ (k \in Splashes /\ old > 0)
    BY <2>2
  <2>3. QED BY <2>1, <2>2
<1>5. AddTop(s, t, k) = AddAt(U, t, Place("top", i0), k)
  BY DEF AddTop
<1>6. next = IF J # {} THEN Min(J) ELSE 0
  <2> HIDE DEF U
  <2>1. QED BY DEF SelectInSeq
<1> HIDE DEF U, old
<1>7. U.tile[t].top \in Seq(TopItems) /\ Len(U.tile[t].top) \in Nat
  BY <1>4 DEF Good, IsScene, TileRecs
<1>8. next \in 0..Len(U.tile[t].top)
  <2> HIDE DEF next
  <2> DEFINE n == Len(U.tile[t].top)
  <2>1. J \subseteq 1..n /\ n \in Nat
    BY <1>7
  <2> HIDE DEF J, n
  <2>2. next \in 0..n
    BY <1>6, <2>1, FirstPlace
  <2>3. QED BY <2>2 DEF n
<1> HIDE DEF next, J
<1>9. i0 \in 1..Len(U.tile[t]["top"]) + 1 /\ k \in Kinds("top")
  BY <1>7, <1>8 DEF Kinds
<1> HIDE DEF i0
<1>10. Good(AddAt(U, t, Place("top", i0), k), hidden)
  BY <1>4, <1>9, AddAtGood
<1>11. QED BY <1>5, <1>10

LEMMA AddDownGood ==
    ASSUME ViewAssumption, NEW s, Good(s, hidden), NEW t \in Tiles, NEW k \in DownItems
    PROVE  Good(AddDown(s, t, k), hidden)
<1> DEFINE list == s.tile[t].down
           I == {i \in 1..Len(list) : list[i] \in MagicFields}
           old == SelectInSeq(list, LAMBDA j : j \in MagicFields)
           U == RemoveThing(s, t, Place("down", old))
<1>1. IsScene(s) /\ s.tile[t] \in TileRecs /\ list \in Seq(DownItems) /\ Len(list) \in Nat
  BY DEF Good, IsScene, TileRecs
<1>2. old = IF I # {} THEN Min(I) ELSE 0
  BY DEF SelectInSeq
<1>3. old \in 0..Len(list)
  <2> HIDE DEF old, list
  <2>1. I \subseteq 1..Len(list)
    OBVIOUS
  <2> HIDE DEF I
  <2>2. QED BY <1>1, <1>2, <2>1, FirstPlace
<1>4. ASSUME NEW r, Good(r, hidden) PROVE Good(AddAt(r, t, Place("down", 1), k), hidden)
  <2>1. r.tile[t].down \in Seq(DownItems)
    BY <1>4 DEF Good, IsScene, TileRecs
  <2>2. 1 \in 1..Len(r.tile[t]["down"]) + 1 /\ k \in Kinds("down")
    BY <2>1 DEF Kinds
  <2>3. QED BY <1>4, <2>2, AddAtGood
<1>5. CASE k \in MagicFields /\ old > 0 /\ list[old] \in Lasting
  <2>1. AddDown(s, t, k) = s
    BY <1>5 DEF AddDown
  <2>2. QED BY <2>1
<1>6. CASE k \in MagicFields /\ old > 0 /\ list[old] \notin Lasting
  <2> DEFINE W == [s.tile[t] EXCEPT !.down = RemoveAt(@, old)]
  <2>1. AddDown(s, t, k) = AddAt(U, t, Place("down", 1), k)
    BY <1>6 DEF AddDown
  <2>2. Goes(s.tile[t], W, "down", old)
    <3> HIDE DEF old
    <3>1. old \in 1..Len(list)
      BY <1>1, <1>3, <1>6
    <3>2. QED BY <3>1 DEF Goes
  <2> HIDE DEF W, old
  <2>3. Good(U, hidden)
    BY <2>2, RemoveThingGood
  <2> HIDE DEF U
  <2>4. QED BY <1>4, <2>1, <2>3
<1>7. CASE ~ (k \in MagicFields /\ old > 0)
  <2>1. AddDown(s, t, k) = AddAt(s, t, Place("down", 1), k)
    BY <1>7 DEF AddDown
  <2>2. QED BY <1>4, <2>1
<1>8. QED BY <1>5, <1>6, <1>7

LEMMA AddThingGood ==
    ASSUME ViewAssumption, NEW s, Good(s, hidden), NEW t \in Tiles, NEW k \in Grounds \cup TopItems \cup DownItems
    PROVE  Good(AddThing(s, t, k), hidden)
<1>1. CASE k \in Grounds
  <2>1. AddThing(s, t, k) = AddGround(s, t, k)
    BY <1>1 DEF AddThing, ViewAssumption
  <2>2. QED BY <1>1, <2>1, AddGroundGood
<1>2. CASE k \in TopItems
  <2>1. AddThing(s, t, k) = AddTop(s, t, k)
    BY <1>2 DEF AddThing, ViewAssumption
  <2>2. QED BY <1>2, <2>1, AddTopGood
<1>3. CASE k \in DownItems
  <2>1. AddThing(s, t, k) = AddDown(s, t, k)
    BY <1>3 DEF AddThing, ViewAssumption
  <2>2. QED BY <1>3, <2>1, AddDownGood
<1>4. QED BY <1>1, <1>2, <1>3



LEMMA UpdateThingGood ==
    ASSUME ViewAssumption, NEW s, Good(s, hidden), NEW t \in Tiles, NEW part, NEW i, NEW U,
           NEW k \in Kinds(part), Changes(s.tile[t], U, part, i, k)
    PROVE  Good(UpdateThing(s, t, Place(part, i), k), hidden)
<1> DEFINE T == s.tile[t]
           p == Place(part, i)
           W == WithKind(T, p, k)
           m == [v \in Watchers |-> Updated(s.view[v][t], getClientIndexOfThing(v, W, hidden, p), k)]
           q == Tell(s, t, LAMBDA v, was : Updated(was, getClientIndexOfThing(v, W, hidden, p), k))
<1>1. IsScene(s) /\ T \in TileRecs /\ s.tile \in [Tiles -> TileRecs] /\ s.lost \subseteq Watchers \X Tiles
  BY DEF Good, IsScene
<1>2. p.part = part /\ p.at = i
  BY DEF Place
<1>3. W = U /\ part \in {"ground", "top", "down"}
  BY <1>2 DEF Changes, WithKind
<1>4. U \in TileRecs /\ U.creatures = T.creatures
  <2> HIDE DEF T
  <2>1. QED BY <1>1, ChangesType DEF T
<1>5. UpdateThing(s, t, p, k) = WithTile(q, t, W)
  <2> HIDE DEF p
  <2>1. QED BY DEF UpdateThing, WithTile
<1> HIDE DEF W, p, T
<1>6. q = Told(s, t, m)
  BY DEF Tell, Told
<1>7. ASSUME NEW v \in Watchers, t \in Sight[v], <<v, t>> \notin s.lost
      PROVE  m[v] = GetTileDescription(v, U, hidden)
  <2>1. s.view[v][t] = GetTileDescription(v, T, hidden)
    BY <1>7 DEF Good, Copies, T
  <2>2. Changes(T, U, part, i, k) /\ k \in Things
    BY <1>3, KindsAreThings DEF T
  <2>3. Updated(GetTileDescription(v, T, hidden), getClientIndexOfThing(v, U, hidden, p), k)
          = GetTileDescription(v, U, hidden)
    BY <1>1, <1>4, <2>2, ItemChanges DEF p
  <2>4. QED BY <1>3, <2>1, <2>3
<1> HIDE DEF m, q
<1>8. UpdateThing(s, t, p, k) = WithTile(Told(s, t, m), t, U)
  BY <1>3, <1>5, <1>6
<1>9. UpdateThing(s, t, p, k) = Turned(s, t, m, U, s.lost)
  BY <1>1, <1>8, TurnedIs
<1>10. Apart([s.tile EXCEPT ![t] = U])
  BY <1>1, <1>4, ItemsApart DEF Good, T
<1>11. Good(Turned(s, t, m, U, s.lost), hidden)
  BY <1>1, <1>4, <1>7, <1>10, TurnedIsGood
<1>12. QED BY <1>9, <1>11 DEF p

LEMMA ReplaceThingGood ==
    ASSUME ViewAssumption, NEW s, Good(s, hidden), NEW t \in Tiles, NEW part, NEW i, NEW U,
           NEW k \in Kinds(part), Changes(s.tile[t], U, part, i, k)
    PROVE  Good(ReplaceThing(s, t, Place(part, i), k), hidden)
<1> DEFINE T == s.tile[t]
           p == Place(part, i)
           A == [s.tile EXCEPT ![t] = U]
           D == {<<v, t>> : v \in {u \in Watchers : t \in Sight[u]
                                   /\ getClientIndexOfThing(u, T, hidden, p) < Limit}}
           r == [tile |-> A, view |-> s.view, lost |-> s.lost \cup D]
<1>1. IsScene(s) /\ T \in TileRecs /\ s.tile \in [Tiles -> TileRecs] /\ s.lost \subseteq Watchers \X Tiles
  BY DEF Good, IsScene
<1>2. p.part = part /\ p.at = i
  BY DEF Place
<1>3. WithKind(T, p, k) = U /\ part \in {"ground", "top", "down"}
  BY <1>2 DEF Changes, WithKind
<1>4. U \in TileRecs /\ U.creatures = T.creatures
  <2> HIDE DEF T
  <2>1. QED BY <1>1, ChangesType DEF T
<1>5. ReplaceThing(s, t, p, k) = r
  <2> DEFINE a == s.tile
             b == s.view
             c == s.lost
             W == WithKind(T, p, k)
  <2>1. s = [tile |-> a, view |-> b, lost |-> c]
    BY <1>1 DEF IsScene
  <2>2. ReplaceThing(s, t, p, k) = [s EXCEPT !.tile[t] = WithKind(@, p, k), !.lost = @ \cup D]
    <3> HIDE DEF p
    <3>1. QED BY DEF ReplaceThing
  <2>3. [s EXCEPT !.tile[t] = WithKind(@, p, k), !.lost = @ \cup D] = [s EXCEPT !.tile[t] = W, !.lost = c \cup D]
    <3> HIDE DEF p, D
    <3>1. s.tile[t] = T /\ s.lost = c
      OBVIOUS
    <3>2. QED BY <2>1, <3>1
  <2> DEFINE Q == [s EXCEPT !.tile[t] = W]
             B == [a EXCEPT ![t] = W]
             C == c \cup D
  <2> HIDE DEF W, D
  <2>4. Q = [tile |-> B, view |-> b, lost |-> c]
    <3> HIDE DEF a, b, c
    <3>1. QED BY <2>1
  <2>5. [s EXCEPT !.tile[t] = W, !.lost = C] = [Q EXCEPT !.lost = C]
    OBVIOUS
  <2> HIDE DEF B, C, Q, b, c
  <2>6. [Q EXCEPT !.lost = C] = [tile |-> B, view |-> b, lost |-> C]
    BY <2>4
  <2>7. B = A
    BY <1>3 DEF B, W
  <2>8. QED BY <2>2, <2>3, <2>5, <2>6, <2>7 DEF C, b, c
<1>6. r.tile = A /\ r.view = s.view /\ r.lost = s.lost \cup D /\ r = [tile |-> r.tile, view |-> r.view, lost |-> r.lost]
  <2> HIDE DEF A, D
  <2>1. QED OBVIOUS
<1> HIDE DEF r, T, p
<1>7. IsScene(r)
  <2>1. A \in [Tiles -> TileRecs] /\ s.lost \cup D \subseteq Watchers \X Tiles
    BY <1>1, <1>4
  <2>2. s.view = [v \in Watchers |-> [w \in Tiles |-> s.view[v][w]]]
    BY <1>1 DEF IsScene
  <2> HIDE DEF A, D
  <2>3. QED BY <1>6, <2>1, <2>2 DEF IsScene
<1>8. Retells(s, r, t, U, hidden)
  <2>1. ASSUME NEW v \in Watchers
        PROVE  IF t \notin Sight[v] THEN r.view[v][t] = s.view[v][t]
               ELSE <<v, t>> \notin r.lost => r.view[v][t] = GetTileDescription(v, U, hidden)
    <3>1. SUFFICES ASSUME t \in Sight[v], <<v, t>> \notin s.lost \cup D
                   PROVE  s.view[v][t] = GetTileDescription(v, U, hidden)
      BY <1>6
    <3>2. ~ getClientIndexOfThing(v, T, hidden, p) < Limit
      BY <3>1
    <3>3. s.view[v][t] = GetTileDescription(v, T, hidden)
      BY <3>1 DEF Good, Copies, T
    <3>4. Changes(T, U, part, i, k) /\ k \in Things
      BY <1>3, KindsAreThings DEF T
    <3>5. GetTileDescription(v, U, hidden) = GetTileDescription(v, T, hidden)
      BY <1>1, <1>4, <3>2, <3>4, ReplacedBelow DEF p
    <3>6. QED BY <3>3, <3>5
  <2> HIDE DEF D
  <2>2. ASSUME NEW v \in Watchers, NEW w \in Tiles \ {t}
        PROVE  r.view[v][w] = s.view[v][w] /\ (<<v, w>> \in s.lost => <<v, w>> \in r.lost)
    BY <1>6
  <2>3. QED BY <1>4, <1>6, <1>7, <2>1, <2>2 DEF Retells
<1>9. Apart(A)
  BY <1>1, <1>4, ItemsApart DEF Good, T
<1> HIDE DEF A
<1>10. Good(r, hidden)
  BY <1>6, <1>8, <1>9, RetoldIsGood
<1>11. QED BY <1>5, <1>10 DEF p



-----------------------------------------------------------------------------
(* The items of a tile                                                     *)

\* That there is an item at a place.
Holds(T, part, i) ==
    \/ part = "ground" /\ i = 1 /\ T.ground # NoGround
    \/ part \in {"top", "down"} /\ i \in 1..Len(T[part])

LEMMA PlacesAre ==
    ASSUME NEW T \in TileRecs, NEW p \in Places(T)
    PROVE  \E part, i : p = Place(part, i) /\ Holds(T, part, i)
<1>0. DOMAIN T.top = 1..Len(T.top) /\ DOMAIN T.down = 1..Len(T.down)
  BY DEF TileRecs
<1>1. CASE p \in {Place("ground", 1) : g \in {T.ground} \ {NoGround}}
  <2>1. p = Place("ground", 1) /\ Holds(T, "ground", 1)
    BY <1>1 DEF Holds
  <2>2. QED BY <2>1
<1>2. CASE p \in {Place("top", i) : i \in DOMAIN T.top}
  <2>1. PICK i \in DOMAIN T.top : p = Place("top", i)
    BY <1>2
  <2>2. Holds(T, "top", i)
    BY <1>0 DEF Holds
  <2>3. QED BY <2>1, <2>2
<1>3. CASE p \in {Place("down", i) : i \in DOMAIN T.down}
  <2>1. PICK i \in DOMAIN T.down : p = Place("down", i)
    BY <1>3
  <2>2. Holds(T, "down", i)
    BY <1>0 DEF Holds
  <2>3. QED BY <2>1, <2>2
<1>4. QED BY <1>1, <1>2, <1>3 DEF Places

LEMMA KindIs ==
    ASSUME NEW T \in TileRecs, NEW part, NEW i, Holds(T, part, i)
    PROVE  Kind(T, Place(part, i)) \in Kinds(part)
<1>1. Place(part, i).part = part /\ Place(part, i).at = i
  BY DEF Place
<1>2. Kind(T, Place(part, i)) = IF part = "ground" THEN T.ground ELSE T[part][i]
  BY <1>1 DEF Kind
<1>3. QED BY <1>2 DEF Holds, Kinds, TileRecs

LEMMA SomeoneGoes ==
    ASSUME NEW T \in TileRecs, NEW part, NEW i, Holds(T, part, i)
    PROVE  \E U : Goes(T, U, part, i)
<1>1. CASE part = "ground"
  <2>1. Goes(T, [T EXCEPT !.ground = NoGround], part, i)
    BY <1>1 DEF Holds, Goes
  <2>2. QED BY <2>1
<1>2. CASE part # "ground"
  <2>1. Goes(T, [T EXCEPT ![part] = RemoveAt(@, i)], part, i)
    BY <1>2 DEF Holds, Goes
  <2>2. QED BY <2>1
<1>3. QED BY <1>1, <1>2

LEMMA SomeoneChanges ==
    ASSUME ViewAssumption, NEW T \in TileRecs, NEW part, NEW i, Holds(T, part, i), NEW k \in Kinds(part)
    PROVE  \E U : Changes(T, U, part, i, k)
<1>1. CASE part = "ground"
  <2>1. k # NoGround
    BY <1>1 DEF Kinds, ViewAssumption
  <2>2. Changes(T, [T EXCEPT !.ground = k], part, i, k)
    BY <1>1, <2>1 DEF Holds, Changes
  <2>3. QED BY <2>2
<1>2. CASE part # "ground"
  <2>1. Changes(T, [T EXCEPT ![part][i] = k], part, i, k)
    BY <1>2 DEF Holds, Changes
  <2>2. QED BY <2>1
<1>3. QED BY <1>1, <1>2

LEMMA AddItemInv ==
    ASSUME ViewAssumption, TileInv, NEW t \in Tiles, NEW k \in Grounds \cup TopItems \cup DownItems, AddTileItem(t, k)
    PROVE  TileInv'
<1> DEFINE s == AddThing(Scene, t, k)
<1>1. Good(Scene, hidden) /\ hidden \subseteq Hiders /\ hidden' = hidden /\ TilesBecome(s)
  BY DEF TileInv, AddTileItem
<1>2. Good(s, hidden)
  BY <1>1, AddThingGood
<1> HIDE DEF s
<1>3. Good(s, hidden') /\ hidden' \subseteq Hiders
  BY <1>1, <1>2
<1>4. QED BY <1>1, <1>3, GoodBecomes

LEMMA RemoveItemInv ==
    ASSUME ViewAssumption, TileInv, NEW t \in Tiles, RemoveTileItem(t)
    PROVE  TileInv'
<1>1. PICK p \in Places(tile[t]) : TilesBecome(RemoveThing(Scene, t, p))
  BY DEF RemoveTileItem
<1>2. Good(Scene, hidden) /\ hidden \subseteq Hiders /\ hidden' = hidden /\ Scene.tile = tile
  BY DEF TileInv, RemoveTileItem, Scene
<1>3. tile[t] \in TileRecs
  BY <1>2 DEF Good, IsScene
<1>4. PICK part, i : p = Place(part, i) /\ Holds(tile[t], part, i)
  BY <1>3, PlacesAre
<1>5. PICK U : Goes(tile[t], U, part, i)
  BY <1>3, <1>4, SomeoneGoes
<1> DEFINE s == RemoveThing(Scene, t, Place(part, i))
<1>6. Good(s, hidden)
  BY <1>2, <1>5, RemoveThingGood
<1>7. TilesBecome(s)
  BY <1>1, <1>4
<1> HIDE DEF s
<1>8. Good(s, hidden') /\ hidden' \subseteq Hiders
  BY <1>2, <1>6
<1>9. QED BY <1>7, <1>8, GoodBecomes

LEMMA TransformItemInv ==
    ASSUME ViewAssumption, TileInv, NEW t \in Tiles, NEW p \in Places(tile[t]),
           NEW k \in Grounds \cup TopItems \cup DownItems, transformItem(t, p, k)
    PROVE  TileInv'
<1> DEFINE was == Kind(tile[t], p)
<1>1. Good(Scene, hidden) /\ hidden \subseteq Hiders /\ hidden' = hidden /\ Scene.tile = tile
  BY DEF TileInv, transformItem, Scene
<1>2. tile[t] \in TileRecs
  BY <1>1 DEF Good, IsScene
<1>3. PICK part, i : p = Place(part, i) /\ Holds(tile[t], part, i)
  BY <1>2, PlacesAre
<1>4. was \in Kinds(part)
  BY <1>2, <1>3, KindIs
<1> DEFINE s == CASE (k \in TopItems) # (was \in TopItems) -> AddThing(RemoveThing(Scene, t, p), t, k)
                  [] (k \in TopItems) = (was \in TopItems) /\ (k \in MagicFields) = (was \in MagicFields) ->
                        UpdateThing(Scene, t, p, k)
                  [] (k \in TopItems) = (was \in TopItems) /\ (k \in MagicFields) # (was \in MagicFields) ->
                        ReplaceThing(Scene, t, p, k)
<1>5. TilesBecome(s) /\ (k \in Grounds <=> was \in Grounds)
  BY DEF transformItem
<1>6. (k \in TopItems) = (was \in TopItems) => k \in Kinds(part)
  <2> HIDE DEF was
  <2>1. part \in {"ground", "top", "down"}
    BY <1>3 DEF Holds
  <2>2. QED BY <1>4, <1>5, <2>1 DEF Kinds, ViewAssumption
<1> HIDE DEF was
<1>7. Good(s, hidden)
  <2>1. CASE (k \in TopItems) # (was \in TopItems)
    <3>1. s = AddThing(RemoveThing(Scene, t, p), t, k)
      BY <2>1
    <3>2. PICK U : Goes(tile[t], U, part, i)
      BY <1>2, <1>3, SomeoneGoes
    <3>3. Good(RemoveThing(Scene, t, p), hidden)
      BY <1>1, <1>3, <3>2, RemoveThingGood
    <3>4. QED BY <3>1, <3>3, AddThingGood
  <2>2. CASE (k \in TopItems) = (was \in TopItems) /\ (k \in MagicFields) = (was \in MagicFields)
    <3>1. s = UpdateThing(Scene, t, p, k)
      BY <2>2
    <3>2. PICK U : Changes(tile[t], U, part, i, k)
      BY <1>2, <1>3, <1>6, <2>2, SomeoneChanges
    <3>3. Good(UpdateThing(Scene, t, p, k), hidden)
      BY <1>1, <1>3, <1>6, <2>2, <3>2, UpdateThingGood
    <3>4. QED BY <3>1, <3>3
  <2>3. CASE (k \in TopItems) = (was \in TopItems) /\ (k \in MagicFields) # (was \in MagicFields)
    <3>1. s = ReplaceThing(Scene, t, p, k)
      BY <2>3
    <3>2. PICK U : Changes(tile[t], U, part, i, k)
      BY <1>2, <1>3, <1>6, <2>3, SomeoneChanges
    <3>3. Good(ReplaceThing(Scene, t, p, k), hidden)
      BY <1>1, <1>3, <1>6, <2>3, <3>2, ReplaceThingGood
    <3>4. QED BY <3>1, <3>3
  <2>4. QED BY <2>1, <2>2, <2>3
<1> HIDE DEF s
<1>8. Good(s, hidden') /\ hidden' \subseteq Hiders
  BY <1>1, <1>7
<1>9. QED BY <1>5, <1>8, GoodBecomes



-----------------------------------------------------------------------------
(* The creatures of a tile                                                 *)

LEMMA TurnedRetells ==
    ASSUME NEW s, IsScene(s), NEW h, NEW t \in Tiles, NEW m, NEW U \in TileRecs, NEW L,
           L \subseteq Watchers \X Tiles, s.lost \subseteq L,
           \A v \in Watchers : (t \in Sight[v] /\ <<v, t>> \notin L) => m[v] = GetTileDescription(v, U, h)
    PROVE  Retells(s, Turned(s, t, m, U, L), t, U, h)
<1> DEFINE q == Told(s, t, m)
           r == Turned(s, t, m, U, L)
<1>1. IsTold(q, s, t, m)
  BY ToldIs
<1> HIDE DEF q
<1>2. r.tile = [s.tile EXCEPT ![t] = U] /\ r.view = q.view /\ r.lost = L
      /\ r = [tile |-> r.tile, view |-> r.view, lost |-> r.lost]
  BY DEF Turned, q
<1> HIDE DEF r
<1>3. [s.tile EXCEPT ![t] = U] \in [Tiles -> TileRecs]
  BY DEF IsScene
<1>4. q.view = [v \in Watchers |-> [u \in Tiles |-> q.view[v][u]]]
  BY <1>1 DEF IsTold, IsScene
<1>5. IsScene(r)
  BY <1>2, <1>3, <1>4 DEF IsScene
<1>6. \A v \in Watchers, u \in Tiles :
        r.view[v][u] = IF u = t /\ t \in Sight[v] /\ <<v, t>> \notin s.lost THEN m[v] ELSE s.view[v][u]
  BY <1>1, <1>2 DEF IsTold
<1>7. ASSUME NEW v \in Watchers
      PROVE  IF t \notin Sight[v] THEN r.view[v][t] = s.view[v][t]
             ELSE <<v, t>> \notin r.lost => r.view[v][t] = GetTileDescription(v, U, h)
  BY <1>2, <1>6
<1>8. ASSUME NEW v \in Watchers, NEW u \in Tiles \ {t}
      PROVE  r.view[v][u] = s.view[v][u] /\ (<<v, u>> \in s.lost => <<v, u>> \in r.lost)
  BY <1>2, <1>6
<1>9. QED BY <1>2, <1>5, <1>7, <1>8 DEF Retells, r

\* The same when those that are hidden have changed, as long as the other tiles look as before.
LEMMA RetoldHidden ==
    ASSUME NEW s, NEW r, NEW g, NEW h, Good(s, h), NEW t \in Tiles, NEW U, Retells(s, r, t, U, g), Apart(r.tile),
           \A v \in Watchers, u \in Tiles \ {t} :
               GetTileDescription(v, s.tile[u], g) = GetTileDescription(v, s.tile[u], h)
    PROVE  Good(r, g)
<1>1. IsScene(r) /\ r.tile[t] = U /\ \A u \in Tiles \ {t} : r.tile[u] = s.tile[u]
  BY DEF Good, IsScene, Retells
<1>2. ASSUME NEW v \in Watchers, NEW u \in Tiles
      PROVE  IF u \notin Sight[v] THEN r.view[v][u] = <<>>
             ELSE <<v, u>> \notin r.lost => r.view[v][u] = GetTileDescription(v, r.tile[u], g)
  <2>1. IF u \notin Sight[v] THEN s.view[v][u] = <<>>
        ELSE <<v, u>> \notin s.lost => s.view[v][u] = GetTileDescription(v, s.tile[u], h)
    BY DEF Good, Copies
  <2>2. CASE u = t
    BY <1>1, <2>1, <2>2 DEF Retells
  <2>3. CASE u # t
    <3>1. r.view[v][u] = s.view[v][u] /\ (<<v, u>> \in s.lost => <<v, u>> \in r.lost) /\ r.tile[u] = s.tile[u]
      BY <1>1, <2>3 DEF Retells
    <3>2. GetTileDescription(v, s.tile[u], g) = GetTileDescription(v, s.tile[u], h)
      BY <2>3
    <3>3. QED BY <2>1, <3>1, <3>2
  <2>4. QED BY <2>2, <2>3
<1>3. Copies(r, g)
  BY <1>2 DEF Copies
<1>4. QED BY <1>1, <1>3 DEF Good

\* A list with a creature that is not seen looks as the one without it.
LEMMA SeenAway ==
    ASSUME NEW v, NEW g, NEW h, NEW list \in Seq(Visitors), NEW k \in 1..Len(list),
           ~ canSeeCreature(v, list[k], g),
           \A i \in 1..Len(list) : i # k => canSeeCreature(v, list[i], g) = canSeeCreature(v, list[i], h)
    PROVE  Visible(v, list, g) = Visible(v, RemoveAt(list, k), h)
<1> DEFINE a == SeenBefore(v, list, k, g)
           b == SeenBehind(v, list, k, g)
           rest == RemoveAt(list, k)
<1>1. SeenAround(v, list, k, g)
  BY VisibleAround
<1>2. a \in Seq(Visitors) /\ b \in Seq(Visitors) /\ Visible(v, list, g) = a \o <<>> \o b /\ Visible(v, rest, g) = a \o b
  BY <1>1 DEF SeenAround
<1> HIDE DEF a, b
<1>3. a \o <<>> = a
  BY <1>2
<1>4. Visible(v, list, g) = Visible(v, rest, g)
  BY <1>2, <1>3
<1>5. /\ rest \in Seq(Visitors) /\ Len(rest) = Len(list) - 1 /\ Len(list) \in Nat
      /\ \A i \in 1..Len(list) - 1 : rest[i] = IF i < k THEN list[i] ELSE list[i + 1]
  BY RemoveAtIs
<1> HIDE DEF rest
<1>6. ASSUME NEW i \in 1..Len(rest)
      PROVE  canSeeCreature(v, rest[i], g) = canSeeCreature(v, rest[i], h)
  <2> DEFINE j == IF i < k THEN i ELSE i + 1
  <2>1. j \in 1..Len(list) /\ j # k /\ rest[i] = list[j]
    BY <1>5
  <2> HIDE DEF j
  <2>2. canSeeCreature(v, list[j], g) = canSeeCreature(v, list[j], h)
    BY <2>1
  <2>3. QED BY <2>1, <2>2
<1>7. Visible(v, rest, g) = Visible(v, rest, h)
  BY <1>5, <1>6, VisibleKept
<1>8. QED BY <1>4, <1>7 DEF rest

\* The creature is there, and once.
OnlyPlace(T, k, c) ==
    k \in 1..Len(T.creatures) /\ T.creatures[k] = c /\ \A i \in 1..Len(T.creatures) : T.creatures[i] = c => i = k

LEMMA PlaceOfIs ==
    ASSUME NEW T \in TileRecs, NEW k, NEW c, OnlyPlace(T, k, c)
    PROVE  PlaceOf(T, c) = Place("creatures", k)
<1>1. DOMAIN T.creatures = 1..Len(T.creatures)
  BY DEF TileRecs
<1> DEFINE i == CHOOSE i \in DOMAIN T.creatures : T.creatures[i] = c
<1>2. i = k
  BY <1>1 DEF OnlyPlace
<1>3. QED BY <1>2 DEF PlaceOf

LEMMA OnIs ==
    ASSUME NEW h, Good(Scene, h), NEW c, NEW t \in Tiles, On(c, t)
    PROVE  /\ \E k : OnlyPlace(tile[t], k, c)
           /\ \A u \in Tiles \ {t} : \A i \in 1..Len(tile[u].creatures) : tile[u].creatures[i] # c
<1>1. Scene.tile = tile
  BY DEF Scene
<1>2. Apart(tile) /\ tile \in [Tiles -> TileRecs]
  BY <1>1 DEF Good, IsScene
<1>3. DOMAIN tile[t].creatures = 1..Len(tile[t].creatures)
  BY <1>2 DEF TileRecs
<1>4. PICK k \in 1..Len(tile[t].creatures) : tile[t].creatures[k] = c
  BY <1>3 DEF On
<1>5. OnlyPlace(tile[t], k, c)
  BY <1>2, <1>4 DEF Apart, OnlyPlace
<1>6. \A u \in Tiles \ {t} : \A i \in 1..Len(tile[u].creatures) : tile[u].creatures[i] # c
  BY <1>2, <1>4 DEF Apart
<1>7. QED BY <1>5, <1>6



\* What each watcher shows of a tile when those of who are told that c comes to it or goes.
ComeFor(s, t, c, who, h) == [v \in Watchers |->
    IF v \in who THEN Added(s.view[v][t], getClientIndexOfThing(v, s.tile[t], h, PlaceOf(s.tile[t], c)), c)
    ELSE s.view[v][t]]
GoneFor(s, t, c, who) == [v \in Watchers |->
    IF v \in who THEN Removed(s.view[v][t], getClientIndexOfThing(v, s.tile[t], hidden, PlaceOf(s.tile[t], c)))
    ELSE s.view[v][t]]

LEMMA AppearsIs ==
    ASSUME NEW s, NEW t, NEW c, NEW who, NEW h
    PROVE  Appears(s, t, c, who, h) = Told(s, t, ComeFor(s, t, c, who, h))
<1> DEFINE T == s.tile[t]
           p == PlaceOf(T, c)
<1>1. Appears(s, t, c, who, h)
        = Tell(s, t, LAMBDA v, was : IF v \in who THEN Added(was, getClientIndexOfThing(v, T, h, p), c) ELSE was)
  BY DEF Appears
<1>2. ComeFor(s, t, c, who, h)
        = [v \in Watchers |-> IF v \in who THEN Added(s.view[v][t], getClientIndexOfThing(v, T, h, p), c)
                              ELSE s.view[v][t]]
  BY DEF ComeFor
<1> HIDE DEF p, T
<1>3. QED BY <1>1, <1>2 DEF Tell, Told

\* The scene of a tile that c disappears from, of which U is left.
GoneScene(s, t, c, who, U) ==
    Turned(s, t, GoneFor(s, t, c, who), U, s.lost \cup Uncovered(s, t, PlaceOf(s.tile[t], c), who))

LEMMA DisappearsIs ==
    ASSUME NEW s, IsScene(s), NEW t \in Tiles, NEW c, NEW who
    PROVE  /\ Disappears(s, t, c, who) = GoneScene(s, t, c, who, s.tile[t])
           /\ \A U : WithTile(Disappears(s, t, c, who), t, U) = GoneScene(s, t, c, who, U)
<1> DEFINE T == s.tile[t]
           p == PlaceOf(T, c)
           D == Uncovered(s, t, p, who)
           m == GoneFor(s, t, c, who)
           q == Tell(s, t, LAMBDA v, was :
                    IF v \in who THEN Removed(was, getClientIndexOfThing(v, T, hidden, p)) ELSE was)
           r == Disappears(s, t, c, who)
<1>1. r = [q EXCEPT !.lost = @ \cup D]
  BY DEF Disappears
<1>2. m = [v \in Watchers |-> IF v \in who THEN Removed(s.view[v][t], getClientIndexOfThing(v, T, hidden, p))
                              ELSE s.view[v][t]]
  BY DEF GoneFor
<1> HIDE DEF p, T, m, r
<1>3. q = Told(s, t, m)
  BY <1>2 DEF Tell, Told
<1> HIDE DEF q
<1>4. IsTold(q, s, t, m)
  BY <1>3, ToldIs
<1> DEFINE a == s.tile
           b == q.view
           c0 == s.lost
           L == c0 \cup D
<1>5. q = [tile |-> a, view |-> b, lost |-> c0] /\ a \in [Tiles -> TileRecs] /\ b = Told(s, t, m).view
  BY <1>3, <1>4 DEF IsTold, IsScene
<1> HIDE DEF a, b, c0, D
<1>6. r = [tile |-> a, view |-> b, lost |-> L]
  BY <1>1, <1>5
<1> HIDE DEF L
<1>7. ASSUME NEW U PROVE WithTile(r, t, U) = [tile |-> [a EXCEPT ![t] = U], view |-> b, lost |-> L]
  BY <1>6 DEF WithTile
<1>8. [a EXCEPT ![t] = a[t]] = a
  BY <1>5
<1>9. r = Turned(s, t, m, a[t], L)
  BY <1>5, <1>6, <1>8 DEF Turned, a
<1>10. \A U : WithTile(r, t, U) = Turned(s, t, m, U, L)
  BY <1>5, <1>7 DEF Turned, a
<1>11. QED BY <1>9, <1>10 DEF L, D, c0, a, m, p, r, T, GoneScene

LEMMA WithCreatureIs ==
    ASSUME NEW T \in TileRecs, NEW c \in Visitors,
           \A i \in 1..Len(T.creatures) : T.creatures[i] # c
    PROVE  /\ WithCreature(T, c) \in TileRecs /\ OnlyPlace(WithCreature(T, c), 1, c)
           /\ SameBut(T, WithCreature(T, c), "creatures")
           /\ RemoveAt(WithCreature(T, c).creatures, 1) = T.creatures
           /\ Len(WithCreature(T, c).creatures) = Len(T.creatures) + 1
           /\ \A i \in 1..Len(T.creatures) : WithCreature(T, c).creatures[i + 1] = T.creatures[i]
<1> DEFINE list == T.creatures
           new == <<c>> \o list
           U == WithCreature(T, c)
<1>1. list \in Seq(Visitors) /\ Len(list) \in Nat
  BY DEF TileRecs
<1>2. U = [T EXCEPT !.creatures = new]
  BY DEF WithCreature
<1>3. U.creatures = new /\ SameBut(T, U, "creatures")
  <2> HIDE DEF new, U
  <2>1. QED BY <1>2 DEF TileRecs, SameBut
<1> HIDE DEF list
<1>4. new \in Seq(Visitors) /\ Len(new) = Len(list) + 1 /\ new[1] = c /\ \A i \in 1..Len(list) : new[i + 1] = list[i]
  BY <1>1
<1>5. U \in TileRecs
  <2> HIDE DEF new, U
  <2>1. QED BY <1>2, <1>4 DEF TileRecs
<1>6. RemoveAt(new, 1) = list
  <2>1. /\ RemoveAt(new, 1) \in Seq(Visitors) /\ Len(RemoveAt(new, 1)) = Len(new) - 1
        /\ \A i \in 1..Len(new) - 1 : RemoveAt(new, 1)[i] = IF i < 1 THEN new[i] ELSE new[i + 1]
    <3> HIDE DEF new
    <3>1. 1 \in 1..Len(new)
      BY <1>1, <1>4
    <3>2. QED BY <1>4, <3>1, RemoveAtIs
  <2> DEFINE q == RemoveAt(new, 1)
  <2> HIDE DEF q, new
  <2>2. Len(q) = Len(list) /\ \A i \in 1..Len(list) : q[i] = list[i]
    BY <1>1, <1>4, <2>1 DEF q
  <2>3. q \in Seq(Visitors)
    BY <2>1 DEF q
  <2>4. q = list
    BY <1>1, <2>2, <2>3
  <2>5. QED BY <2>4 DEF q
<1> HIDE DEF new, U
<1>7. OnlyPlace(U, 1, c)
  <2>1. 1 \in 1..Len(new) /\ new[1] = c
    BY <1>1, <1>4
  <2>2. ASSUME NEW i \in 1..Len(new), new[i] = c, i # 1 PROVE FALSE
    <3>1. i - 1 \in 1..Len(list) /\ (i - 1) + 1 = i
      BY <1>1, <1>4, <2>2
    <3>2. new[(i - 1) + 1] = list[i - 1]
      BY <1>4, <3>1
    <3>3. QED BY <2>2, <3>1, <3>2 DEF list
  <2>3. QED BY <1>3, <2>1, <2>2 DEF OnlyPlace
<1>8. QED BY <1>3, <1>4, <1>5, <1>6, <1>7 DEF U, list

LEMMA WithoutIs ==
    ASSUME NEW T \in TileRecs, NEW k, NEW c, OnlyPlace(T, k, c)
    PROVE  /\ WithoutCreature(T, c) \in TileRecs /\ SameBut(T, WithoutCreature(T, c), "creatures")
           /\ WithoutCreature(T, c).creatures = RemoveAt(T.creatures, k)
<1> DEFINE new == RemoveAt(T.creatures, k)
<1>1. PlaceOf(T, c).at = k
  BY PlaceOfIs DEF Place
<1>2. T.creatures \in Seq(Visitors) /\ k \in 1..Len(T.creatures)
  BY DEF TileRecs, OnlyPlace
<1>3. new \in Seq(Visitors)
  BY <1>2, RemoveAtIs
<1>4. WithoutCreature(T, c) = [T EXCEPT !.creatures = new]
  BY <1>1 DEF WithoutCreature
<1> HIDE DEF new
<1>5. QED BY <1>3, <1>4 DEF TileRecs, SameBut, new



\* c is on none of the tiles.
Nowhere(tiles, c) == \A u \in Tiles : \A i \in 1..Len(tiles[u].creatures) : tiles[u].creatures[i] # c

LEMMA ApartWith ==
    ASSUME NEW tiles \in [Tiles -> TileRecs], Apart(tiles), NEW t \in Tiles, NEW c \in Visitors, Nowhere(tiles, c)
    PROVE  Apart([tiles EXCEPT ![t] = WithCreature(tiles[t], c)])
<1> DEFINE U == WithCreature(tiles[t], c)
           new == [tiles EXCEPT ![t] = U]
           list == tiles[t].creatures
<1>1. /\ OnlyPlace(U, 1, c) /\ Len(U.creatures) = Len(list) + 1
      /\ \A i \in 1..Len(list) : U.creatures[i + 1] = list[i]
  BY WithCreatureIs DEF Nowhere
<1>2. list \in Seq(Visitors) /\ Len(list) \in Nat
  BY DEF TileRecs
<1> HIDE DEF U
<1>3. \A u \in Tiles : new[u] = IF u = t THEN U ELSE tiles[u]
  OBVIOUS
<1> HIDE DEF new
<1>4. SUFFICES ASSUME NEW u \in Tiles, NEW w \in Tiles, NEW i \in 1..Len(new[u].creatures),
                      NEW j \in 1..Len(new[w].creatures), new[u].creatures[i] = new[w].creatures[j]
               PROVE  u = w /\ i = j
  BY DEF Apart, new, U
<1>5. ASSUME NEW x \in 1..Len(U.creatures), x # 1
      PROVE  x - 1 \in 1..Len(list) /\ U.creatures[x] = list[x - 1]
  <2>1. x - 1 \in 1..Len(list) /\ (x - 1) + 1 = x
    BY <1>1, <1>2, <1>5
  <2>2. U.creatures[(x - 1) + 1] = list[x - 1]
    BY <1>1, <2>1
  <2>3. QED BY <2>1, <2>2
<1>6. CASE u = t /\ w = t
  <2>1. i \in 1..Len(U.creatures) /\ j \in 1..Len(U.creatures) /\ U.creatures[i] = U.creatures[j]
    BY <1>3, <1>4, <1>6
  <2>2. CASE i = 1 \/ j = 1
    BY <1>1, <1>6, <2>1, <2>2 DEF OnlyPlace
  <2>3. CASE i # 1 /\ j # 1
    <3>1. i - 1 \in 1..Len(list) /\ j - 1 \in 1..Len(list) /\ list[i - 1] = list[j - 1]
      BY <1>5, <2>1, <2>3
    <3>2. i - 1 = j - 1
      BY <3>1 DEF Apart
    <3>3. QED BY <1>6, <2>1, <3>2
  <2>4. QED BY <2>2, <2>3
<1>7. CASE u = t /\ w # t
  <2>1. i \in 1..Len(U.creatures) /\ j \in 1..Len(tiles[w].creatures) /\ U.creatures[i] = tiles[w].creatures[j]
    BY <1>3, <1>4, <1>7
  <2>2. i # 1
    BY <1>1, <2>1 DEF OnlyPlace, Nowhere
  <2>3. i - 1 \in 1..Len(list) /\ list[i - 1] = tiles[w].creatures[j]
    BY <1>5, <2>1, <2>2
  <2>4. QED BY <1>7, <2>1, <2>3 DEF Apart
<1>8. CASE u # t /\ w = t
  <2>1. j \in 1..Len(U.creatures) /\ i \in 1..Len(tiles[u].creatures) /\ U.creatures[j] = tiles[u].creatures[i]
    BY <1>3, <1>4, <1>8
  <2>2. j # 1
    BY <1>1, <2>1 DEF OnlyPlace, Nowhere
  <2>3. j - 1 \in 1..Len(list) /\ list[j - 1] = tiles[u].creatures[i]
    BY <1>5, <2>1, <2>2
  <2>4. QED BY <1>8, <2>1, <2>3 DEF Apart
<1>9. CASE u # t /\ w # t
  <2>1. i \in 1..Len(tiles[u].creatures) /\ j \in 1..Len(tiles[w].creatures)
        /\ tiles[u].creatures[i] = tiles[w].creatures[j]
    BY <1>3, <1>4, <1>9
  <2>2. QED BY <2>1 DEF Apart
<1>10. QED BY <1>6, <1>7, <1>8, <1>9

LEMMA ApartWithout ==
    ASSUME NEW tiles \in [Tiles -> TileRecs], Apart(tiles), NEW t \in Tiles, NEW k, NEW c, OnlyPlace(tiles[t], k, c)
    PROVE  /\ Apart([tiles EXCEPT ![t] = WithoutCreature(tiles[t], c)])
           /\ Nowhere([tiles EXCEPT ![t] = WithoutCreature(tiles[t], c)], c)
<1> DEFINE U == WithoutCreature(tiles[t], c)
           new == [tiles EXCEPT ![t] = U]
           list == tiles[t].creatures
           rest == RemoveAt(list, k)
           old(x) == IF x < k THEN x ELSE x + 1
<1>1. U.creatures = rest
  BY WithoutIs
<1>2. list \in Seq(Visitors) /\ Len(list) \in Nat /\ k \in 1..Len(list) /\ list[k] = c
  BY DEF TileRecs, OnlyPlace
<1>3. Len(rest) = Len(list) - 1 /\ \A i \in 1..Len(list) - 1 : rest[i] = IF i < k THEN list[i] ELSE list[i + 1]
  <2> HIDE DEF list
  <2>1. QED BY <1>2, RemoveAtIs
<1> HIDE DEF U, rest
<1>4. \A u \in Tiles : new[u] = IF u = t THEN U ELSE tiles[u]
  OBVIOUS
<1> HIDE DEF new
<1>5. ASSUME NEW x \in 1..Len(U.creatures)
      PROVE  old(x) \in 1..Len(list) /\ U.creatures[x] = list[old(x)] /\ old(x) # k
  <2> HIDE DEF list
  <2>1. QED BY <1>1, <1>2, <1>3
<1>6. ASSUME NEW x \in 1..Len(U.creatures), NEW y \in 1..Len(U.creatures), old(x) = old(y) PROVE x = y
  <2>1. x \in Int /\ y \in Int /\ k \in Int
    BY <1>2
  <2>2. QED BY <1>6, <2>1
<1> HIDE DEF old
<1>7. ASSUME NEW u \in Tiles, NEW i \in 1..Len(new[u].creatures)
      PROVE  \E n : /\ n \in 1..Len(tiles[u].creatures) /\ new[u].creatures[i] = tiles[u].creatures[n]
                    /\ u = t => n = old(i) /\ n # k /\ i \in 1..Len(U.creatures)
                    /\ u # t => n = i
  <2>1. CASE u = t
    BY <1>4, <1>5, <1>7, <2>1
  <2>2. CASE u # t
    BY <1>4, <1>7, <2>2
  <2>3. QED BY <2>1, <2>2
<1>8. Apart(new)
  <2>1. SUFFICES ASSUME NEW u \in Tiles, NEW w \in Tiles, NEW i \in 1..Len(new[u].creatures),
                        NEW j \in 1..Len(new[w].creatures), new[u].creatures[i] = new[w].creatures[j]
                 PROVE  u = w /\ i = j
    BY DEF Apart
  <2>2. PICK n : /\ n \in 1..Len(tiles[u].creatures) /\ new[u].creatures[i] = tiles[u].creatures[n]
                 /\ u = t => n = old(i) /\ n # k /\ i \in 1..Len(U.creatures)
                 /\ u # t => n = i
    BY <1>7
  <2>3. PICK m : /\ m \in 1..Len(tiles[w].creatures) /\ new[w].creatures[j] = tiles[w].creatures[m]
                 /\ w = t => m = old(j) /\ m # k /\ j \in 1..Len(U.creatures)
                 /\ w # t => m = j
    BY <1>7
  <2>a. tiles[u].creatures[n] = tiles[w].creatures[m] /\ n \in 1..Len(tiles[u].creatures) /\ m \in 1..Len(tiles[w].creatures)
    BY <2>1, <2>2, <2>3
  <2>4. u = w /\ n = m
    BY <2>a DEF Apart
  <2>5. QED BY <1>6, <2>2, <2>3, <2>4
<1>9. Nowhere(new, c)
  <2>1. SUFFICES ASSUME NEW u \in Tiles, NEW i \in 1..Len(new[u].creatures), new[u].creatures[i] = c PROVE FALSE
    BY DEF Nowhere
  <2>2. PICK n : /\ n \in 1..Len(tiles[u].creatures) /\ new[u].creatures[i] = tiles[u].creatures[n]
                 /\ u = t => n = old(i) /\ n # k /\ i \in 1..Len(U.creatures)
                 /\ u # t => n = i
    BY <1>7
  <2>3. tiles[u].creatures[n] = tiles[t].creatures[k] /\ k \in 1..Len(tiles[t].creatures)
    BY <1>2, <2>1, <2>2
  <2>4. QED BY <2>2, <2>3 DEF Apart
<1>10. QED BY <1>8, <1>9 DEF new, U



LEMMA PlaceCreatureInv ==
    ASSUME ViewAssumption, TileInv, NEW c \in Visitors, NEW t \in Tiles, placeCreature(c, t)
    PROVE  TileInv'
<1> DEFINE s == Scene
           T == tile[t]
           U == WithCreature(T, c)
           A == [tile EXCEPT ![t] = U]
           u == [Scene EXCEPT !.tile[t] = WithCreature(@, c)]
           who == Seers(c, hidden)
           m == ComeFor(u, t, c, who, hidden)
           r == Told(u, t, m)
<1>1. /\ Good(s, hidden) /\ hidden \subseteq Hiders /\ hidden' = hidden
      /\ s = [tile |-> tile, view |-> view, lost |-> stray] /\ s.tile = tile /\ s.view = view /\ s.lost = stray
  BY DEF TileInv, placeCreature, Scene
<1>2. IsScene(s) /\ tile \in [Tiles -> TileRecs] /\ T \in TileRecs /\ Apart(tile)
  BY <1>1 DEF Good, IsScene
<1>3. Nowhere(tile, c)
  <2>1. \A w \in Tiles : DOMAIN tile[w].creatures = 1..Len(tile[w].creatures)
    BY <1>2 DEF TileRecs
  <2>2. QED BY <2>1 DEF placeCreature, On, Nowhere
<1>4. /\ U \in TileRecs /\ OnlyPlace(U, 1, c) /\ SameBut(T, U, "creatures") /\ RemoveAt(U.creatures, 1) = T.creatures
  <2> HIDE DEF T
  <2>1. \A i \in 1..Len(T.creatures) : T.creatures[i] # c
    BY <1>3 DEF Nowhere, T
  <2>2. QED BY <1>2, <2>1, WithCreatureIs
<1>5. Apart(A)
  BY <1>2, <1>3, ApartWith
<1>6. TilesBecome(r)
  <2> HIDE DEF u, m, who
  <2>1. TilesBecome(Appears(u, t, c, who, hidden))
    BY DEF placeCreature, u, who
  <2>2. QED BY <2>1, AppearsIs DEF m
<1>7. Changed(s, u, t, U)
  <2>1. u = [tile |-> A, view |-> view, lost |-> stray]
    <3> HIDE DEF s
    <3>1. Scene = [tile |-> tile, view |-> view, lost |-> stray]
      BY DEF Scene
    <3>2. QED BY <3>1
  <2>2. A \in [Tiles -> TileRecs]
    BY <1>2, <1>4
  <2> HIDE DEF A, u, U
  <2>3. u.tile = A /\ u.view = view /\ u.lost = stray /\ u = [tile |-> u.tile, view |-> u.view, lost |-> u.lost]
    BY <2>1
  <2>4. IsScene(u)
    BY <1>1, <1>2, <2>2, <2>3 DEF IsScene
  <2>5. QED BY <1>1, <2>3, <2>4 DEF Changed, A
<1> HIDE DEF s
<1>8. u.view = s.view /\ u.tile = A /\ u.tile[t] = U /\ u.lost = s.lost
  <2>1. u.tile = A
    BY <1>1, <1>7 DEF Changed
  <2>2. u.lost = s.lost
    <3>1. Scene = [tile |-> tile, view |-> view, lost |-> stray]
      BY DEF Scene
    <3>2. u.lost = stray
      BY <3>1
    <3>3. QED BY <1>1, <3>2
  <2>3. QED BY <1>2, <1>7, <2>1, <2>2 DEF Changed
<1> HIDE DEF u, A
<1>9. ASSUME NEW v \in Watchers, t \in Sight[v], <<v, t>> \notin u.lost
      PROVE  m[v] = GetTileDescription(v, U, hidden)
  <2>1. u.view[v][t] = GetTileDescription(v, T, hidden)
    BY <1>1, <1>8, <1>9 DEF Good, Copies
  <2>2. PlaceOf(U, c) = Place("creatures", 1)
    BY <1>4, PlaceOfIs
  <2>3. 1 \in 1..Len(U.creatures) /\ U.creatures[1] = c /\ U.creatures \in Seq(Visitors)
    BY <1>4 DEF OnlyPlace, TileRecs
  <2> HIDE DEF T, U
  <2>4. CASE v \in who
    <3>1. m[v] = Added(GetTileDescription(v, T, hidden),
                       getClientIndexOfThing(v, U, hidden, Place("creatures", 1)), U.creatures[1])
      BY <1>8, <2>1, <2>2, <2>3, <2>4 DEF ComeFor
    <3>2. canSeeCreature(v, U.creatures[1], hidden)
      BY <2>3, <2>4 DEF Seers
    <3> HIDE DEF m
    <3>3. Visible(v, T.creatures, hidden) = Visible(v, RemoveAt(U.creatures, 1), hidden)
      BY <1>4
    <3>4. QED BY <1>2, <1>4, <2>3, <3>1, <3>2, <3>3, CreatureAppears
  <2>5. CASE v \notin who
    <3>1. m[v] = GetTileDescription(v, T, hidden)
      BY <2>1, <2>5 DEF ComeFor
    <3>2. ~ canSeeCreature(v, U.creatures[1], hidden)
      BY <2>3, <2>5 DEF Seers
    <3> HIDE DEF m
    <3>3. Visible(v, U.creatures, hidden) = Visible(v, RemoveAt(U.creatures, 1), hidden)
      BY <2>3, <3>2, SeenAway
    <3>4. GetTileDescription(v, U, hidden) = GetTileDescription(v, T, hidden)
      BY <1>4, <3>3, CreatureUnseen
    <3>5. QED BY <3>1, <3>4
  <2>6. QED BY <2>4, <2>5
<1> HIDE DEF m, U, T
<1>10. Retells(s, r, t, U, hidden)
  BY <1>4, <1>7, <1>9, ToldRetells
<1>11. r.tile = A
  <2>1. IsTold(r, u, t, m)
    BY <1>7, ToldIs DEF Changed
  <2>2. QED BY <1>8, <2>1 DEF IsTold
<1> HIDE DEF r
<1>12. Good(r, hidden)
  BY <1>1, <1>5, <1>10, <1>11, RetoldIsGood
<1>13. Good(r, hidden') /\ hidden' \subseteq Hiders
  BY <1>1, <1>12
<1>14. QED BY <1>6, <1>13, GoodBecomes

\* Those of who see U as T without its k-th creature, the others as they saw T.
Misses(T, U, k, c, who, g) == \A v \in Watchers :
    IF v \in who
    THEN canSeeCreature(v, c, hidden) /\ Visible(v, U.creatures, g) = Visible(v, RemoveAt(T.creatures, k), hidden)
    ELSE Visible(v, U.creatures, g) = Visible(v, T.creatures, hidden)

\* The k-th creature of a tile goes from the sight of those of who, and U is left.
Leaves(s, t, k, c, who, g, U) ==
    /\ OnlyPlace(s.tile[t], k, c) /\ who \subseteq Watchers /\ U \in TileRecs
    /\ SameBut(s.tile[t], U, "creatures") /\ Misses(s.tile[t], U, k, c, who, g)

\* What a watcher shows of a tile when a creature is gone from his sight, there or not.
LEMMA GoneShows ==
    ASSUME ViewAssumption, NEW s, Good(s, hidden), NEW t \in Tiles, NEW c, NEW k, NEW who, NEW g, NEW U,
           Leaves(s, t, k, c, who, g, U),
           NEW v \in Watchers, t \in Sight[v], <<v, t>> \notin s.lost,
           <<v, t>> \notin Uncovered(s, t, PlaceOf(s.tile[t], c), who)
    PROVE  GoneFor(s, t, c, who)[v] = GetTileDescription(v, U, g)
<1> USE DEF Leaves
<1> DEFINE T == s.tile[t]
<1>1. IsScene(s) /\ T \in TileRecs /\ s.view[v][t] = GetTileDescription(v, T, hidden)
  BY DEF Good, IsScene, Copies
<1>2. PlaceOf(T, c) = Place("creatures", k) /\ k \in 1..Len(T.creatures) /\ T.creatures[k] = c
  <2>1. OnlyPlace(T, k, c)
    BY DEF Leaves
  <2> HIDE DEF T
  <2>2. PlaceOf(T, c) = Place("creatures", k)
    BY <1>1, <2>1, PlaceOfIs
  <2>3. QED BY <2>1, <2>2 DEF OnlyPlace
<1>3. CASE v \in who
  <2> DEFINE n == getClientIndexOfThing(v, T, hidden, Place("creatures", k))
  <2>1. GoneFor(s, t, c, who)[v] = Removed(GetTileDescription(v, T, hidden), n)
    BY <1>1, <1>2, <1>3 DEF GoneFor
  <2>2. ~ (Len(Stack(v, T, hidden)) > Limit /\ n < Limit)
    BY <1>2, <1>3, UncoveredIs
  <2>3. /\ canSeeCreature(v, T.creatures[k], hidden) /\ SameBut(T, U, "creatures")
        /\ Visible(v, U.creatures, g) = Visible(v, RemoveAt(T.creatures, k), hidden)
    BY <1>2, <1>3 DEF Misses
  <2> HIDE DEF T
  <2>4. Stack(v, T, hidden) \in Seq(Things) /\ Limit \in Nat
    BY <1>1, StackType DEF ViewAssumption
  <2>5. n \in Int
    <3>1. n = SeenAt(T, Len(SeenBefore(v, T.creatures, k, hidden)))
      BY <1>1, <1>2, CreatureIndex
    <3>2. SeenBefore(v, T.creatures, k, hidden) \in Seq(Visitors)
      <4>1. T.creatures \in Seq(Visitors)
        BY <1>1 DEF TileRecs
      <4>2. SeenAround(v, T.creatures, k, hidden)
        BY <1>2, <4>1, VisibleAround
      <4>3. QED BY <4>2 DEF SeenAround
    <3>3. Len(Ground(T)) \in Nat /\ Len(T.top) \in Nat /\ Len(SeenBefore(v, T.creatures, k, hidden)) \in Nat
      BY <1>1, <3>2, PartsAre
    <3> HIDE DEF n
    <3>4. QED BY <3>1, <3>3 DEF SeenAt
  <2>6. Len(Stack(v, T, hidden)) <= Limit \/ n >= Limit
    <3> DEFINE a == Len(Stack(v, T, hidden))
    <3>1. a \in Nat /\ ~ (a > Limit /\ n < Limit)
      BY <2>2, <2>4
    <3> HIDE DEF a, n
    <3>2. a <= Limit \/ n >= Limit
      BY <2>4, <2>5, <3>1
    <3>3. QED BY <3>2 DEF a
  <2>7. Removed(GetTileDescription(v, T, hidden), getClientIndexOfThing(v, T, hidden, Place("creatures", k)))
          = GetTileDescription(v, U, g)
    BY <1>1, <1>2, <2>3, <2>6, CreatureVanishes
  <2>8. QED BY <2>1, <2>7
<1>4. CASE v \notin who
  <2>1. GoneFor(s, t, c, who)[v] = GetTileDescription(v, T, hidden)
    BY <1>1, <1>4 DEF GoneFor
  <2>2. SameBut(T, U, "creatures") /\ Visible(v, U.creatures, g) = Visible(v, T.creatures, hidden)
    BY <1>4 DEF Misses
  <2> HIDE DEF T
  <2>3. GetTileDescription(v, U, g) = GetTileDescription(v, T, hidden)
    BY <2>2, CreatureUnseen
  <2>4. QED BY <2>1, <2>3
<1>5. QED BY <1>3, <1>4


\* The other tiles look to everybody as before.
OthersSame(s, t, g) == \A v \in Watchers, u \in Tiles \ {t} :
    GetTileDescription(v, s.tile[u], g) = GetTileDescription(v, s.tile[u], hidden)

\* The scene that a creature has disappeared from.
LEMMA GoneGood ==
    ASSUME ViewAssumption, NEW s, Good(s, hidden), NEW t \in Tiles, NEW c, NEW k, NEW who, NEW g, NEW U,
           Leaves(s, t, k, c, who, g, U), Apart([s.tile EXCEPT ![t] = U]), OthersSame(s, t, g)
    PROVE  Good(GoneScene(s, t, c, who, U), g)
<1> DEFINE m == GoneFor(s, t, c, who)
           L == s.lost \cup Uncovered(s, t, PlaceOf(s.tile[t], c), who)
           r == Turned(s, t, m, U, L)
<1>1. IsScene(s) /\ L \subseteq Watchers \X Tiles /\ s.lost \subseteq L /\ U \in TileRecs
  BY UncoveredIs DEF Good, IsScene, Leaves
<1>2. ASSUME NEW v \in Watchers, t \in Sight[v], <<v, t>> \notin L PROVE m[v] = GetTileDescription(v, U, g)
  <2>1. <<v, t>> \notin s.lost /\ <<v, t>> \notin Uncovered(s, t, PlaceOf(s.tile[t], c), who)
    BY <1>2
  <2> HIDE DEF L
  <2>2. QED BY <1>2, <2>1, GoneShows DEF m
<1>3. r.tile = [s.tile EXCEPT ![t] = U]
  BY DEF Turned
<1> HIDE DEF m, L
<1>4. Retells(s, r, t, U, g)
  BY <1>1, <1>2, TurnedRetells
<1> HIDE DEF r
<1>5. Good(r, g)
  BY <1>3, <1>4, RetoldHidden DEF OthersSame
<1>6. QED BY <1>5 DEF r, m, L, GoneScene

LEMMA RemoveCreatureInv ==
    ASSUME ViewAssumption, TileInv, NEW c \in Visitors, NEW t \in Tiles, removeCreature(c, t)
    PROVE  TileInv'
<1> DEFINE s == Scene
           T == tile[t]
           U == WithoutCreature(T, c)
           who == Seers(c, hidden)
           d == Disappears(s, t, c, who)
           r == GoneScene(s, t, c, who, U)
<1>1. Good(s, hidden) /\ hidden \subseteq Hiders /\ hidden' = hidden /\ s.tile = tile
  BY DEF TileInv, removeCreature, Scene
<1>2. IsScene(s) /\ tile \in [Tiles -> TileRecs] /\ T \in TileRecs /\ Apart(tile)
  BY <1>1 DEF Good, IsScene
<1>3. On(c, t) /\ TilesBecome([d EXCEPT !.tile[t] = WithoutCreature(@, c)])
  BY DEF removeCreature
<1>4. PICK k : OnlyPlace(T, k, c)
  BY <1>1, <1>3, OnIs
<1>5. U \in TileRecs /\ SameBut(T, U, "creatures") /\ U.creatures = RemoveAt(T.creatures, k)
  <2> HIDE DEF T
  <2>1. QED BY <1>2, <1>4, WithoutIs
<1>6. Apart([tile EXCEPT ![t] = U])
  BY <1>2, <1>4, ApartWithout
<1>7. [d EXCEPT !.tile[t] = WithoutCreature(@, c)] = r
  <2> HIDE DEF who, s
  <2>1. d = GoneScene(s, t, c, who, s.tile[t]) /\ WithTile(d, t, U) = r
    BY <1>2, DisappearsIs
  <2>2. d.tile = [s.tile EXCEPT ![t] = s.tile[t]]
    BY <2>1 DEF Turned, GoneScene
  <2>3. d.tile[t] = T
    BY <1>1, <1>2, <2>2
  <2> HIDE DEF d, r, T
  <2>4. [d EXCEPT !.tile[t] = WithoutCreature(@, c)] = WithTile(d, t, U)
    BY <2>3 DEF WithTile
  <2>5. QED BY <2>1, <2>4
<1>8. ASSUME NEW v \in Watchers
      PROVE  IF v \in who
             THEN /\ canSeeCreature(v, c, hidden)
                  /\ Visible(v, U.creatures, hidden) = Visible(v, RemoveAt(T.creatures, k), hidden)
             ELSE Visible(v, U.creatures, hidden) = Visible(v, T.creatures, hidden)
  <2>1. T.creatures \in Seq(Visitors) /\ k \in 1..Len(T.creatures) /\ T.creatures[k] = c
    BY <1>2, <1>4 DEF TileRecs, OnlyPlace
  <2> HIDE DEF T, U
  <2>2. CASE v \in who
    BY <1>5, <2>2 DEF Seers
  <2>3. CASE v \notin who
    <3>1. ~ canSeeCreature(v, T.creatures[k], hidden)
      BY <2>1, <2>3 DEF Seers
    <3>2. Visible(v, T.creatures, hidden) = Visible(v, RemoveAt(T.creatures, k), hidden)
      BY <2>1, <3>1, SeenAway
    <3>3. QED BY <1>5, <2>3, <3>2
  <2>4. QED BY <2>2, <2>3
<1>9. who \in SUBSET Watchers
  BY DEF Seers
<1>10. OnlyPlace(s.tile[t], k, c) /\ SameBut(s.tile[t], U, "creatures") /\ Apart([s.tile EXCEPT ![t] = U])
  <2> HIDE DEF s, U
  <2>1. QED BY <1>1, <1>4, <1>5, <1>6
<1>11. Misses(s.tile[t], U, k, c, who, hidden)
  <2>1. s.tile[t] = T
    BY <1>1
  <2> HIDE DEF s, U, T, who
  <2>2. QED BY <1>8, <2>1 DEF Misses
<1>12. Good(r, hidden)
  <2>1. Leaves(s, t, k, c, who, hidden, U)
    <3> HIDE DEF s, U, who
    <3>1. QED BY <1>5, <1>9, <1>10, <1>11 DEF Leaves
  <2>2. OthersSame(s, t, hidden)
    BY DEF OthersSame
  <2> HIDE DEF s, U, who
  <2>3. QED BY <1>1, <1>10, <2>1, <2>2, GoneGood
<1> HIDE DEF r, d
<1>13. TilesBecome(r) /\ Good(r, hidden') /\ hidden' \subseteq Hiders
  BY <1>1, <1>3, <1>7, <1>12
<1>14. QED BY <1>13, GoodBecomes

\* Whoever hides or shows himself changes nothing of the tiles he is not on.
NotOn(T, c) == \A i \in 1..Len(T.creatures) : T.creatures[i] # c
SeesOthers(v, c, g, h) == \A x : x # c => canSeeCreature(v, x, g) = canSeeCreature(v, x, h)

LEMMA OtherTiles ==
    ASSUME NEW g, NEW h, NEW c, NEW v, NEW T \in TileRecs, NotOn(T, c), SeesOthers(v, c, g, h)
    PROVE  GetTileDescription(v, T, g) = GetTileDescription(v, T, h)
<1>1. T.creatures \in Seq(Visitors)
  BY DEF TileRecs
<1>2. \A i \in 1..Len(T.creatures) : canSeeCreature(v, T.creatures[i], g) = canSeeCreature(v, T.creatures[i], h)
  BY DEF NotOn, SeesOthers
<1>3. Visible(v, T.creatures, g) = Visible(v, T.creatures, h)
  BY <1>1, <1>2, VisibleKept
<1>4. QED BY <1>3 DEF GetTileDescription, Stack

LEMMA HideInv ==
    ASSUME ViewAssumption, TileInv, NEW c \in Hiders, NEW t \in Tiles, Hide(c, t)
    PROVE  TileInv'
<1> DEFINE s == Scene
           T == tile[t]
           who == Watchers \ Senses
           r == GoneScene(s, t, c, who, s.tile[t])
           g == hidden'
<1>1. Good(s, hidden) /\ hidden \subseteq Hiders /\ g = hidden \cup {c} /\ c \notin hidden /\ s.tile = tile
  BY DEF TileInv, Hide, Scene
<1>2. IsScene(s) /\ tile \in [Tiles -> TileRecs] /\ T \in TileRecs /\ Apart(tile)
  BY <1>1 DEF Good, IsScene
<1>3. On(c, t) /\ TilesBecome(r)
  <2>1. On(c, t) /\ TilesBecome(Disappears(s, t, c, who))
    BY DEF Hide
  <2>2. Disappears(s, t, c, who) = r
    <3> HIDE DEF s, who
    <3>1. QED BY <1>2, DisappearsIs
  <2>3. QED BY <2>1, <2>2
<1>4. PICK k : OnlyPlace(T, k, c)
  BY <1>1, <1>3, OnIs
<1>5. \A u \in Tiles \ {t} : \A i \in 1..Len(tile[u].creatures) : tile[u].creatures[i] # c
  BY <1>1, <1>3, OnIs
<1>6. s.tile[t] = T
  BY <1>1
<1> HIDE DEF g, s, r
<1>7. \A v, x : x # c => canSeeCreature(v, x, g) = canSeeCreature(v, x, hidden)
  BY <1>1 DEF canSeeCreature
<1>8. T.creatures \in Seq(Visitors) /\ k \in 1..Len(T.creatures) /\ T.creatures[k] = c
      /\ \A i \in 1..Len(T.creatures) : i # k => T.creatures[i] # c
  BY <1>2, <1>4 DEF TileRecs, OnlyPlace
<1> HIDE DEF T
<1>9. ASSUME NEW v \in Watchers
      PROVE  IF v \in who
             THEN /\ canSeeCreature(v, c, hidden)
                  /\ Visible(v, T.creatures, g) = Visible(v, RemoveAt(T.creatures, k), hidden)
             ELSE Visible(v, T.creatures, g) = Visible(v, T.creatures, hidden)
  <2>1. CASE v \in who
    <3>1. canSeeCreature(v, c, hidden) /\ ~ canSeeCreature(v, T.creatures[k], g)
      BY <1>1, <1>8, <2>1 DEF canSeeCreature
    <3>2. \A i \in 1..Len(T.creatures) : i # k =>
            canSeeCreature(v, T.creatures[i], g) = canSeeCreature(v, T.creatures[i], hidden)
      BY <1>7, <1>8
    <3>3. Visible(v, T.creatures, g) = Visible(v, RemoveAt(T.creatures, k), hidden)
      BY <1>8, <3>1, <3>2, SeenAway
    <3>4. QED BY <2>1, <3>1, <3>3
  <2>2. CASE v \notin who
    <3>1. \A i \in 1..Len(T.creatures) :
            canSeeCreature(v, T.creatures[i], g) = canSeeCreature(v, T.creatures[i], hidden)
      BY <2>2 DEF canSeeCreature
    <3>2. Visible(v, T.creatures, g) = Visible(v, T.creatures, hidden)
      BY <1>8, <3>1, VisibleKept
    <3>3. QED BY <2>2, <3>2
  <2>3. QED BY <2>1, <2>2
<1>10. Misses(T, T, k, c, who, g)
  <2> HIDE DEF who
  <2>1. QED BY <1>9 DEF Misses
<1>11. ASSUME NEW v \in Watchers, NEW u \in Tiles \ {t}
       PROVE  GetTileDescription(v, s.tile[u], g) = GetTileDescription(v, s.tile[u], hidden)
  <2>1. tile[u] \in TileRecs /\ NotOn(tile[u], c)
    BY <1>2, <1>5 DEF NotOn
  <2>2. SeesOthers(v, c, g, hidden)
    BY <1>7 DEF SeesOthers
  <2>3. GetTileDescription(v, tile[u], g) = GetTileDescription(v, tile[u], hidden)
    BY <2>1, <2>2, OtherTiles
  <2>4. QED BY <1>1, <2>3
<1>12. SameBut(T, T, "creatures") /\ [s.tile EXCEPT ![t] = T] = s.tile
  BY <1>1, <1>2, <1>6 DEF SameBut
<1>13. Good(r, g)
  <2>1. Leaves(s, t, k, c, who, g, s.tile[t])
    BY <1>2, <1>4, <1>6, <1>10, <1>12 DEF Leaves
  <2>2. Apart([s.tile EXCEPT ![t] = s.tile[t]]) /\ OthersSame(s, t, g)
    BY <1>1, <1>2, <1>6, <1>11, <1>12 DEF OthersSame
  <2> HIDE DEF who
  <2>3. QED BY <1>1, <2>1, <2>2, GoneGood DEF r
<1>14. TilesBecome(r) /\ Good(r, hidden') /\ hidden' \subseteq Hiders
  BY <1>1, <1>3, <1>13 DEF g
<1>15. QED BY <1>14, GoodBecomes

LEMMA UnhideInv ==
    ASSUME ViewAssumption, TileInv, NEW c \in Hiders, NEW t \in Tiles, Unhide(c, t)
    PROVE  TileInv'
<1> DEFINE s == Scene
           T == tile[t]
           who == Watchers \ Senses
           g == hidden'
           m == ComeFor(s, t, c, who, g)
           r == Told(s, t, m)
<1>1. Good(s, hidden) /\ hidden \subseteq Hiders /\ g = hidden \ {c} /\ c \in hidden /\ s.tile = tile
  BY DEF TileInv, Unhide, Scene
<1>2. IsScene(s) /\ tile \in [Tiles -> TileRecs] /\ T \in TileRecs /\ Apart(tile)
  BY <1>1 DEF Good, IsScene
<1>3. On(c, t) /\ TilesBecome(r)
  <2>1. On(c, t) /\ TilesBecome(Appears(s, t, c, who, g))
    BY DEF Unhide
  <2>2. Appears(s, t, c, who, g) = r
    <3> HIDE DEF s, who, g
    <3>1. QED BY AppearsIs
  <2>3. QED BY <2>1, <2>2
<1>4. PICK k : OnlyPlace(T, k, c)
  BY <1>1, <1>3, OnIs
<1>5. \A u \in Tiles \ {t} : \A i \in 1..Len(tile[u].creatures) : tile[u].creatures[i] # c
  BY <1>1, <1>3, OnIs
<1>6. s.tile[t] = T
  BY <1>1
<1> HIDE DEF g, s, r
<1>7. \A v, x : x # c => canSeeCreature(v, x, g) = canSeeCreature(v, x, hidden)
  BY <1>1 DEF canSeeCreature
<1>8. T.creatures \in Seq(Visitors) /\ k \in 1..Len(T.creatures) /\ T.creatures[k] = c
      /\ \A i \in 1..Len(T.creatures) : i # k => T.creatures[i] # c
  BY <1>2, <1>4 DEF TileRecs, OnlyPlace
<1>9. PlaceOf(T, c) = Place("creatures", k)
  <2> HIDE DEF T
  <2>1. QED BY <1>2, <1>4, PlaceOfIs
<1> HIDE DEF T
<1>10. ASSUME NEW v \in Watchers, t \in Sight[v], <<v, t>> \notin s.lost
       PROVE  m[v] = GetTileDescription(v, T, g)
  <2>1. s.view[v][t] = GetTileDescription(v, T, hidden)
    BY <1>1, <1>6, <1>10 DEF Good, Copies
  <2>2. SameBut(T, T, "creatures")
    BY DEF SameBut
  <2>3. CASE v \in who
    <3>1. canSeeCreature(v, T.creatures[k], g) /\ ~ canSeeCreature(v, T.creatures[k], hidden)
      BY <1>1, <1>8, <2>3 DEF canSeeCreature
    <3>2. \A i \in 1..Len(T.creatures) : i # k =>
            canSeeCreature(v, T.creatures[i], hidden) = canSeeCreature(v, T.creatures[i], g)
      BY <1>7, <1>8
    <3>3. Visible(v, T.creatures, hidden) = Visible(v, RemoveAt(T.creatures, k), g)
      BY <1>8, <3>1, <3>2, SeenAway
    <3>4. Added(GetTileDescription(v, T, hidden), getClientIndexOfThing(v, T, g, Place("creatures", k)),
                T.creatures[k]) = GetTileDescription(v, T, g)
      BY <1>2, <1>8, <2>2, <3>1, <3>3, CreatureAppears
    <3>5. m[v] = Added(s.view[v][t], getClientIndexOfThing(v, s.tile[t], g, PlaceOf(s.tile[t], c)), c)
      BY <2>3 DEF ComeFor
    <3> HIDE DEF m
    <3>6. QED BY <1>6, <1>8, <1>9, <2>1, <3>4, <3>5
  <2>4. CASE v \notin who
    <3>1. \A i \in 1..Len(T.creatures) :
            canSeeCreature(v, T.creatures[i], g) = canSeeCreature(v, T.creatures[i], hidden)
      BY <2>4 DEF canSeeCreature
    <3>2. Visible(v, T.creatures, g) = Visible(v, T.creatures, hidden)
      BY <1>8, <3>1, VisibleKept
    <3>3. GetTileDescription(v, T, g) = GetTileDescription(v, T, hidden)
      BY <2>2, <3>2, CreatureUnseen
    <3>4. m[v] = s.view[v][t]
      BY <2>4 DEF ComeFor
    <3>5. QED BY <2>1, <3>3, <3>4
  <2>5. QED BY <2>3, <2>4
<1> HIDE DEF m, who
<1>11. [s.tile EXCEPT ![t] = T] = s.tile
  BY <1>1, <1>2, <1>6
<1>12. Changed(s, s, t, T)
  BY <1>2, <1>11 DEF Changed
<1>13. Retells(s, r, t, T, g)
  BY <1>2, <1>10, <1>12, ToldRetells DEF r
<1>14. ASSUME NEW v \in Watchers, NEW u \in Tiles \ {t}
       PROVE  GetTileDescription(v, s.tile[u], g) = GetTileDescription(v, s.tile[u], hidden)
  <2>1. tile[u] \in TileRecs /\ NotOn(tile[u], c)
    BY <1>2, <1>5 DEF NotOn
  <2>2. SeesOthers(v, c, g, hidden)
    BY <1>7 DEF SeesOthers
  <2>3. GetTileDescription(v, tile[u], g) = GetTileDescription(v, tile[u], hidden)
    BY <2>1, <2>2, OtherTiles
  <2>4. QED BY <1>1, <2>3
<1>15. r.tile = s.tile
  <2>1. IsTold(r, s, t, m)
    BY <1>2, ToldIs DEF r
  <2>2. QED BY <2>1 DEF IsTold
<1>16. Good(r, g)
  <2>1. Apart(r.tile)
    BY <1>1, <1>2, <1>15
  <2>2. \A v \in Watchers, u \in Tiles \ {t} :
          GetTileDescription(v, s.tile[u], g) = GetTileDescription(v, s.tile[u], hidden)
    BY <1>14
  <2>3. Good(s, hidden)
    BY <1>1
  <2>4. QED BY <1>13, <2>1, <2>2, <2>3, RetoldHidden
<1>17. TilesBecome(r) /\ Good(r, hidden') /\ hidden' \subseteq Hiders
  BY <1>1, <1>3, <1>16 DEF g
<1>18. QED BY <1>17, GoodBecomes



LEMMA CreatureIndexType ==
    ASSUME NEW v, NEW h, NEW T \in TileRecs, NEW k \in 1..Len(T.creatures)
    PROVE  getClientIndexOfThing(v, T, h, Place("creatures", k)) \in Int
<1> DEFINE n == getClientIndexOfThing(v, T, h, Place("creatures", k))
<1>1. n = SeenAt(T, Len(SeenBefore(v, T.creatures, k, h)))
  BY CreatureIndex
<1>2. SeenBefore(v, T.creatures, k, h) \in Seq(Visitors)
  <2>1. T.creatures \in Seq(Visitors)
    BY DEF TileRecs
  <2>2. SeenAround(v, T.creatures, k, h)
    BY <2>1, VisibleAround
  <2>3. QED BY <2>2 DEF SeenAround
<1>3. Len(Ground(T)) \in Nat /\ Len(T.top) \in Nat /\ Len(SeenBefore(v, T.creatures, k, h)) \in Nat
  BY <1>2, PartsAre
<1> HIDE DEF n
<1>4. n \in Int
  BY <1>1, <1>3 DEF SeenAt
<1>5. QED BY <1>4 DEF n

\* A place below what is shown need not be told exactly.
LEMMA RemovedCapped ==
    ASSUME ViewAssumption, NEW w \in Seq(Things), Len(w) <= Limit, NEW n \in Int
    PROVE  Removed(w, Min({Limit, n})) = Removed(w, n)
<1>1. Min({Limit, n}) = (IF Limit <= n THEN Limit ELSE n) /\ Limit \in Nat /\ Len(w) \in Nat
  BY MinOfTwo DEF ViewAssumption
<1>2. CASE Limit <= n
  <2>1. Min({Limit, n}) \notin 0..Len(w) - 1 /\ n \notin 0..Len(w) - 1
    BY <1>1, <1>2
  <2>2. QED BY <2>1 DEF Removed
<1>3. CASE ~ Limit <= n
  BY <1>1, <1>3
<1>4. QED BY <1>2, <1>3

\* Where a creature comes to, for who sees it: it is put before all that he sees there.
LEMMA ComesFirst ==
    ASSUME ViewAssumption, NEW v, NEW h, NEW T \in TileRecs, NEW c \in Visitors, NotOn(T, c)
    PROVE  /\ canSeeCreature(v, c, h) =>
                /\ Added(GetTileDescription(v, T, h),
                         getClientIndexOfThing(v, WithCreature(T, c), h, PlaceOf(WithCreature(T, c), c)), c)
                     = GetTileDescription(v, WithCreature(T, c), h)
                /\ Added(GetTileDescription(v, T, h), BehindCreatures(GetTileDescription(v, T, h)), c)
                     = GetTileDescription(v, WithCreature(T, c), h)
           /\ ~ canSeeCreature(v, c, h) =>
                GetTileDescription(v, WithCreature(T, c), h) = GetTileDescription(v, T, h)
<1> DEFINE U == WithCreature(T, c)
           d == GetTileDescription(v, T, h)
           n == getClientIndexOfThing(v, U, h, Place("creatures", 1))
<1>1. U \in TileRecs /\ OnlyPlace(U, 1, c) /\ SameBut(T, U, "creatures") /\ RemoveAt(U.creatures, 1) = T.creatures
  BY WithCreatureIs DEF NotOn
<1> HIDE DEF U
<1>2. PlaceOf(U, c) = Place("creatures", 1)
  BY <1>1, PlaceOfIs
<1>3. 1 \in 1..Len(U.creatures) /\ U.creatures[1] = c /\ U.creatures \in Seq(Visitors)
  BY <1>1 DEF OnlyPlace, TileRecs
<1>4. CASE canSeeCreature(v, c, h)
  <2>1. Visible(v, T.creatures, h) = Visible(v, RemoveAt(U.creatures, 1), h)
    BY <1>1
  <2>2. canSeeCreature(v, U.creatures[1], h)
    BY <1>3, <1>4
  <2>3. Added(GetTileDescription(v, T, h), getClientIndexOfThing(v, U, h, Place("creatures", 1)), U.creatures[1])
          = GetTileDescription(v, U, h)
    BY <1>1, <1>3, <2>1, <2>2, CreatureAppears
  <2>4. n = SeenAt(U, Len(SeenBefore(v, U.creatures, 1, h)))
    BY <1>1, <1>3, CreatureIndex
  <2>5. SeenBefore(v, U.creatures, 1, h) = Visible(v, T.creatures, h)
    <3> DEFINE list == U.creatures
               rest == SubSeq(list, 2, Len(list))
    <3>1. list \in Seq(Visitors) /\ 1 \in 1..Len(list)
      BY <1>3
    <3> HIDE DEF list
    <3>2. RemoveAt(list, 1) = SubSeq(list, 1, 1 - 1) \o SubSeq(list, 1 + 1, Len(list))
          /\ SubSeq(list, 1 + 1, Len(list)) \in Seq(Visitors)
      BY <3>1, AroundOne
    <3>3. SubSeq(list, 1, 1 - 1) = <<>> /\ 1 + 1 = 2
      BY <3>1
    <3>4. rest \in Seq(Visitors) /\ RemoveAt(list, 1) = <<>> \o rest
      BY <3>2, <3>3
    <3> HIDE DEF rest
    <3>5. RemoveAt(list, 1) = rest
      BY <3>4
    <3>6. SubSeq(list, 1 + 1, Len(list)) = rest
      BY <3>3 DEF rest
    <3>7. QED BY <1>1, <3>5, <3>6 DEF SeenBefore, list
  <2>6. n = SeenAt(T, Len(Visible(v, T.creatures, h)))
    <3>1. U.ground = T.ground /\ U.top = T.top
      BY <1>1 DEF SameBut
    <3> HIDE DEF n
    <3>2. QED BY <2>4, <2>5, <3>1 DEF SeenAt, Ground
  <2>7. Added(d, BehindCreatures(d), c) = Added(d, SeenAt(T, Len(Visible(v, T.creatures, h))), c)
    BY CarriedOver
  <2> HIDE DEF d, n
  <2>8. Added(d, BehindCreatures(d), c) = Added(d, n, c)
    BY <2>6, <2>7
  <2>9. Added(d, n, c) = GetTileDescription(v, U, h)
    BY <1>3, <2>3 DEF d, n
  <2>10. QED BY <1>2, <1>4, <2>8, <2>9 DEF U, d, n
<1>5. CASE ~ canSeeCreature(v, c, h)
  <2>1. ~ canSeeCreature(v, U.creatures[1], h)
    BY <1>3, <1>5
  <2>2. Visible(v, U.creatures, h) = Visible(v, RemoveAt(U.creatures, 1), h)
    BY <1>3, <2>1, SeenAway
  <2>3. GetTileDescription(v, U, h) = GetTileDescription(v, T, h)
    BY <1>1, <2>2, CreatureUnseen
  <2>4. QED BY <1>5, <2>3 DEF U
<1>6. QED BY <1>4, <1>5



\* What is left of tile t, which was T, for v, once the creature has walked or been carried away.
Departs(s, t, c, v, T) ==
    /\ canSeeCreature(v, c, hidden) =>
          Removed(s.view[v][t], Min({Limit, getClientIndexOfThing(v, T, hidden, PlaceOf(T, c))}))
            = GetTileDescription(v, WithoutCreature(T, c), hidden)
    /\ ~ canSeeCreature(v, c, hidden) => s.view[v][t] = GetTileDescription(v, WithoutCreature(T, c), hidden)

LEMMA WalksAway ==
    ASSUME ViewAssumption, NEW s, Good(s, hidden), NEW t \in Tiles, NEW c, NEW k, OnlyPlace(s.tile[t], k, c),
           NEW v \in Watchers, t \in Sight[v], <<v, t>> \notin s.lost,
           <<v, t>> \notin Uncovered(s, t, PlaceOf(s.tile[t], c), Seers(c, hidden))
    PROVE  Departs(s, t, c, v, s.tile[t])
<1> DEFINE T == s.tile[t]
           U == WithoutCreature(T, c)
           who == Seers(c, hidden)
           w == s.view[v][t]
           n == getClientIndexOfThing(v, T, hidden, PlaceOf(T, c))
<1>1. IsScene(s) /\ T \in TileRecs /\ w = GetTileDescription(v, T, hidden)
  BY DEF Good, IsScene, Copies
<1>2. U \in TileRecs /\ SameBut(T, U, "creatures") /\ U.creatures = RemoveAt(T.creatures, k)
  <2> HIDE DEF T
  <2>1. QED BY <1>1, WithoutIs DEF T
<1>3. T.creatures \in Seq(Visitors) /\ k \in 1..Len(T.creatures) /\ T.creatures[k] = c
  BY <1>1 DEF TileRecs, OnlyPlace
<1> HIDE DEF U
<1>4. ASSUME NEW u \in Watchers
      PROVE  IF u \in who
             THEN /\ canSeeCreature(u, c, hidden)
                  /\ Visible(u, U.creatures, hidden) = Visible(u, RemoveAt(T.creatures, k), hidden)
             ELSE Visible(u, U.creatures, hidden) = Visible(u, T.creatures, hidden)
  <2> HIDE DEF T
  <2>1. CASE u \in who
    BY <1>2, <2>1 DEF Seers
  <2>2. CASE u \notin who
    <3>1. ~ canSeeCreature(u, T.creatures[k], hidden)
      BY <1>3, <2>2 DEF Seers
    <3>2. Visible(u, T.creatures, hidden) = Visible(u, RemoveAt(T.creatures, k), hidden)
      BY <1>3, <3>1, SeenAway
    <3>3. QED BY <1>2, <2>2, <3>2
  <2>3. QED BY <2>1, <2>2
<1>5. Leaves(s, t, k, c, who, hidden, U)
  <2>1. who \subseteq Watchers
    BY DEF Seers
  <2> HIDE DEF who
  <2>2. QED BY <1>2, <1>4, <2>1 DEF Leaves, Misses
<1>6. GoneFor(s, t, c, who)[v] = GetTileDescription(v, U, hidden)
  BY <1>5, GoneShows
<1>7. GoneFor(s, t, c, who)[v] = IF canSeeCreature(v, c, hidden) THEN Removed(w, n) ELSE w
  BY DEF GoneFor, Seers
<1>8. PlaceOf(T, c) = Place("creatures", k)
  <2>1. OnlyPlace(T, k, c)
    OBVIOUS
  <2> HIDE DEF T
  <2>2. QED BY <1>1, <2>1, PlaceOfIs
<1>9. n \in Int
  <2> HIDE DEF T
  <2>1. QED BY <1>1, <1>3, <1>8, CreatureIndexType
<1>10. w \in Seq(Things) /\ Len(w) <= Limit
  <2> HIDE DEF T, w
  <2>1. QED BY <1>1, DescriptionType
<1> HIDE DEF w, n
<1>11. Removed(w, Min({Limit, n})) = Removed(w, n)
  BY <1>9, <1>10, RemovedCapped
<1>12. QED BY <1>6, <1>7, <1>11 DEF w, n, U, Departs



\* What the watchers are told of both ends of a move: m of the one, then n of the other.
Moved(s, from, to, m, n, W, U, L) ==
    [tile |-> [[s.tile EXCEPT ![from] = W] EXCEPT ![to] = U],
     view |-> Told(Told(s, from, m), to, n).view, lost |-> L]

WithEnds(q, from, to, W, U, D, E, F) ==
    [q EXCEPT !.tile[from] = W, !.tile[to] = U, !.lost = @ \cup D \cup E \cup F]

LEMMA MovedIs ==
    ASSUME NEW s, IsScene(s), NEW from \in Tiles, NEW to \in Tiles, NEW m, NEW n, NEW W, NEW U, NEW D,
           NEW E, NEW F
    PROVE  WithEnds(Told(Told(s, from, m), to, n), from, to, W, U, D, E, F)
             = Moved(s, from, to, m, n, W, U, s.lost \cup D \cup E \cup F)
<1> DEFINE p == Told(s, from, m)
           q == Told(p, to, n)
<1>1. IsTold(p, s, from, m)
  BY ToldIs
<1>2. IsTold(q, p, to, n)
  BY <1>1, ToldIs DEF IsTold
<1> DEFINE a == s.tile
           b == q.view
           c == s.lost
           L == c \cup D \cup E \cup F
           A == [a EXCEPT ![from] = W]
           B == [A EXCEPT ![to] = U]
<1>3. q = [tile |-> a, view |-> b, lost |-> c]
  BY <1>1, <1>2 DEF IsTold, IsScene
<1> HIDE DEF p, q, a, b, c
<1>4. [q EXCEPT !.tile[from] = W, !.tile[to] = U, !.lost = @ \cup D \cup E \cup F]
        = [q EXCEPT !.tile[from] = W, !.tile[to] = U, !.lost = L]
  BY <1>3
<1> HIDE DEF L
<1> DEFINE Q == [q EXCEPT !.tile[from] = W]
           R == [Q EXCEPT !.tile[to] = U]
<1>5. Q = [tile |-> A, view |-> b, lost |-> c]
  BY <1>3
<1> HIDE DEF A
<1>6. [q EXCEPT !.tile[from] = W, !.tile[to] = U, !.lost = L] = [R EXCEPT !.lost = L]
  OBVIOUS
<1> HIDE DEF Q
<1>7. R = [tile |-> B, view |-> b, lost |-> c]
  BY <1>5
<1> HIDE DEF B, R
<1>8. [R EXCEPT !.lost = L] = [tile |-> B, view |-> b, lost |-> L]
  BY <1>7
<1>9. [q EXCEPT !.tile[from] = W, !.tile[to] = U, !.lost = @ \cup D \cup E \cup F] = [tile |-> B, view |-> b, lost |-> L]
  BY <1>4, <1>6, <1>8
<1>10. QED BY <1>9 DEF Moved, L, B, A, a, b, c, q, p, WithEnds

\* That m and n are what is left and what is there then for those who see it.
MovesRight(s, from, to, m, n, W, U, L) ==
    /\ from \in Tiles /\ to \in Tiles /\ from # to /\ W \in TileRecs /\ U \in TileRecs
    /\ L \subseteq Watchers \X Tiles /\ s.lost \subseteq L /\ Apart([[s.tile EXCEPT ![from] = W] EXCEPT ![to] = U])
    /\ \A v \in Watchers : (from \in Sight[v] /\ <<v, from>> \notin L) => m[v] = GetTileDescription(v, W, hidden)
    /\ \A v \in Watchers : (to \in Sight[v] /\ <<v, to>> \notin L) => n[v] = GetTileDescription(v, U, hidden)

LEMMA MovedGood ==
    ASSUME NEW s, Good(s, hidden), NEW from, NEW to, NEW m, NEW n, NEW W, NEW U, NEW L,
           MovesRight(s, from, to, m, n, W, U, L)
    PROVE  Good(Moved(s, from, to, m, n, W, U, L), hidden)
<1> DEFINE p == Told(s, from, m)
           q == Told(p, to, n)
           A == [[s.tile EXCEPT ![from] = W] EXCEPT ![to] = U]
           r == Moved(s, from, to, m, n, W, U, L)
<1>0. from \in Tiles /\ to \in Tiles /\ from # to /\ W \in TileRecs /\ U \in TileRecs
      /\ L \subseteq Watchers \X Tiles /\ s.lost \subseteq L /\ Apart(A)
  BY DEF MovesRight
<1>1. IsScene(s) /\ s.tile \in [Tiles -> TileRecs]
  BY DEF Good, IsScene
<1>2. IsTold(p, s, from, m)
  BY <1>0, <1>1, ToldIs
<1>3. IsTold(q, p, to, n)
  BY <1>0, <1>2, ToldIs DEF IsTold
<1> HIDE DEF p
<1>4. A \in [Tiles -> TileRecs] /\ A[to] = U /\ A[from] = W /\ \A x \in Tiles : x # to /\ x # from => A[x] = s.tile[x]
  BY <1>0, <1>1
<1>5. r = [tile |-> A, view |-> q.view, lost |-> L]
  BY DEF Moved, p
<1> HIDE DEF q, A, r
<1>6. r.tile = A /\ r.view = q.view /\ r.lost = L /\ r = [tile |-> r.tile, view |-> r.view, lost |-> r.lost]
  BY <1>5
<1>7. IsScene(r)
  <2>1. q.view = [v \in Watchers |-> [x \in Tiles |-> q.view[v][x]]]
    BY <1>3 DEF IsTold, IsScene
  <2>2. QED BY <1>0, <1>4, <1>6, <2>1 DEF IsScene
<1>8. \A v \in Watchers, x \in Tiles :
        p.view[v][x] = IF x = from /\ from \in Sight[v] /\ <<v, from>> \notin s.lost THEN m[v] ELSE s.view[v][x]
  BY <1>2 DEF IsTold
<1>9. \A v \in Watchers, x \in Tiles :
        q.view[v][x] = IF x = to /\ to \in Sight[v] /\ <<v, to>> \notin s.lost THEN n[v] ELSE p.view[v][x]
  BY <1>2, <1>3 DEF IsTold
<1>10. ASSUME NEW v \in Watchers, NEW x \in Tiles
       PROVE  IF x \notin Sight[v] THEN r.view[v][x] = <<>>
              ELSE <<v, x>> \notin r.lost => r.view[v][x] = GetTileDescription(v, r.tile[x], hidden)
  <2>1. IF x \notin Sight[v] THEN s.view[v][x] = <<>>
        ELSE <<v, x>> \notin s.lost => s.view[v][x] = GetTileDescription(v, s.tile[x], hidden)
    BY DEF Good, Copies
  <2>2. CASE x = from
    <3>a. q.view[v][from] = p.view[v][from]
      BY <1>0, <1>9
    <3>b. p.view[v][from] = IF from \in Sight[v] /\ <<v, from>> \notin s.lost THEN m[v] ELSE s.view[v][from]
      BY <1>0, <1>8
    <3>1. r.view[v][x] = IF from \in Sight[v] /\ <<v, from>> \notin s.lost THEN m[v] ELSE s.view[v][from]
      BY <1>6, <2>2, <3>a, <3>b
    <3>2. (from \in Sight[v] /\ <<v, from>> \notin L) => m[v] = GetTileDescription(v, W, hidden)
      BY DEF MovesRight
    <3>3. QED BY <1>0, <1>4, <1>6, <2>1, <2>2, <3>1, <3>2
  <2>3. CASE x = to
    <3>1. r.view[v][x] = IF to \in Sight[v] /\ <<v, to>> \notin s.lost THEN n[v] ELSE s.view[v][to]
      <4>1. q.view[v][to] = IF to \in Sight[v] /\ <<v, to>> \notin s.lost THEN n[v] ELSE p.view[v][to]
        BY <1>0, <1>9
      <4>2. p.view[v][to] = s.view[v][to]
        BY <1>0, <1>8
      <4>3. QED BY <1>6, <2>3, <4>1, <4>2
    <3>2. (to \in Sight[v] /\ <<v, to>> \notin L) => n[v] = GetTileDescription(v, U, hidden)
      BY DEF MovesRight
    <3>3. QED BY <1>0, <1>4, <1>6, <2>1, <2>3, <3>1, <3>2
  <2>4. CASE x # from /\ x # to
    <3>1. r.view[v][x] = s.view[v][x] /\ r.tile[x] = s.tile[x]
      BY <1>4, <1>6, <1>8, <1>9, <2>4
    <3>2. <<v, x>> \notin r.lost => <<v, x>> \notin s.lost
      BY <1>0, <1>6
    <3>3. QED BY <2>1, <3>1, <3>2
  <2>5. QED BY <2>2, <2>3, <2>4
<1>11. Copies(r, hidden)
  BY <1>10 DEF Copies
<1>12. QED BY <1>0, <1>6, <1>7, <1>11 DEF Good, r



LEMMA MoveCreatureInv ==
    ASSUME ViewAssumption, TileInv, NEW c \in Visitors, NEW from \in Tiles, NEW to \in Tiles,
           NEW teleport \in BOOLEAN, NEW list, moveCreature(c, from, to, teleport, list)
    PROVE  TileInv'
<1> DEFINE T == tile[from]
           U == WithCreature(tile[to], c)
           W == WithoutCreature(T, c)
           place == PlaceOf(T, c)
           Own(v) == Min({Limit, getClientIndexOfThing(v, T, hidden, place)})
           Given(v) == Min({Limit, OldStackpos(list, c, T, v)})
           Sees(t) == {v \in Seers(c, hidden) : t \in Sight[v]}
           misled == {v \in Sees(from) : Given(v) # Own(v)}
           carried == {v \in Sees(from) \cap Sees(to) : ~teleport /\ Given(v) < Limit}
           astray == {v \in carried : v \in misled \/ <<v, from>> \in stray}
           gone == Tell(Scene, from, LAMBDA v, was : IF v \in Sees(from) THEN Removed(was, Given(v)) ELSE was)
           come == Tell(gone, to, LAMBDA v, was :
                    CASE v \in carried -> Added(was, BehindCreatures(was), c)
                      [] v \in Sees(to) \ carried ->
                            Added(was, getClientIndexOfThing(v, U, hidden, PlaceOf(U, c)), c)
                      [] OTHER -> was)
           D == {<<v, from>> : v \in misled}
           E == {<<v, to>> : v \in astray}
           F == Uncovered(Scene, from, place, Sees(from))
           m == [v \in Watchers |-> IF v \in Sees(from) THEN Removed(Scene.view[v][from], Given(v))
                                    ELSE Scene.view[v][from]]
           n == [v \in Watchers |->
                    CASE v \in carried -> Added(gone.view[v][to], BehindCreatures(gone.view[v][to]), c)
                      [] v \in Sees(to) \ carried ->
                            Added(gone.view[v][to], getClientIndexOfThing(v, U, hidden, PlaceOf(U, c)), c)
                      [] OTHER -> gone.view[v][to]]
           L == Scene.lost \cup D \cup E \cup F
           r == Moved(Scene, from, to, m, n, W, U, L)
<1>1. /\ On(c, from) /\ from # to
      /\ TilesBecome([come EXCEPT !.tile[from] = W, !.tile[to] = U, !.lost = @ \cup D \cup E \cup F])
      /\ hidden' = hidden
  BY DEF moveCreature
<1>2. /\ Good(Scene, hidden) /\ hidden \subseteq Hiders /\ Scene.tile = tile /\ Scene.lost = stray
      /\ IsScene(Scene) /\ tile \in [Tiles -> TileRecs] /\ T \in TileRecs /\ tile[to] \in TileRecs /\ Apart(tile)
  BY DEF TileInv, Scene, Good, IsScene
<1>3. gone = Told(Scene, from, m)
  <2> HIDE DEF misled, T, place
  <2>1. QED BY DEF Tell, Told
<1>4. come = Told(gone, to, n)
  <2> HIDE DEF gone, carried, U, T, place
  <2>1. QED BY DEF Tell, Told
<1>5. TilesBecome(r)
  <2> HIDE DEF m, n, D, E, F, U, W
  <2>1. WithEnds(Told(Told(Scene, from, m), to, n), from, to, W, U, D, E, F) = r
    BY <1>2, MovedIs
  <2> HIDE DEF r, gone, come
  <2>2. TilesBecome(WithEnds(come, from, to, W, U, D, E, F))
    BY <1>1 DEF WithEnds
  <2>3. QED BY <1>3, <1>4, <2>1, <2>2
<1>6. PICK k : OnlyPlace(T, k, c)
  BY <1>1, <1>2, OnIs
<1>7. Nowhere([tile EXCEPT ![from] = W], c) /\ Apart([tile EXCEPT ![from] = W]) /\ W \in TileRecs
  <2>1. Apart([tile EXCEPT ![from] = W]) /\ Nowhere([tile EXCEPT ![from] = W], c)
    BY <1>2, <1>6, ApartWithout
  <2>2. W \in TileRecs
    <3> HIDE DEF T
    <3>1. QED BY <1>2, <1>6, WithoutIs
  <2>3. QED BY <2>1, <2>2
<1>8. NotOn(tile[to], c)
  <2> HIDE DEF W
  <2>1. [tile EXCEPT ![from] = W][to] = tile[to]
    BY <1>1, <1>2
  <2>2. QED BY <1>7, <2>1 DEF Nowhere, NotOn
<1>9. U \in TileRecs
  <2> DEFINE V == tile[to]
  <2>1. V \in TileRecs /\ \A i \in 1..Len(V.creatures) : V.creatures[i] # c
    BY <1>2, <1>8 DEF NotOn
  <2> HIDE DEF V
  <2>2. WithCreature(V, c) \in TileRecs
    BY <2>1, WithCreatureIs
  <2>3. QED BY <2>2 DEF V
<1>10. Apart([[Scene.tile EXCEPT ![from] = W] EXCEPT ![to] = U])
  <2> DEFINE B == [tile EXCEPT ![from] = W]
  <2>1. B \in [Tiles -> TileRecs] /\ B[to] = tile[to]
    <3> HIDE DEF W
    <3>1. QED BY <1>1, <1>2, <1>7
  <2>2. Apart(B) /\ Nowhere(B, c)
    BY <1>7
  <2> HIDE DEF B
  <2>3. Apart([B EXCEPT ![to] = WithCreature(B[to], c)])
    BY <2>1, <2>2, ApartWith
  <2>4. QED BY <1>2, <2>1, <2>3 DEF B
<1>11. L \subseteq Watchers \X Tiles /\ Scene.lost \subseteq L
  <2>1. Scene.lost \subseteq Watchers \X Tiles
    BY <1>2 DEF IsScene
  <2>2. D \subseteq Watchers \X Tiles /\ E \subseteq Watchers \X Tiles
    <3>1. Sees(from) \subseteq Watchers
      BY DEF Seers
    <3> HIDE DEF Sees, Given, Own
    <3>2. misled \subseteq Watchers /\ astray \subseteq Watchers
      BY <3>1
    <3> HIDE DEF misled, astray
    <3>3. QED BY <3>2
  <2>3. Sees(from) \subseteq Watchers
    BY DEF Seers
  <2>4. F \subseteq Watchers \X Tiles
    <3> DEFINE who == Sees(from)
    <3>1. who \in SUBSET Watchers
      BY <2>3
    <3> HIDE DEF who, place
    <3>2. Uncovered(Scene, from, place, who) \subseteq Watchers \X Tiles
      BY <3>1, UncoveredIs
    <3>3. QED BY <3>2 DEF who
  <2> HIDE DEF D, E, F
  <2>5. QED BY <2>1, <2>2, <2>4
<1>12. \A v \in Watchers : v \in Sees(from) <=> (from \in Sight[v] /\ canSeeCreature(v, c, hidden))
  BY DEF Seers
<1>13. \A v \in Watchers : v \in Sees(to) <=> (to \in Sight[v] /\ canSeeCreature(v, c, hidden))
  BY DEF Seers
<1>14. ASSUME NEW v \in Watchers, from \in Sight[v], <<v, from>> \notin L
       PROVE  m[v] = GetTileDescription(v, W, hidden)
  <2>1. <<v, from>> \notin Scene.lost /\ v \notin misled
    BY <1>14
  <2>2. <<v, from>> \notin Uncovered(Scene, from, place, Seers(c, hidden))
    <3>1. <<v, from>> \notin F
      BY <1>14
    <3> HIDE DEF place
    <3>2. QED BY <3>1 DEF Uncovered, Seers
  <2>3. /\ canSeeCreature(v, c, hidden) =>
             Removed(Scene.view[v][from], Own(v)) = GetTileDescription(v, W, hidden)
        /\ ~ canSeeCreature(v, c, hidden) => Scene.view[v][from] = GetTileDescription(v, W, hidden)
    <3>1. OnlyPlace(Scene.tile[from], k, c) /\ Scene.tile[from] = T
      BY <1>2, <1>6
    <3>2. <<v, from>> \notin Uncovered(Scene, from, PlaceOf(Scene.tile[from], c), Seers(c, hidden))
      BY <2>2, <3>1
    <3>3. Departs(Scene, from, c, v, Scene.tile[from])
      BY <1>2, <1>14, <2>1, <3>1, <3>2, WalksAway
    <3> HIDE DEF T
    <3>4. Departs(Scene, from, c, v, T)
      BY <3>1, <3>3
    <3>5. QED BY <3>4 DEF Departs
  <2>4. v \in Sees(from) => Given(v) = Own(v)
    BY <2>1
  <2>5. m[v] = IF v \in Sees(from) THEN Removed(Scene.view[v][from], Given(v)) ELSE Scene.view[v][from]
    OBVIOUS
  <2>6. v \in Sees(from) <=> canSeeCreature(v, c, hidden)
    BY <1>12, <1>14
  <2> HIDE DEF m, Sees, Given, Own, misled, W
  <2>7. QED BY <2>3, <2>4, <2>5, <2>6
<1>15. ASSUME NEW v \in Watchers, to \in Sight[v], <<v, to>> \notin L
       PROVE  n[v] = GetTileDescription(v, U, hidden)
  <2> DEFINE was == gone.view[v][to]
             V == tile[to]
  <2>1. <<v, to>> \notin Scene.lost
    BY <1>15
  <2>2. was = GetTileDescription(v, V, hidden)
    <3>1. Scene.view[v][to] = GetTileDescription(v, V, hidden)
      BY <1>2, <1>15, <2>1 DEF Good, Copies
    <3>2. IsTold(gone, Scene, from, m)
      <4> HIDE DEF gone, m
      <4>1. QED BY <1>2, <1>3, ToldIs
    <3> HIDE DEF gone, m
    <3>3. gone.view[v][to] = Scene.view[v][to]
      BY <1>1, <3>2 DEF IsTold
    <3>4. QED BY <3>1, <3>3
  <2>3. v \in carried => v \in Sees(to)
    OBVIOUS
  <2>4. v \in Sees(to) <=> canSeeCreature(v, c, hidden)
    BY <1>13, <1>15
  <2>5. n[v] = CASE v \in carried -> Added(was, BehindCreatures(was), c)
                 [] v \in Sees(to) \ carried ->
                       Added(was, getClientIndexOfThing(v, U, hidden, PlaceOf(U, c)), c)
                 [] OTHER -> was
    OBVIOUS
  <2> HIDE DEF n, was, carried, Sees
  <2>6. V \in TileRecs /\ NotOn(V, c) /\ U = WithCreature(V, c)
    BY <1>2, <1>8
  <2> HIDE DEF U, V
  <2>7. /\ canSeeCreature(v, c, hidden) =>
                /\ Added(GetTileDescription(v, V, hidden),
                         getClientIndexOfThing(v, WithCreature(V, c), hidden, PlaceOf(WithCreature(V, c), c)), c)
                     = GetTileDescription(v, WithCreature(V, c), hidden)
                /\ Added(GetTileDescription(v, V, hidden), BehindCreatures(GetTileDescription(v, V, hidden)), c)
                     = GetTileDescription(v, WithCreature(V, c), hidden)
        /\ ~ canSeeCreature(v, c, hidden) =>
                GetTileDescription(v, WithCreature(V, c), hidden) = GetTileDescription(v, V, hidden)
    BY <2>6, ComesFirst
  <2>8. CASE v \in carried
    BY <2>2, <2>3, <2>4, <2>5, <2>6, <2>7, <2>8
  <2>9. CASE v \in Sees(to) \ carried
    BY <2>2, <2>4, <2>5, <2>6, <2>7, <2>9
  <2>10. CASE v \notin Sees(to)
    <3>1. n[v] = was
      BY <2>3, <2>5, <2>10
    <3>2. QED BY <2>2, <2>4, <2>6, <2>7, <2>10, <3>1
  <2>11. QED BY <2>8, <2>9, <2>10
<1>16. MovesRight(Scene, from, to, m, n, W, U, L)
  <2> HIDE DEF m, n, W, U, L
  <2>1. QED BY <1>1, <1>7, <1>9, <1>10, <1>11, <1>14, <1>15 DEF MovesRight
<1>17. Good(r, hidden)
  <2> HIDE DEF m, n, W, U, L
  <2>1. QED BY <1>2, <1>16, MovedGood
<1> HIDE DEF r
<1>18. Good(r, hidden') /\ hidden' \subseteq Hiders
  BY <1>1, <1>2, <1>17
<1>19. QED BY <1>5, <1>18, GoodBecomes

LEMMA UpdateTileInv ==
    ASSUME ViewAssumption, TileInv, NEW v \in Watchers, NEW t \in Tiles, playerUpdateTile(v, t)
    PROVE  TileInv'
<1>1. /\ t \in Sight[v] /\ hidden' = hidden /\ tile' = tile /\ stray' = stray \ {<<v, t>>}
      /\ view' = [view EXCEPT ![v][t] = GetTileDescription(v, tile[t], hidden)]
  BY DEF playerUpdateTile
<1>2. /\ Good(Scene, hidden) /\ hidden \subseteq Hiders /\ Scene = [tile |-> tile, view |-> view, lost |-> stray]
      /\ \A u \in Watchers, x \in Tiles : view[u][x] \in Seq(Things) /\ Len(view[u][x]) <= Limit
  BY DEF TileInv, Scene
<1>3. Scene' = [tile |-> tile', view |-> view', lost |-> stray']
  BY DEF Scene
<1>4. /\ tile \in [Tiles -> TileRecs] /\ stray \subseteq Watchers \X Tiles /\ Apart(tile)
      /\ view = [u \in Watchers |-> [x \in Tiles |-> view[u][x]]]
  BY <1>2 DEF Good, IsScene
<1>5. \A u \in Watchers, x \in Tiles :
        view'[u][x] = IF u = v /\ x = t THEN GetTileDescription(v, tile[t], hidden) ELSE view[u][x]
  BY <1>1, <1>4
<1>6. view' = [u \in Watchers |-> [x \in Tiles |-> view'[u][x]]]
  BY <1>1, <1>4
<1>7. \A u \in Watchers, x \in Tiles :
        IF x \notin Sight[u] THEN view[u][x] = <<>>
        ELSE <<u, x>> \notin stray => view[u][x] = GetTileDescription(u, tile[x], hidden)
  BY <1>2 DEF Good, Copies
<1> DEFINE s == Scene'
           h == hidden'
<1>8. s.tile = tile /\ s.view = view' /\ s.lost = stray \ {<<v, t>>} /\ s = [tile |-> s.tile, view |-> s.view, lost |-> s.lost]
      /\ h = hidden
  BY <1>1, <1>3
<1> HIDE DEF s, h
<1>9. Copies(s, h)
  <2>1. ASSUME NEW u \in Watchers, NEW x \in Tiles
        PROVE  IF x \notin Sight[u] THEN s.view[u][x] = <<>>
               ELSE <<u, x>> \notin s.lost => s.view[u][x] = GetTileDescription(u, s.tile[x], h)
    <3>1. CASE u = v /\ x = t
      BY <1>1, <1>5, <1>8, <3>1
    <3>2. CASE ~ (u = v /\ x = t)
      <4>1. <<u, x>> \in s.lost <=> <<u, x>> \in stray
        BY <1>8, <3>2
      <4>2. s.view[u][x] = view[u][x] /\ s.tile[x] = tile[x]
        BY <1>5, <1>8, <3>2
      <4>3. QED BY <1>7, <1>8, <4>1, <4>2
    <3>3. QED BY <3>1, <3>2
  <2>2. QED BY <2>1 DEF Copies
<1>10. IsScene(s)
  BY <1>4, <1>6, <1>8 DEF IsScene
<1>11. Good(s, h)
  BY <1>4, <1>8, <1>9, <1>10 DEF Good
<1>12. \A u \in Watchers, x \in Tiles : view'[u][x] \in Seq(Things) /\ Len(view'[u][x]) <= Limit
  <2>1. GetTileDescription(v, tile[t], hidden) \in Seq(Things) /\ Len(GetTileDescription(v, tile[t], hidden)) <= Limit
    <3>1. tile[t] \in TileRecs
      BY <1>4
    <3>2. QED BY <3>1, DescriptionType
  <2>2. QED BY <1>2, <1>5, <2>1
<1>13. QED BY <1>1, <1>2, <1>11, <1>12 DEF TileInv, s, h



-----------------------------------------------------------------------------
(* All that happens                                                        *)

LEMMA TilesInit ==
    ASSUME ViewAssumption, TileInit
    PROVE  TileInv
<1>1. hidden = {} /\ stray = {} /\ Scene = [tile |-> tile, view |-> view, lost |-> stray]
  BY DEF TileInit, Scene
<1>2. \A t \in Tiles : tile[t] \in TileRecs /\ tile[t].creatures = <<>>
  <2> SUFFICES ASSUME NEW t \in Tiles PROVE tile[t] \in TileRecs /\ tile[t].creatures = <<>>
    OBVIOUS
  <2>1. tile[t] \in {[ground |-> g, top |-> <<>>, creatures |-> <<>>, down |-> <<>>] : g \in Grounds \cup {NoGround}}
    BY DEF TileInit
  <2>2. PICK g \in Grounds \cup {NoGround} : tile[t] = [ground |-> g, top |-> <<>>, creatures |-> <<>>, down |-> <<>>]
    BY <2>1
  <2>3. <<>> \in Seq(TopItems) /\ <<>> \in Seq(Visitors) /\ <<>> \in Seq(DownItems)
    OBVIOUS
  <2>4. QED BY <2>2, <2>3 DEF TileRecs
<1>3. tile \in [Tiles -> TileRecs]
  <2>1. tile = [t \in Tiles |-> tile[t]]
    BY DEF TileInit
  <2>2. QED BY <1>2, <2>1
<1>4. Apart(tile)
  <2>1. \A t \in Tiles : Len(tile[t].creatures) = 0
    BY <1>2
  <2>2. QED BY <2>1 DEF Apart
<1>5. view = [v \in Watchers |-> [t \in Tiles |->
                IF t \in Sight[v] THEN GetTileDescription(v, tile[t], hidden) ELSE <<>>]]
  BY <1>1 DEF TileInit
<1>6. \A v \in Watchers, t \in Tiles :
        view[v][t] = IF t \in Sight[v] THEN GetTileDescription(v, tile[t], hidden) ELSE <<>>
  BY <1>5
<1>7. view = [v \in Watchers |-> [t \in Tiles |-> view[v][t]]]
  BY <1>5
<1>8. \A v \in Watchers, t \in Tiles : view[v][t] \in Seq(Things) /\ Len(view[v][t]) <= Limit
  <2> SUFFICES ASSUME NEW v \in Watchers, NEW t \in Tiles PROVE view[v][t] \in Seq(Things) /\ Len(view[v][t]) <= Limit
    OBVIOUS
  <2>1. GetTileDescription(v, tile[t], hidden) \in Seq(Things) /\ Len(GetTileDescription(v, tile[t], hidden)) <= Limit
    BY <1>2, DescriptionType
  <2>2. <<>> \in Seq(Things) /\ Len(<<>>) <= Limit
    BY DEF ViewAssumption
  <2>3. QED BY <1>6, <2>1, <2>2
<1> DEFINE s == Scene
<1>9. s.tile = tile /\ s.view = view /\ s.lost = stray /\ s = [tile |-> s.tile, view |-> s.view, lost |-> s.lost]
  BY <1>1
<1> HIDE DEF s
<1>10. Copies(s, hidden)
  BY <1>6, <1>9 DEF Copies
<1>11. IsScene(s)
  BY <1>1, <1>3, <1>7, <1>9 DEF IsScene
<1>12. Good(s, hidden)
  BY <1>4, <1>9, <1>10, <1>11 DEF Good
<1>13. QED BY <1>1, <1>8, <1>12 DEF TileInv, s

LEMMA TilesStay ==
    ASSUME TileInv, UNCHANGED tileVars
    PROVE  TileInv'
<1>1. tile' = tile /\ hidden' = hidden /\ view' = view /\ stray' = stray
  BY DEF tileVars
<1>2. Scene' = Scene
  BY <1>1 DEF Scene
<1> DEFINE s == Scene
           h == hidden
<1>3. Good(s, h) /\ Good(Scene', hidden') = Good(s, h)
  <2>1. Good(s, h)
    BY DEF TileInv
  <2>2. Good(Scene', hidden') = Good(s, h)
    BY <1>1, <1>2
  <2>3. QED BY <2>1, <2>2
<1>4. QED BY <1>1, <1>3 DEF TileInv

LEMMA TilesNext ==
    ASSUME ViewAssumption, TileInv, [TileNext]_tileVars
    PROVE  TileInv'
<1>1. CASE \E t \in Tiles, k \in Grounds \cup TopItems \cup DownItems : AddTileItem(t, k)
  BY <1>1, AddItemInv
<1>2. CASE \E t \in Tiles : RemoveTileItem(t)
  BY <1>2, RemoveItemInv
<1>3. CASE \E t \in Tiles, k \in Grounds \cup TopItems \cup DownItems : \E p \in Places(tile[t]) : transformItem(t, p, k)
  BY <1>3, TransformItemInv
<1>4. CASE \E c \in Visitors, t \in Tiles : placeCreature(c, t) \/ removeCreature(c, t)
  BY <1>4, PlaceCreatureInv, RemoveCreatureInv
<1>5. CASE \E c \in Hiders, t \in Tiles : Hide(c, t) \/ Unhide(c, t)
  BY <1>5, HideInv, UnhideInv
<1>6. CASE \E c \in Visitors, from, to \in Tiles, teleport \in BOOLEAN : \E list \in ListsFor(c) :
             moveCreature(c, from, to, teleport, list)
  BY <1>6, MoveCreatureInv
<1>7. CASE \E v \in Watchers, t \in Tiles : playerUpdateTile(v, t)
  BY <1>7, UpdateTileInv
<1>8. CASE UNCHANGED tileVars
  BY <1>8, TilesStay
<1>9. QED BY <1>1, <1>2, <1>3, <1>4, <1>5, <1>6, <1>7, <1>8 DEF TileNext

LEMMA TilesFine ==
    ASSUME ViewAssumption, TileInv
    PROVE  TilesTyped /\ CopiesTrue
<1>1. /\ Good(Scene, hidden) /\ hidden \subseteq Hiders /\ Scene.tile = tile /\ Scene.view = view /\ Scene.lost = stray
      /\ \A v \in Watchers, t \in Tiles : view[v][t] \in Seq(Things) /\ Len(view[v][t]) <= Limit
  BY DEF TileInv, Scene
<1>2. tile \in [Tiles -> TileRecs] /\ stray \subseteq Watchers \X Tiles /\ Apart(tile)
  BY <1>1 DEF Good, IsScene
<1>3. ASSUME NEW t \in Tiles
      PROVE  /\ tile[t].ground \in Grounds \cup {NoGround}
             /\ tile[t].top \in Seq(TopItems) /\ tile[t].down \in Seq(DownItems)
             /\ tile[t].creatures \in Seq(Visitors) /\ IsInjective(tile[t].creatures)
  <2>1. tile[t] \in TileRecs
    BY <1>2
  <2>2. DOMAIN tile[t].creatures = 1..Len(tile[t].creatures)
    BY <2>1 DEF TileRecs
  <2>3. IsInjective(tile[t].creatures)
    BY <1>2, <2>2 DEF Apart, IsInjective
  <2>4. QED BY <2>1, <2>3 DEF TileRecs
<1>4. CopiesTrue
  <2>1. ASSUME NEW v \in Watchers, NEW t \in Sight[v]
        PROVE  <<v, t>> \in stray \/ view[v][t] = GetTileDescription(v, tile[t], hidden)
    <3>1. t \in Tiles
      BY DEF ViewAssumption
    <3>2. QED BY <1>1, <3>1 DEF Good, Copies
  <2>2. QED BY <2>1 DEF CopiesTrue
<1>5. QED BY <1>1, <1>2, <1>3, <1>4 DEF TilesTyped, Things

LEMMA TileInvHolds == TileSpec => []TileInv
<1>1. TileInit => TileInv
  BY ViewAssumption, TilesInit
<1>2. TileInv /\ [TileNext]_tileVars => TileInv'
  BY ViewAssumption, TilesNext
<1>3. QED BY <1>1, <1>2, PTL DEF TileSpec

\* Whatever comes to a tile, leaves it, turns or hides there, each client that has the
\* tile shows the first of the things its player would see there, in their order, but
\* for the tiles where the code is known to tell nothing or a wrong place.  For any
\* tiles, watchers and sights, kinds and orders, and for any number of things shown.
THEOREM TilesAlwaysShown == TileSpec => []TilesShown
<1>1. TileInv => TilesShown
  BY ViewAssumption, TilesFine DEF TilesShown
<1>2. QED BY <1>1, TileInvHolds, PTL
=============================================================================
