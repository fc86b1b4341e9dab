----------------------------- MODULE BasicLemmas -----------------------------
(***************************************************************************)
(* Facts about naturals, intervals and sequences the proofs share.         *)
(***************************************************************************)
EXTENDS Integers, Sequences, FiniteSetsExt, SequencesExt, SequenceTheorems, WellFoundedInduction,
        FiniteSetTheorems, TLAPS

(* The least-number principle.                                             *)
LEMMA LeastNat ==
  ASSUME NEW S \in SUBSET Nat, S # {}
  PROVE  \E m \in S : \A n \in S : m <= n
<1> DEFINE R == OpToRel(<, Nat)
<1>1. IsWellFoundedOn(R, Nat)  BY NatLessThanWellFounded
<1>2. \A x, y \in Nat : x < y => <<x, y>> \in R  BY DEF OpToRel
<1> HIDE DEF R
<1>3. PICK m \in S : \A n \in S : ~(<<n, m>> \in R)  BY <1>1, WFMin
<1>4. \A n \in S : ~(n < m)
  BY <1>2, <1>3
<1> QED  BY <1>4

(* A non-empty set of naturals up to n has a greatest element.             *)
LEMMA MaxOfInterval ==
  ASSUME NEW n \in Nat, NEW S \in SUBSET (1..n), S # {}
  PROVE  Max(S) \in S /\ \A x \in S : x <= Max(S)
<1> DEFINE T == {k \in Nat : k <= n /\ n - k \in S}
<1>1. T \in SUBSET Nat  OBVIOUS
<1>2. T # {}
  <2>1. PICK x \in 1..n : x \in S  OBVIOUS
  <2>2. n - x \in T  BY <2>1
  <2> QED  BY <2>2
<1>3. PICK m \in T : \A k \in T : m <= k
  <2> HIDE DEF T
  <2> QED  BY <1>1, <1>2, LeastNat
<1>4. n - m \in S /\ \A x \in S : n - m >= x
  <2>1. \A x \in S : n - x \in T  OBVIOUS
  <2>2. \A x \in S : m <= n - x  BY <1>3, <2>1
  <2> QED  BY <1>3, <2>2
<1>5. \E x \in S : \A y \in S : x >= y  BY <1>4
<1> QED  BY <1>5 DEF Max

(* One more row of a table.                                                *)
LEMMA ProductStep ==
  ASSUME NEW r \in Nat, NEW w \in Nat
  PROVE  r * w \in Nat /\ (r + 1) * w = r * w + w
  OBVIOUS

(* Products and quotients keep the order of naturals.                     *)
LEMMA ProductMonotonic ==
  ASSUME NEW d \in Nat, NEW f \in Nat, NEW g \in Nat, f <= g
  PROVE  d * f \in Nat /\ d * g \in Nat /\ d * f <= d * g
<1>1. g - f \in Nat /\ g = f + (g - f)  OBVIOUS
<1>2. PICK h \in Nat : g = f + h  BY <1>1
<1>3. d * g = d * f + d * h  BY <1>2
<1>4. d * f \in Nat /\ d * h \in Nat  OBVIOUS
<1> QED  BY <1>3, <1>4

(* Rounding down keeps the order.                                          *)
LEMMA DivMonotonic ==
  ASSUME NEW k \in Nat \ {0}, NEW a \in Nat, NEW b \in Nat, a <= b
  PROVE  a \div k \in Nat /\ a \div k <= b \div k
<1> DEFINE p == a \div k
           q == b \div k
<1>1. /\ p \in Nat /\ a % k \in 0..(k - 1) /\ a = k * p + (a % k)
      /\ q \in Nat /\ b % k \in 0..(k - 1) /\ b = k * q + (b % k)
  OBVIOUS
<1> HIDE DEF p, q
<1>2. SUFFICES ASSUME ~(p <= q) PROVE FALSE  BY <1>1 DEF p, q
<1>3. q + 1 \in Nat /\ q + 1 <= p  BY <1>1, <1>2
<1>4. k * (q + 1) <= k * p /\ k * p \in Nat /\ k * q \in Nat  BY <1>1, <1>3, ProductMonotonic
<1>5. k * (q + 1) = k * q + k  BY <1>1
<1> QED  BY <1>1, <1>4, <1>5

(* A multiple divides exactly.                                             *)
LEMMA DivExact ==
  ASSUME NEW k \in Nat \ {0}, NEW d \in Nat
  PROVE  (d * k) \div k = d
  OBVIOUS

(* The first r elements of a sequence.                                     *)
LEMMA PrefixFacts ==
  ASSUME NEW S, NEW s \in Seq(S), NEW r \in 0..Len(s)
  PROVE  /\ SubSeq(s, 1, r) \in Seq(S) /\ Len(SubSeq(s, 1, r)) = r
         /\ \A i \in 1..r : SubSeq(s, 1, r)[i] = s[i]
  OBVIOUS

(* The elements of a concatenation.                                        *)
LEMMA ConcatFacts ==
  ASSUME NEW S, NEW s \in Seq(S), NEW t \in Seq(S)
  PROVE  /\ s \o t \in Seq(S) /\ Len(s \o t) = Len(s) + Len(t)
         /\ \A i \in 1..Len(s) : (s \o t)[i] = s[i]
         /\ \A i \in 1..Len(t) : (s \o t)[Len(s) + i] = t[i]
  OBVIOUS

(* Products with a natural keep the order of integers.                     *)
LEMMA ScaleKeepsOrder ==
  ASSUME NEW x \in Int, NEW y \in Int, NEW k \in Nat, x <= y
  PROVE  x * k <= y * k
<1>1. PICK d \in Nat : y = x + d
  <2>1. y - x \in Nat /\ y = x + (y - x)
    OBVIOUS
  <2> QED
    BY <2>1
<1>2. y * k = x * k + d * k
  BY <1>1
<1>3. d * k \in Nat /\ x * k \in Int
  OBVIOUS
<1> QED
  BY <1>2, <1>3

(* Products of integers.                                                   *)
LEMMA DistributeRight ==
  ASSUME NEW x \in Int, NEW y \in Int, NEW z \in Int
  PROVE  x * (y + z) = x * y + x * z
OBVIOUS

(* Products of sums.                                                       *)
LEMMA DistributeLeft ==
  ASSUME NEW x \in Int, NEW y \in Int, NEW z \in Int
  PROVE  (x + y) * z = x * z + y * z
OBVIOUS

(* The order of factors does not matter.                                   *)
LEMMA SwapFactors ==
  ASSUME NEW x \in Int, NEW y \in Int, NEW z \in Int,
         NEW p \in Int, NEW q \in Int, p = x * y, q = x * z
  PROVE  p * z = q * y
OBVIOUS

(* Inequalities add up.                                                    *)
LEMMA SumKeepsOrder ==
  ASSUME NEW a \in Int, NEW b \in Int, NEW c \in Int, NEW d \in Int, a <= b, c <= d
  PROVE  a + c <= b + d
OBVIOUS

(* Induction over the naturals, by the least number that fails.            *)
LEMMA InductionOverNat ==
  ASSUME NEW S \in SUBSET Nat, 0 \in S, \A n \in S : n + 1 \in S
  PROVE  \A n \in Nat : n \in S
<1> SUFFICES ASSUME NEW k \in Nat, k \notin S PROVE FALSE
  OBVIOUS
<1> DEFINE F == {n \in Nat : n \notin S}
<1>1. F \in SUBSET Nat /\ F # {}
  OBVIOUS
<1>2. PICK m \in F : \A n \in F : m <= n
  <2> HIDE DEF F
  <2> QED
    BY <1>1, LeastNat
<1>3. m \in Nat /\ m # 0 /\ m - 1 \in Nat /\ m - 1 \in S
  <2>1. m \in Nat /\ m # 0
    BY <1>2
  <2>2. m - 1 \in Nat /\ ~(m <= m - 1)
    BY <2>1
  <2> QED
    BY <1>2, <2>1, <2>2
<1>4. m \in S
  BY <1>3
<1> QED
  BY <1>2, <1>4

(* The concatenations of the first sequences of a list, one by one.        *)
Flattening(ss, f, n) ==
  f = [i \in 1..n |-> IF i = 1 THEN ss[i] ELSE f[i - 1] \o ss[i]]

(* One step further.                                                       *)
LEMMA FlatteningExtends ==
  ASSUME NEW ss, NEW n \in Nat, NEW f, Flattening(ss, f, n)
  PROVE  \E g : Flattening(ss, g, n + 1)
<1> DEFINE last == IF n = 0 THEN ss[1] ELSE f[n] \o ss[n + 1]
           g == [i \in 1..(n + 1) |-> IF i <= n THEN f[i] ELSE last]
<1>f. f = [i \in 1..n |-> IF i = 1 THEN ss[i] ELSE f[i - 1] \o ss[i]]
  BY DEF Flattening
<1> DEFINE h == [i \in 1..(n + 1) |-> IF i = 1 THEN ss[i] ELSE g[i - 1] \o ss[i]]
<1>1. \A i \in 1..n : f[i] = IF i = 1 THEN ss[i] ELSE f[i - 1] \o ss[i]
  BY <1>f
<1>2. \A i \in 1..(n + 1) : g[i] = h[i]
  <2> TAKE i \in 1..(n + 1)
  <2>1. CASE i = 1
    BY <1>1, <2>1
  <2>2. CASE i # 1 /\ i <= n
    <3>1. i - 1 \in 1..(n + 1) /\ i - 1 <= n /\ i \in 1..n
      BY <2>2
    <3> QED
      BY <1>1, <2>2, <3>1
  <2>3. CASE i # 1 /\ ~(i <= n)
    <3>1. i = n + 1 /\ n # 0 /\ n \in 1..(n + 1) /\ i - 1 = n /\ n <= n /\ ~(n + 1 <= n)
      BY <2>3
    <3>2. g[n] = f[n] /\ g[i] = f[n] \o ss[i]
      BY <3>1
    <3>3. h[i] = g[n] \o ss[i]
      <4> HIDE DEF g
      <4> QED
        BY <2>3, <3>1
    <3> QED
      BY <3>2, <3>3
  <2> QED
    BY <2>1, <2>2, <2>3
<1>3. g = [i \in 1..(n + 1) |-> h[i]]
  <2>1. g = [i \in 1..(n + 1) |-> g[i]]
    OBVIOUS
  <2> HIDE DEF g, h
  <2> QED
    BY <1>2, <2>1
<1>4. g = h
  <2>1. h = [i \in 1..(n + 1) |-> h[i]]
    OBVIOUS
  <2> HIDE DEF g, h
  <2> QED
    BY <1>3, <2>1
<1>5. Flattening(ss, g, n + 1)
  BY <1>4 DEF Flattening
<1> QED
  BY <1>5

(* There are as many of them as sequences.                                 *)
LEMMA FlatteningExists ==
  ASSUME NEW ss, NEW n \in Nat
  PROVE  \E f : Flattening(ss, f, n)
<1> DEFINE S == {k \in Nat : \E f : Flattening(ss, f, k)}
<1>1. 0 \in S
  <2>1. Flattening(ss, [i \in 1..0 |-> 0], 0)
    BY DEF Flattening
  <2> QED
    BY <2>1
<1>2. \A k \in S : k + 1 \in S
  BY FlatteningExtends
<1>3. n \in S
  <2>1. S \in SUBSET Nat
    OBVIOUS
  <2> HIDE DEF S
  <2> QED
    BY <1>1, <1>2, <2>1, InductionOverNat
<1> QED
  BY <1>3

(* There is only one of them, whatever is appended to the list.            *)
LEMMA FlatteningUnique ==
  ASSUME NEW ss, NEW tt, NEW f, NEW g, NEW n \in Nat, NEW m \in Nat, n <= m,
         Flattening(ss, f, n), Flattening(tt, g, m), \A i \in 1..n : ss[i] = tt[i]
  PROVE  \A i \in 1..n : f[i] = g[i]
<1>1. \A i \in 1..n : f[i] = IF i = 1 THEN ss[i] ELSE f[i - 1] \o ss[i]
  BY DEF Flattening
<1>2. \A i \in 1..m : g[i] = IF i = 1 THEN tt[i] ELSE g[i - 1] \o tt[i]
  BY DEF Flattening
<1> DEFINE S == {k \in Nat : k \in 1..n => f[k] = g[k]}
<1>3. 0 \in S
  OBVIOUS
<1>4. \A k \in S : k + 1 \in S
  <2> SUFFICES ASSUME NEW k \in S, k + 1 \in 1..n PROVE f[k + 1] = g[k + 1]
    OBVIOUS
  <2>1. k + 1 \in 1..m /\ k \in Nat /\ ss[k + 1] = tt[k + 1] /\ (k + 1) - 1 = k
    OBVIOUS
  <2>2. CASE k = 0
    <3>1. k + 1 = 1
      BY <2>2
    <3> QED
      BY <1>1, <1>2, <2>1, <3>1
  <2>3. CASE k # 0
    <3>1. k \in 1..n /\ k + 1 # 1
      BY <2>1, <2>3
    <3>2. f[k] = g[k]
      BY <3>1
    <3>3. f[k + 1] = f[k] \o ss[k + 1]
      BY <1>1, <2>1, <3>1
    <3>4. g[k + 1] = g[k] \o tt[k + 1]
      BY <1>2, <2>1, <3>1
    <3> QED
      BY <2>1, <3>2, <3>3, <3>4
  <2> QED
    BY <2>2, <2>3
<1>5. \A k \in Nat : k \in S
  <2>1. S \in SUBSET Nat
    OBVIOUS
  <2> HIDE DEF S
  <2> QED
    BY <1>3, <1>4, <2>1, InductionOverNat
<1> QED
  BY <1>5

(* `FlattenSeq` is the last of them.                                       *)
LEMMA FlattenByPrefixes ==
  ASSUME NEW ss, Len(ss) \in Nat \ {0}
  PROVE  \E f : Flattening(ss, f, Len(ss)) /\ FlattenSeq(ss) = f[Len(ss)]
<1> DEFINE F == CHOOSE f : f = [i \in 1..Len(ss) |-> IF i = 1 THEN ss[i] ELSE f[i - 1] \o ss[i]]
<1>1. \E f : f = [i \in 1..Len(ss) |-> IF i = 1 THEN ss[i] ELSE f[i - 1] \o ss[i]]
  BY FlatteningExists DEF Flattening
<1>2. F = [i \in 1..Len(ss) |-> IF i = 1 THEN ss[i] ELSE F[i - 1] \o ss[i]]
  BY <1>1, Zenon
<1>3. FlattenSeq(ss) = F[Len(ss)]
  <2>1. Len(ss) # 0
    OBVIOUS
  <2> QED
    BY <2>1, Zenon DEF FlattenSeq
<1>4. Flattening(ss, F, Len(ss))
  BY <1>2 DEF Flattening
<1> QED
  BY <1>3, <1>4

(* One sequence more.                                                      *)
LEMMA FlattenAppend ==
  ASSUME NEW T, NEW ss \in Seq(Seq(T)), NEW s \in Seq(T)
  PROVE  FlattenSeq(Append(ss, s)) = FlattenSeq(ss) \o s
<1> DEFINE tt == Append(ss, s)
           n == Len(ss)
<1>1. n \in Nat /\ Len(tt) = n + 1 /\ tt[n + 1] = s /\ \A i \in 1..n : ss[i] = tt[i]
  OBVIOUS
<1> HIDE DEF tt
<1>2. PICK g : Flattening(tt, g, n + 1) /\ FlattenSeq(tt) = g[n + 1]
  BY <1>1, FlattenByPrefixes
<1>3. g[n + 1] = IF n + 1 = 1 THEN s ELSE g[n] \o s
  <2>1. n + 1 \in 1..(n + 1) /\ (n + 1) - 1 = n
    BY <1>1
  <2> QED
    BY <1>1, <1>2, <2>1 DEF Flattening
<1>4. CASE n = 0
  <2>1. ss = <<>> /\ FlattenSeq(ss) = <<>>
    BY <1>4 DEF FlattenSeq
  <2> QED
    BY <1>2, <1>3, <1>4, <2>1 DEF tt
<1>5. CASE n # 0
  <2>1. PICK f : Flattening(ss, f, n) /\ FlattenSeq(ss) = f[n]
    BY <1>1, <1>5, FlattenByPrefixes
  <2>2. n <= n + 1 /\ n \in Nat /\ n + 1 \in Nat
    BY <1>1
  <2>3. f[n] = g[n]
    <3>1. \A i \in 1..n : f[i] = g[i]
      <4> HIDE DEF n
      <4> QED
        BY <1>1, <1>2, <2>1, <2>2, FlatteningUnique
    <3> QED
      BY <1>1, <1>5, <3>1
  <2> QED
    BY <1>1, <1>2, <1>3, <1>5, <2>1, <2>3 DEF tt
<1> QED
  BY <1>4, <1>5

(* Nothing to lay end to end.                                              *)
LEMMA FlattenEmpty == FlattenSeq(<<>>) = <<>>
BY DEF FlattenSeq

(* The concatenation of sequences over a set is one.                       *)
LEMMA FlattenType ==
  ASSUME NEW T, NEW ss \in Seq(Seq(T))
  PROVE  FlattenSeq(ss) \in Seq(T)
<1> DEFINE n == Len(ss)
           S == {k \in Nat : \A tt \in Seq(Seq(T)) : Len(tt) = k => FlattenSeq(tt) \in Seq(T)}
<1>1. 0 \in S
  BY FlattenEmpty
<1>2. \A k \in S : k + 1 \in S
  <2> SUFFICES ASSUME NEW k \in S, NEW tt \in Seq(Seq(T)), Len(tt) = k + 1
               PROVE  FlattenSeq(tt) \in Seq(T)
    OBVIOUS
  <2>1. PICK uu \in Seq(Seq(T)), u \in Seq(T) : tt = Append(uu, u)
    <3>1. tt # <<>>
      OBVIOUS
    <3> QED
      BY <3>1, SequenceEmptyOrAppend
  <2>2. Len(uu) = k
    BY <2>1
  <2>3. FlattenSeq(uu) \in Seq(T)
    BY <2>2
  <2>4. FlattenSeq(tt) = FlattenSeq(uu) \o u
    BY <2>1, FlattenAppend
  <2> QED
    BY <2>3, <2>4, ConcatFacts
<1>3. n \in S
  <2>1. S \in SUBSET Nat /\ n \in Nat
    OBVIOUS
  <2> HIDE DEF S
  <2> QED
    BY <1>1, <1>2, <2>1, InductionOverNat
<1> QED
  BY <1>3

(* A list and its first n elements.                                        *)
LEMMA OneMore ==
  ASSUME NEW T, NEW n \in Nat, NEW f \in [1..n -> T], NEW g \in [1..(n + 1) -> T],
         \A j \in 1..n : f[j] = g[j]
  PROVE  f \in Seq(T) /\ g \in Seq(T) /\ g = Append(f, g[n + 1])
<1>1. n + 1 \in Nat /\ f \in Seq(T) /\ g \in Seq(T) /\ Len(f) = n /\ Len(g) = n + 1
  OBVIOUS
<1>2. Append(f, g[n + 1]) \in Seq(T) /\ Len(Append(f, g[n + 1])) = n + 1
  BY <1>1
<1>3. \A j \in 1..(n + 1) : g[j] = Append(f, g[n + 1])[j]
  BY <1>1
<1> QED
  BY <1>1, <1>2, <1>3, SeqEqual

(* Appending nothing.                                                      *)
LEMMA ConcatNothing ==
  ASSUME NEW T, NEW s \in Seq(T)
  PROVE  s \o <<>> = s
BY ConcatEmptySeq

(* Rows of one width laid end to end: the cell of a row and a column.      *)
RowMajor(ss, w) ==
  /\ Len(FlattenSeq(ss)) = Len(ss) * w
  /\ \A r \in Nat, c \in Nat : r < Len(ss) /\ c < w =>
       FlattenSeq(ss)[r * w + c + 1] = ss[r + 1][c + 1]

(* One row more.                                                           *)
LEMMA RowMajorStep ==
  ASSUME NEW T, NEW w \in Nat, NEW ss \in Seq(Seq(T)), NEW s \in Seq(T), Len(s) = w,
         RowMajor(ss, w)
  PROVE  RowMajor(Append(ss, s), w)
<1> DEFINE tt == Append(ss, s)
           F == FlattenSeq(ss)
           k == Len(ss)
<1>1. k \in Nat /\ Len(tt) = k + 1 /\ tt[k + 1] = s /\ \A i \in 1..k : tt[i] = ss[i]
  OBVIOUS
<1>2. F \in Seq(T) /\ FlattenSeq(tt) = F \o s
  BY FlattenType, FlattenAppend
<1>3. Len(F) = k * w /\ k * w \in Nat /\ (k + 1) * w = k * w + w
  BY <1>1, ProductStep DEF RowMajor
<1>4. \A r \in Nat, c \in Nat : r < k /\ c < w => F[r * w + c + 1] = ss[r + 1][c + 1]
  BY DEF RowMajor
<1> HIDE DEF tt, F, k
<1>5. Len(F \o s) = Len(F) + w /\ \A i \in 1..Len(F) : (F \o s)[i] = F[i]
  BY <1>2, ConcatFacts
<1>6. \A i \in 1..w : (F \o s)[Len(F) + i] = s[i]
  BY <1>2, ConcatFacts
<1>7. ASSUME NEW r \in Nat, NEW c \in Nat, r < k + 1, c < w
      PROVE  (F \o s)[r * w + c + 1] = tt[r + 1][c + 1]
  <2>1. CASE r = k
    <3>1. c + 1 \in 1..w /\ (k * w) + (c + 1) = k * w + c + 1
      BY <1>3, <1>7
    <3>2. (F \o s)[Len(F) + (c + 1)] = s[c + 1]
      BY <1>6, <3>1
    <3>3. (F \o s)[k * w + c + 1] = s[c + 1]
      BY <1>3, <3>1, <3>2
    <3> QED
      BY <1>1, <2>1, <3>3
  <2>2. CASE r # k
    <3>1. r < k /\ r + 1 <= k /\ r + 1 \in 1..k
      BY <1>1, <1>7, <2>2
    <3>2. w * (r + 1) <= w * k /\ r * w \in Nat /\ w * (r + 1) = r * w + w /\ w * k = k * w
      BY <1>1, <3>1, ProductMonotonic
    <3>3. r * w + c + 1 \in 1..Len(F)
      <4> DEFINE p == r * w
                 q == k * w
      <4>1. p \in Nat /\ q \in Nat /\ p + w <= q /\ Len(F) = q
        BY <1>3, <3>2
      <4> HIDE DEF p, q
      <4>2. p + c + 1 \in 1..Len(F)
        BY <1>7, <4>1
      <4> QED
        BY <4>2 DEF p
    <3>4. F[r * w + c + 1] = ss[r + 1][c + 1]
      BY <1>4, <1>7, <3>1
    <3> QED
      BY <1>1, <1>5, <3>1, <3>3, <3>4
  <2> QED
    BY <2>1, <2>2
<1>8. Len(F \o s) = (k + 1) * w
  BY <1>3, <1>5
<1>9. Len(FlattenSeq(tt)) = Len(tt) * w
  BY <1>1, <1>2, <1>8
<1>10. ASSUME NEW r \in Nat, NEW c \in Nat, r < Len(tt), c < w
       PROVE  FlattenSeq(tt)[r * w + c + 1] = tt[r + 1][c + 1]
  <2>1. r < k + 1
    BY <1>1, <1>10
  <2>2. (F \o s)[r * w + c + 1] = tt[r + 1][c + 1]
    BY <1>7, <1>10, <2>1
  <2> QED
    BY <1>2, <2>2, Zenon
<1>11. RowMajor(tt, w)
  BY <1>9, <1>10 DEF RowMajor
<1> QED
  BY <1>11 DEF tt

(* So are rows of one width, however many.                                 *)
LEMMA FlattenRows ==
  ASSUME NEW T, NEW w \in Nat, NEW ss \in Seq(Seq(T)), \A i \in 1..Len(ss) : Len(ss[i]) = w
  PROVE  RowMajor(ss, w)
<1> DEFINE Even(tt) == \A i \in 1..Len(tt) : Len(tt[i]) = w
           S == {k \in Nat : \A tt \in Seq(Seq(T)) : Len(tt) = k /\ Even(tt) => RowMajor(tt, w)}
<1>1. 0 \in S
  <2> SUFFICES ASSUME NEW tt \in Seq(Seq(T)), Len(tt) = 0 PROVE RowMajor(tt, w)
    OBVIOUS
  <2>1. tt = <<>> /\ FlattenSeq(tt) = <<>> /\ 0 * w = 0
    BY FlattenEmpty
  <2> QED
    BY <2>1 DEF RowMajor
<1>2. \A k \in S : k + 1 \in S
  <2> SUFFICES ASSUME NEW k \in S PROVE k + 1 \in S
    OBVIOUS
  <2>1. ASSUME NEW tt \in Seq(Seq(T)), Len(tt) = k + 1, Even(tt)
        PROVE  RowMajor(tt, w)
    <3>1. PICK uu \in Seq(Seq(T)), u \in Seq(T) : tt = Append(uu, u)
      <4>1. k \in Nat
        OBVIOUS
      <4>2. tt # <<>>
        BY <2>1, <4>1
      <4> QED
        BY <4>2, SequenceEmptyOrAppend
    <3>2. k \in Nat /\ Len(uu) = k /\ tt[k + 1] = u /\ \A i \in 1..k : tt[i] = uu[i]
      BY <2>1, <3>1
    <3>3. Len(u) = w /\ Even(uu)
      <4>1. k + 1 \in 1..Len(tt) /\ \A i \in 1..k : i \in 1..Len(tt)
        BY <2>1, <3>2
      <4> QED
        BY <2>1, <3>2, <4>1
    <3>4. RowMajor(uu, w)
      BY <3>2, <3>3
    <3> QED
      BY <3>1, <3>3, <3>4, RowMajorStep
  <2>2. k + 1 \in Nat
    OBVIOUS
  <2> HIDE DEF Even
  <2>3. \A tt \in Seq(Seq(T)) : Len(tt) = k + 1 /\ Even(tt) => RowMajor(tt, w)
    BY <2>1
  <2> QED
    BY <2>2, <2>3
<1>3. Len(ss) \in S
  <2>1. S \in SUBSET Nat /\ Len(ss) \in Nat
    OBVIOUS
  <2> HIDE DEF S
  <2> QED
    BY <1>1, <1>2, <2>1, InductionOverNat
<1> QED
  BY <1>3

(* A non-empty set of naturals has a least element.                        *)
LEMMA MinOfNat ==
  ASSUME NEW S \in SUBSET Nat, S # {}
  PROVE  Min(S) \in S /\ \A x \in S : Min(S) <= x
<1>1. \E m \in S : \A n \in S : m <= n
  BY LeastNat
<1> QED
  BY <1>1 DEF Min

(* A later number does not change it.                                      *)
LEMMA MinGrows ==
  ASSUME NEW S \in SUBSET Nat, NEW m \in Nat, \A x \in S : x < m
  PROVE  Min(S \cup {m}) = IF S = {} THEN m ELSE Min(S)
<1>1. S \cup {m} \in SUBSET Nat /\ S \cup {m} # {}
  OBVIOUS
<1>2. Min(S \cup {m}) \in S \cup {m} /\ \A x \in S \cup {m} : Min(S \cup {m}) <= x
  BY <1>1, MinOfNat
<1>3. CASE S = {}
  BY <1>2, <1>3
<1>4. CASE S # {}
  <2>1. Min(S) \in S /\ \A x \in S : Min(S) <= x
    BY <1>4, MinOfNat
  <2>2. PICK a \in Nat : a = Min(S \cup {m})
    BY <1>1, <1>2
  <2>3. PICK b \in Nat : b = Min(S)
    BY <2>1
  <2>4. b \in S /\ a <= b /\ b < m
    BY <1>2, <2>1, <2>2, <2>3
  <2>5. a \in S \/ a = m
    BY <1>2, <2>2
  <2>6. a \in S
    BY <2>4, <2>5
  <2>7. b <= a
    BY <2>1, <2>3, <2>6
  <2> QED
    BY <1>4, <2>2, <2>3, <2>4, <2>7
<1> QED
  BY <1>3, <1>4
=============================================================================
