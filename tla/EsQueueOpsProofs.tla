-------------------------- MODULE EsQueueOpsProofs --------------------------
(* What the queue operations of EsQueueOps do to the elements and to the   *)
(* order of a sequence, for sequences of every length.                     *)
EXTENDS EsQueueOps, SequencesExt, SequenceTheorems, WellFoundedInduction,
        FiniteSetTheorems, TLAPS

\* A set of numbers that is not empty has a least one.
LEMMA LeastOfSet ==
    ASSUME NEW T, T \subseteq Nat, T # {}
    PROVE  \E x \in T : \A y \in T : x <= y
<1>1. PICK x \in T : \A y \in T : ~(<<y, x>> \in OpToRel(<, Nat))
  BY NatLessThanWellFounded, WFMin
<1>2. ASSUME NEW y \in T PROVE x <= y
  <2>1. <<y, x>> \notin {ss \in Nat \X Nat : ss[1] < ss[2]}
    BY <1>1 DEF OpToRel
  <2>2. x \in Nat /\ y \in Nat
    OBVIOUS
  <2>3. <<y, x>> \in Nat \X Nat /\ <<y, x>>[1] = y /\ <<y, x>>[2] = x
    BY <2>2
  <2>4. ~(y < x)
    BY <2>1, <2>3
  <2> QED
    BY <2>2, <2>4
<1> QED
  BY <1>2

\* The first i elements.
LEMMA PrefixElements ==
    ASSUME NEW S, NEW q \in Seq(S), NEW i \in 0 .. Len(q)
    PROVE  /\ SubSeq(q, 1, i) \in Seq(S)
           /\ Len(SubSeq(q, 1, i)) = i
           /\ \A j \in 1 .. i : SubSeq(q, 1, i)[j] = q[j]
<1>1. Len(q) \in Nat /\ \A j \in 1 .. i : q[j] \in S
  BY LenProperties, ElementOfSeq
<1>2. /\ SubSeq(q, 1, i) \in Seq(S)
      /\ Len(SubSeq(q, 1, i)) = IF 1 <= i THEN i - 1 + 1 ELSE 0
      /\ \A j \in 1 .. i - 1 + 1 : SubSeq(q, 1, i)[j] = q[1 + j - 1]
  BY <1>1, SubSeqProperties
<1> DEFINE a == SubSeq(q, 1, i)
<1> HIDE DEF a
<1>3. /\ Len(a) = IF 1 <= i THEN i - 1 + 1 ELSE 0
      /\ \A j \in 1 .. i - 1 + 1 : a[j] = q[1 + j - 1]
  BY <1>2 DEF a
<1>4. Len(a) = i /\ \A j \in 1 .. i : a[j] = q[j]
  BY <1>1, <1>3
<1> QED
  BY <1>2, <1>4 DEF a

\* The elements after the first i.
LEMMA SuffixElements ==
    ASSUME NEW S, NEW q \in Seq(S), NEW i \in 0 .. Len(q)
    PROVE  /\ SubSeq(q, i + 1, Len(q)) \in Seq(S)
           /\ Len(SubSeq(q, i + 1, Len(q))) = Len(q) - i
           /\ \A j \in 1 .. Len(q) - i : SubSeq(q, i + 1, Len(q))[j] = q[i + j]
<1> DEFINE m == Len(q)
           a == SubSeq(q, i + 1, m)
<1> HIDE DEF m
<1>1. m \in Nat /\ i \in 0 .. m /\ \A j \in i + 1 .. m : q[j] \in S
  BY LenProperties, ElementOfSeq DEF m
<1>2. /\ SubSeq(q, i + 1, m) \in Seq(S)
      /\ Len(SubSeq(q, i + 1, m)) = IF i + 1 <= m THEN m - (i + 1) + 1 ELSE 0
      /\ \A j \in 1 .. m - (i + 1) + 1 : SubSeq(q, i + 1, m)[j] = q[i + 1 + j - 1]
  BY <1>1, SubSeqProperties
<1> HIDE DEF a
<1>3. /\ Len(a) = IF i + 1 <= m THEN m - (i + 1) + 1 ELSE 0
      /\ \A j \in 1 .. m - (i + 1) + 1 : a[j] = q[i + 1 + j - 1]
  BY <1>2 DEF a
<1>4. Len(a) = m - i /\ \A j \in 1 .. m - i : a[j] = q[i + j]
  BY <1>1, <1>3
<1> QED
  BY <1>2, <1>4 DEF a, m

\* vector::insert: the elements before the index keep their place, the new
\* ones follow, the rest is shifted behind them.
LEMMA SpliceElements ==
    ASSUME NEW S, NEW q \in Seq(S), NEW s \in Seq(S), NEW i \in 0 .. Len(q)
    PROVE  /\ Splice(q, i, s) \in Seq(S)
           /\ Len(Splice(q, i, s)) = Len(q) + Len(s)
           /\ \A j \in 1 .. Len(q) + Len(s) :
                 Splice(q, i, s)[j] = IF j <= i THEN q[j]
                                      ELSE IF j <= i + Len(s) THEN s[j - i]
                                      ELSE q[j - Len(s)]
<1> DEFINE a == SubSeq(q, 1, i)
           b == SubSeq(q, i + 1, Len(q))
           m == Len(q)
           n == Len(s)
<1> HIDE DEF a, b, m, n
<1>1. m \in Nat /\ n \in Nat /\ i \in 0 .. m /\ \A j \in 1 .. m : q[j] \in S
  BY LenProperties, ElementOfSeq DEF m, n
<1>2. a \in Seq(S) /\ Len(a) = i /\ \A j \in 1 .. i : a[j] = q[j]
  BY <1>1, PrefixElements DEF a, m
<1>3. b \in Seq(S) /\ Len(b) = m - i /\ \A j \in 1 .. m - i : b[j] = q[i + j]
  BY <1>1, SuffixElements DEF b, m
<1>4. /\ a \o s \in Seq(S) /\ Len(a \o s) = i + n
      /\ \A j \in 1 .. i + n : (a \o s)[j] = IF j <= i THEN a[j] ELSE s[j - i]
  BY <1>2, ConcatProperties DEF n
<1> DEFINE c == a \o s
<1> HIDE DEF c
<1>5. /\ c \o b \in Seq(S) /\ Len(c \o b) = Len(c) + Len(b)
      /\ \A j \in 1 .. Len(c) + Len(b) :
            (c \o b)[j] = IF j <= Len(c) THEN c[j] ELSE b[j - Len(c)]
  BY <1>3, <1>4, ConcatProperties, ZenonT(30) DEF c
<1>6. Splice(q, i, s) = c \o b
  BY DEF Splice, a, b, c
<1> DEFINE r == c \o b
<1> HIDE DEF r
<1>7. r \in Seq(S) /\ Len(r) = m + n
  BY <1>1, <1>3, <1>4, <1>5 DEF r, c
<1>8. ASSUME NEW j \in 1 .. m + n
      PROVE  r[j] = IF j <= i THEN q[j] ELSE IF j <= i + n THEN s[j - i] ELSE q[j - n]
  <2>1. Len(c) = i + n /\ Len(b) = m - i
    BY <1>3, <1>4 DEF c
  <2>2. r[j] = IF j <= i + n THEN c[j] ELSE b[j - (i + n)]
    BY <1>1, <1>5, <2>1 DEF r
  <2>3. CASE j <= i
    BY <1>1, <1>2, <1>4, <2>2, <2>3 DEF c
  <2>4. CASE i < j /\ j <= i + n
    BY <1>1, <1>4, <2>2, <2>4 DEF c
  <2>5. CASE i + n < j
    <3>1. j - (i + n) \in 1 .. m - i /\ i + (j - (i + n)) = j - n
      BY <1>1, <2>5
    <3>2. b[j - (i + n)] = q[j - n]
      BY <1>3, <3>1
    <3> QED
      BY <1>1, <2>2, <2>5, <3>2
  <2> QED
    BY <1>1, <2>3, <2>4, <2>5
<1> QED
  BY <1>6, <1>7, <1>8 DEF r, m, n

\* vector::erase of one element.
LEMMA RemoveAtElements ==
    ASSUME NEW S, NEW q \in Seq(S), NEW i \in 1 .. Len(q)
    PROVE  /\ RemoveAt(q, i) \in Seq(S)
           /\ Len(RemoveAt(q, i)) = Len(q) - 1
           /\ \A j \in 1 .. Len(q) - 1 :
                 RemoveAt(q, i)[j] = IF j < i THEN q[j] ELSE q[j + 1]
<1> DEFINE a == SubSeq(q, 1, i - 1)
           b == SubSeq(q, i + 1, Len(q))
           m == Len(q)
<1> HIDE DEF a, b, m
<1>1. m \in Nat /\ i \in 1 .. m /\ i - 1 \in 0 .. m
  BY LenProperties DEF m
<1>2. a \in Seq(S) /\ Len(a) = i - 1 /\ \A j \in 1 .. i - 1 : a[j] = q[j]
  BY <1>1, PrefixElements DEF a, m
<1>3. b \in Seq(S) /\ Len(b) = m - i /\ \A j \in 1 .. m - i : b[j] = q[i + j]
  BY <1>1, SuffixElements DEF b, m
<1> DEFINE r == a \o b
<1> HIDE DEF r
<1>4. /\ r \in Seq(S) /\ Len(r) = Len(a) + Len(b)
      /\ \A j \in 1 .. Len(a) + Len(b) :
            r[j] = IF j <= Len(a) THEN a[j] ELSE b[j - Len(a)]
  BY <1>2, <1>3, ConcatProperties DEF r
<1>5. Len(r) = m - 1
  BY <1>1, <1>2, <1>3, <1>4
<1>6. ASSUME NEW j \in 1 .. m - 1
      PROVE  r[j] = IF j < i THEN q[j] ELSE q[j + 1]
  <2>1. CASE j < i
    BY <1>1, <1>2, <1>3, <1>4, <2>1
  <2>2. CASE ~(j < i)
    <3>1. r[j] = b[j - (i - 1)]
      BY <1>1, <1>2, <1>3, <1>4, <2>2
    <3>2. j - (i - 1) \in 1 .. m - i /\ i + (j - (i - 1)) = j + 1
      BY <1>1, <2>2
    <3>3. b[j - (i - 1)] = q[j + 1]
      BY <1>3, <3>2
    <3> QED
      BY <2>2, <3>1, <3>3
  <2> QED
    BY <2>1, <2>2
<1> QED
  BY <1>4, <1>5, <1>6 DEF RemoveAt, r, a, b, m

-----------------------------------------------------------------------------
(* Order.                                                                  *)

\* Every search finds, in an ordered vector, an index with nothing later
\* before it and nothing earlier behind it.
LEMMA FoundIndexSplits ==
    ASSUME NEW ts \in Seq(Int), IsAscending(ts), NEW t \in Int, NEW search,
           NEW i \in FindIndex(search, ts, t)
    PROVE  /\ i \in 0 .. Len(ts)
           /\ \A j \in 1 .. i : ts[j] <= t
           /\ \A j \in (i + 1) .. Len(ts) : t <= ts[j]
<1> DEFINE m == Len(ts)
<1> HIDE DEF m
<1>1. m \in Nat /\ \A j \in 1 .. m : ts[j] \in Int
  BY LenProperties, ElementOfSeq DEF m
<1>2. \A j, k \in 1 .. m : j < k => ts[j] <= ts[k]
  BY DEF IsAscending, m
<1>3. i \in ForwardIndex(ts, t) \/ i \in ReverseIndex(ts, t)
  BY DEF FindIndex, BinaryIndex
<1>4. CASE i \in ForwardIndex(ts, t)
  <2>1. /\ i \in 0 .. m /\ \A j \in 1 .. i : ts[j] < t
        /\ i < m => ts[i + 1] >= t
    BY <1>4 DEF ForwardIndex, m
  <2>2. \A j \in 1 .. i : ts[j] <= t
    BY <1>1, <2>1
  <2>3. ASSUME NEW j \in (i + 1) .. m PROVE t <= ts[j]
    <3>1. i + 1 \in 1 .. m /\ j \in 1 .. m /\ ts[i + 1] >= t
      BY <1>1, <2>1
    <3>2. ts[i + 1] <= ts[j]
      BY <1>1, <1>2, <2>1, <3>1
    <3> QED
      BY <1>1, <3>1, <3>2
  <2> QED
    BY <2>1, <2>2, <2>3 DEF m
<1>5. CASE i \in ReverseIndex(ts, t)
  <2>1. /\ i \in 0 .. m /\ \A j \in (i + 1) .. m : ts[j] > t
        /\ i > 0 => ts[i] <= t
    BY <1>5 DEF ReverseIndex, m
  <2>2. \A j \in (i + 1) .. m : t <= ts[j]
    BY <1>1, <2>1
  <2>3. ASSUME NEW j \in 1 .. i PROVE ts[j] <= t
    <3>1. i \in 1 .. m /\ j \in 1 .. m /\ ts[i] <= t
      BY <1>1, <2>1
    <3>2. ts[j] <= ts[i]
      BY <1>1, <1>2, <2>1, <3>1
    <3> QED
      BY <1>1, <3>1, <3>2
  <2> QED
    BY <2>1, <2>2, <2>3 DEF m
<1> QED
  BY <1>3, <1>4, <1>5

\* An index found by any search is an index of the vector.
LEMMA FoundIndexInRange ==
    ASSUME NEW ts, NEW t, NEW search, NEW i \in FindIndex(search, ts, t)
    PROVE  i \in 0 .. Len(ts)
  BY DEF FindIndex, BinaryIndex, ForwardIndex, ReverseIndex

\* Inserting any number of equal times at a found index keeps the order.
LEMMA InsertKeepsOrder ==
    ASSUME NEW ts \in Seq(Int), IsAscending(ts), NEW t \in Int, NEW search,
           NEW i \in FindIndex(search, ts, t),
           NEW s \in Seq(Int), \A k \in 1 .. Len(s) : s[k] = t
    PROVE  IsAscending(Splice(ts, i, s))
<1> DEFINE r == Splice(ts, i, s)
           m == Len(ts)
           n == Len(s)
<1> HIDE DEF r, m, n
<1>1. m \in Nat /\ n \in Nat /\ \A j \in 1 .. m : ts[j] \in Int
  BY LenProperties, ElementOfSeq DEF m, n
<1>2. \A j, k \in 1 .. m : j < k => ts[j] <= ts[k]
  BY DEF IsAscending, m
<1>3. /\ i \in 0 .. m
      /\ \A j \in 1 .. i : ts[j] <= t
      /\ \A j \in (i + 1) .. m : t <= ts[j]
  BY FoundIndexSplits DEF m
<1>4. /\ Len(r) = m + n
      /\ \A j \in 1 .. m + n :
            r[j] = IF j <= i THEN ts[j] ELSE IF j <= i + n THEN s[j - i] ELSE ts[j - n]
  <2>1. i \in 0 .. Len(ts)
    BY <1>3 DEF m
  <2> QED
    BY <2>1, SpliceElements DEF r, m, n
<1>5. ASSUME NEW j \in 1 .. m + n
      PROVE  /\ j <= i => r[j] = ts[j] /\ ts[j] <= t
             /\ i < j /\ j <= i + n => r[j] = t
             /\ i + n < j => /\ r[j] = ts[j - n] /\ t <= ts[j - n]
                            /\ j - n \in (i + 1) .. m
             /\ r[j] \in Int
  <2>1. CASE j <= i
    BY <1>1, <1>3, <1>4, <2>1
  <2>2. CASE i < j /\ j <= i + n
    <3>1. j - i \in 1 .. n /\ r[j] = s[j - i]
      BY <1>1, <1>3, <1>4, <2>2
    <3> QED
      BY <1>1, <1>3, <2>2, <3>1 DEF n
  <2>3. CASE i + n < j
    <3>1. j - n \in (i + 1) .. m /\ r[j] = ts[j - n]
      BY <1>1, <1>3, <1>4, <2>3
    <3> QED
      BY <1>1, <1>3, <2>3, <3>1
  <2> QED
    BY <1>1, <1>3, <2>1, <2>2, <2>3
<1>6. ASSUME NEW j \in 1 .. m + n, NEW k \in 1 .. m + n, j < k
      PROVE  r[j] <= r[k]
  <2>1. CASE k <= i
    <3>1. r[j] = ts[j] /\ r[k] = ts[k] /\ j \in 1 .. m /\ k \in 1 .. m
      BY <1>1, <1>3, <1>5, <1>6, <2>1
    <3> QED
      BY <1>2, <1>6, <3>1
  <2>2. CASE i + n < j
    <3>1. /\ r[j] = ts[j - n] /\ r[k] = ts[k - n]
          /\ j - n \in 1 .. m /\ k - n \in 1 .. m /\ j - n < k - n
      BY <1>1, <1>3, <1>5, <1>6, <2>2
    <3> QED
      BY <1>2, <3>1
  <2>3. CASE i < k /\ j <= i + n
    <3>1. r[j] <= t
      BY <1>1, <1>3, <1>5, <2>3
    <3>2. t <= r[k]
      BY <1>1, <1>3, <1>5, <2>3, SMTT(30)
    <3> QED
      BY <1>5, <3>1, <3>2
  <2> QED
    BY <1>1, <1>3, <1>6, <2>1, <2>2, <2>3
<1> QED
  BY <1>4, <1>6 DEF r, IsAscending

\* Erasing an element keeps the order.
LEMMA RemoveKeepsOrder ==
    ASSUME NEW ts \in Seq(Int), IsAscending(ts), NEW i \in 1 .. Len(ts)
    PROVE  IsAscending(RemoveAt(ts, i))
<1> DEFINE r == RemoveAt(ts, i)
           m == Len(ts)
<1> HIDE DEF r, m
<1>1. m \in Nat /\ i \in 1 .. m /\ \A j \in 1 .. m : ts[j] \in Int
  BY LenProperties, ElementOfSeq DEF m
<1>2. \A j, k \in 1 .. m : j < k => ts[j] <= ts[k]
  BY DEF IsAscending, m
<1>3. /\ Len(r) = m - 1
      /\ \A j \in 1 .. m - 1 : r[j] = IF j < i THEN ts[j] ELSE ts[j + 1]
  BY RemoveAtElements DEF r, m
<1>4. ASSUME NEW j \in 1 .. m - 1, NEW k \in 1 .. m - 1, j < k
      PROVE  r[j] <= r[k]
  <2> DEFINE x == IF j < i THEN j ELSE j + 1
             y == IF k < i THEN k ELSE k + 1
  <2>1. x \in 1 .. m /\ y \in 1 .. m /\ x < y
    BY <1>1, <1>4
  <2>2. r[j] = ts[x] /\ r[k] = ts[y]
    BY <1>1, <1>3
  <2> QED
    BY <1>2, <2>1, <2>2
<1> QED
  BY <1>3, <1>4 DEF r, IsAscending
-----------------------------------------------------------------------------
(* The same for the times of a sequence of pairs.                          *)

\* The times of a sequence of pairs, one for each pair.
LEMMA TimesOfPairs ==
    ASSUME NEW S, \A p \in S : p.time \in Int, NEW q \in Seq(S)
    PROVE  /\ Times(q) \in Seq(Int)
           /\ Len(Times(q)) = Len(q)
           /\ \A j \in 1 .. Len(q) : Times(q)[j] = q[j].time
<1> DEFINE f(j) == q[j].time
<1>1. Len(q) \in Nat /\ \A j \in 1 .. Len(q) : f(j) \in Int
  BY LenProperties, ElementOfSeq
<1> HIDE DEF f
<1>2. [j \in 1 .. Len(q) |-> f(j)] \in Seq(Int)
  BY <1>1, IsASeq
<1>3. Times(q) = [j \in 1 .. Len(q) |-> f(j)]
  BY DEF Times, f
<1>4. Times(q) \in Seq(Int) /\ DOMAIN Times(q) = 1 .. Len(q)
  BY <1>2, <1>3
<1>5. Len(Times(q)) = Len(q)
  BY <1>1, <1>4, LenProperties
<1> QED
  BY <1>4, <1>5 DEF Times

\* Sequences with the same elements are in the same order.
LEMMA SameOrder ==
    ASSUME NEW a, NEW b, Len(a) = Len(b), IsAscending(b),
           \A j \in 1 .. Len(b) : a[j] = b[j]
    PROVE  IsAscending(a)
  BY DEF IsAscending

\* Pairs with one time inserted at an index found for it keep the queue in order.
LEMMA InsertPairsKeepsOrder ==
    ASSUME NEW S, \A p \in S : p.time \in Int,
           NEW q \in Seq(S), IsAscending(Times(q)),
           NEW t \in Int, NEW search, NEW i \in FindIndex(search, Times(q), t),
           NEW s \in Seq(S), \A k \in 1 .. Len(s) : s[k].time = t
    PROVE  IsAscending(Times(Splice(q, i, s)))
<1> DEFINE m == Len(q)
           n == Len(s)
           u == Times(q)
           v == Times(s)
           r == Splice(q, i, s)
           a == Times(r)
           b == Splice(u, i, v)
<1> HIDE DEF m, n, u, v, r, a, b
<1>1. m \in Nat /\ n \in Nat
  BY LenProperties DEF m, n
<1>2. u \in Seq(Int) /\ Len(u) = m /\ \A j \in 1 .. m : u[j] = q[j].time
  BY TimesOfPairs DEF m, u
<1>3. v \in Seq(Int) /\ Len(v) = n /\ \A j \in 1 .. n : v[j] = s[j].time
  BY TimesOfPairs DEF n, v
<1>4. i \in 0 .. m
  BY <1>2, FoundIndexInRange DEF u
<1>5. /\ r \in Seq(S) /\ Len(r) = m + n
      /\ \A j \in 1 .. m + n :
            r[j] = IF j <= i THEN q[j] ELSE IF j <= i + n THEN s[j - i] ELSE q[j - n]
  BY <1>4, SpliceElements DEF m, n, r
<1>6. Len(a) = m + n /\ \A j \in 1 .. m + n : a[j] = r[j].time
  BY <1>5, TimesOfPairs DEF a
<1>7. /\ Len(b) = m + n
      /\ \A j \in 1 .. m + n :
            b[j] = IF j <= i THEN u[j] ELSE IF j <= i + n THEN v[j - i] ELSE u[j - n]
  <2>1. i \in 0 .. Len(u) /\ u \in Seq(Int) /\ v \in Seq(Int)
    BY <1>2, <1>3, <1>4
  <2>2. /\ Len(b) = Len(u) + Len(v)
        /\ \A j \in 1 .. Len(u) + Len(v) :
              b[j] = IF j <= i THEN u[j]
                     ELSE IF j <= i + Len(v) THEN v[j - i] ELSE u[j - Len(v)]
    BY <2>1, SpliceElements DEF b
  <2> QED
    BY <1>2, <1>3, <2>2
<1>8. ASSUME NEW j \in 1 .. m + n PROVE a[j] = b[j]
  <2>1. CASE j <= i
    <3>1. r[j] = q[j] /\ b[j] = u[j] /\ j \in 1 .. m
      BY <1>1, <1>4, <1>5, <1>7, <2>1
    <3> QED
      BY <1>2, <1>6, <3>1
  <2>2. CASE i < j /\ j <= i + n
    <3>1. r[j] = s[j - i] /\ b[j] = v[j - i] /\ j - i \in 1 .. n
      BY <1>1, <1>4, <1>5, <1>7, <2>2
    <3> QED
      BY <1>3, <1>6, <3>1
  <2>3. CASE i + n < j
    <3>1. r[j] = q[j - n] /\ b[j] = u[j - n] /\ j - n \in 1 .. m
      BY <1>1, <1>4, <1>5, <1>7, <2>3
    <3> QED
      BY <1>2, <1>6, <3>1
  <2> QED
    BY <1>1, <1>4, <2>1, <2>2, <2>3
<1>9. IsAscending(b)
  <2>1. \A k \in 1 .. Len(v) : v[k] = t
    BY <1>3 DEF n
  <2>2. IsAscending(u) /\ i \in FindIndex(search, u, t)
    BY DEF u
  <2> QED
    BY <1>2, <1>3, <2>1, <2>2, InsertKeepsOrder DEF b
<1>10. IsAscending(a)
  BY <1>6, <1>7, <1>8, <1>9, SameOrder
<1> QED
  BY <1>10 DEF a, r

\* Taking a pair out keeps the queue in order.
LEMMA RemovePairKeepsOrder ==
    ASSUME NEW S, \A p \in S : p.time \in Int,
           NEW q \in Seq(S), IsAscending(Times(q)), NEW i \in 1 .. Len(q)
    PROVE  IsAscending(Times(RemoveAt(q, i)))
<1> DEFINE m == Len(q)
           u == Times(q)
           r == RemoveAt(q, i)
           a == Times(r)
           b == RemoveAt(u, i)
<1> HIDE DEF m, u, r, a, b
<1>1. m \in Nat /\ i \in 1 .. m
  BY LenProperties DEF m
<1>2. u \in Seq(Int) /\ Len(u) = m /\ \A j \in 1 .. m : u[j] = q[j].time
  BY TimesOfPairs DEF m, u
<1>3. /\ r \in Seq(S) /\ Len(r) = m - 1
      /\ \A j \in 1 .. m - 1 : r[j] = IF j < i THEN q[j] ELSE q[j + 1]
  BY RemoveAtElements DEF m, r
<1>4. Len(a) = m - 1 /\ \A j \in 1 .. m - 1 : a[j] = r[j].time
  BY <1>3, TimesOfPairs DEF a
<1>5. /\ Len(b) = m - 1
      /\ \A j \in 1 .. m - 1 : b[j] = IF j < i THEN u[j] ELSE u[j + 1]
  BY <1>1, <1>2, RemoveAtElements DEF b
<1>6. ASSUME NEW j \in 1 .. m - 1 PROVE a[j] = b[j]
  <2> DEFINE x == IF j < i THEN j ELSE j + 1
  <2> HIDE DEF x
  <2>1. r[j] = q[x] /\ b[j] = u[x] /\ x \in 1 .. m
    BY <1>1, <1>3, <1>5 DEF x
  <2> QED
    BY <1>2, <1>4, <2>1
<1>7. IsAscending(b)
  <2>1. IsAscending(u) /\ i \in 1 .. Len(u)
    BY <1>1, <1>2 DEF u
  <2> QED
    BY <1>2, <2>1, RemoveKeepsOrder DEF b
<1>8. IsAscending(a)
  BY <1>4, <1>5, <1>6, <1>7, SameOrder
<1> QED
  BY <1>8 DEF a, r

\* Dropping the first pair keeps the queue in order.
LEMMA TailKeepsOrder ==
    ASSUME NEW S, \A p \in S : p.time \in Int,
           NEW q \in Seq(S), q # <<>>, IsAscending(Times(q))
    PROVE  IsAscending(Times(Tail(q)))
<1> DEFINE m == Len(q)
           u == Times(q)
           r == Tail(q)
           a == Times(r)
<1> HIDE DEF m, u, r, a
<1>1. m \in Nat
  BY LenProperties DEF m
<1>2. Len(u) = m /\ \A j \in 1 .. m : u[j] = q[j].time
  BY TimesOfPairs DEF m, u
<1>3. r \in Seq(S) /\ Len(r) = m - 1 /\ \A j \in 1 .. m - 1 : r[j] = q[j + 1]
  BY HeadTailProperties DEF m, r
<1>4. Len(a) = m - 1 /\ \A j \in 1 .. m - 1 : a[j] = r[j].time
  BY <1>3, TimesOfPairs DEF a
<1>5. \A j, k \in 1 .. m : j < k => u[j] <= u[k]
  BY <1>2 DEF IsAscending, u
<1>6. \A j \in 1 .. m - 1 : a[j] = u[j + 1]
  BY <1>1, <1>2, <1>3, <1>4
<1>7. ASSUME NEW j \in 1 .. m - 1, NEW k \in 1 .. m - 1, j < k
      PROVE  a[j] <= a[k]
  BY <1>1, <1>5, <1>6, <1>7
<1> QED
  BY <1>4, <1>7 DEF IsAscending, a, r

-----------------------------------------------------------------------------
(* How many elements of a kind there are.                                  *)

One(b) == IF b THEN 1 ELSE 0

\* Sets that correspond one to one have the same number of elements.
LEMMA OneToOne ==
    ASSUME NEW S, NEW T, IsFiniteSet(S), NEW f \in [S -> T],
           \A a, b \in S : f[a] = f[b] => a = b,
           \A t \in T : \E s \in S : f[s] = t
    PROVE  IsFiniteSet(T) /\ Cardinality(T) = Cardinality(S)
<1>1. f \in Bijection(S, T)
  BY DEF Bijection, Injection, Surjection, IsInjective
<1> QED
  BY <1>1, FS_Bijection DEF ExistsBijection

\* Positions in a sequence are finitely many.
LEMMA PositionsFinite ==
    ASSUME NEW m \in Nat, NEW A \in SUBSET (1 .. m)
    PROVE  IsFiniteSet(A) /\ Cardinality(A) \in Nat
<1>1. IsFiniteSet(1 .. m)
  BY FS_Interval
<1>2. IsFiniteSet(A)
  BY <1>1, FS_Subset
<1> QED
  BY <1>2, FS_CardinalityType

\* The union of two finite sets with nothing in common.
LEMMA Disjoint ==
    ASSUME NEW S, NEW T, IsFiniteSet(S), IsFiniteSet(T), \A x \in S : x \notin T
    PROVE  IsFiniteSet(S \cup T) /\ Cardinality(S \cup T) = Cardinality(S) + Cardinality(T)
<1>1. S \cap T = {}
  OBVIOUS
<1>2. Cardinality(S) \in Nat /\ Cardinality(T) \in Nat
  BY FS_CardinalityType
<1> QED
  <2>1. /\ IsFiniteSet(S \cup T)
        /\ Cardinality(S \cup T)
              = Cardinality(S) + Cardinality(T) - Cardinality(S \cap T)
    BY FS_Union
  <2>2. Cardinality(S \cap T) = 0
    BY <1>1, FS_EmptySet
  <2> QED
    BY <1>2, <2>1, <2>2

\* When the element at k is erased, the positions A of certain elements become
\* B: one fewer if k was among them.
LEMMA ErasedPosition ==
    ASSUME NEW m \in Nat, NEW k \in 1 .. m, NEW A \in SUBSET (1 .. m),
           NEW B \in SUBSET (1 .. m - 1),
           \A j \in 1 .. m - 1 : j \in B <=> (IF j < k THEN j ELSE j + 1) \in A
    PROVE  Cardinality(A) = Cardinality(B) + One(k \in A)
<1> DEFINE f == [j \in B |-> IF j < k THEN j ELSE j + 1]
<1>1. IsFiniteSet(A) /\ Cardinality(A) \in Nat /\ IsFiniteSet(B) /\ Cardinality(B) \in Nat
  BY PositionsFinite
<1>2. f \in [B -> A \ {k}] /\ \A j \in B : f[j] = IF j < k THEN j ELSE j + 1
  OBVIOUS
<1>3. \A a, b \in B : f[a] = f[b] => a = b
  BY <1>2
<1>4. ASSUME NEW t \in A \ {k} PROVE \E s \in B : f[s] = t
  <2>1. CASE t < k
    <3>1. t \in B /\ f[t] = t
      BY <1>2, <2>1
    <3> QED
      BY <3>1
  <2>2. CASE t > k
    <3>1. t - 1 \in 1 .. m - 1 /\ ~(t - 1 < k) /\ (t - 1) + 1 = t
      BY <2>2
    <3>2. t - 1 \in B /\ f[t - 1] = t
      BY <1>2, <3>1
    <3> QED
      BY <3>2
  <2> QED
    BY <2>1, <2>2
<1> HIDE DEF f
<1>5. Cardinality(A \ {k}) = Cardinality(B)
  BY <1>1, <1>2, <1>3, <1>4, OneToOne
<1> QED
  <2>1. Cardinality(A \ {k}) = IF k \in A THEN Cardinality(A) - 1 ELSE Cardinality(A)
    BY <1>1, FS_RemoveElement
  <2> QED
    BY <1>1, <1>5, <2>1 DEF One

\* When n elements are inserted behind the first i of m, what becomes of the
\* positions A of certain elements, and C of those among the new ones.
Inserted(m, n, i, A, C) ==
    {j \in 1 .. m + n : IF j <= i THEN j \in A
                        ELSE IF j <= i + n THEN j - i \in C
                        ELSE j - n \in A}

\* None is lost by it.
LEMMA InsertedPositions ==
    ASSUME NEW m \in Nat, NEW n \in Nat, NEW i \in 0 .. m, NEW A \in SUBSET (1 .. m),
           NEW C \in SUBSET (1 .. n)
    PROVE  Cardinality(Inserted(m, n, i, A, C)) = Cardinality(A) + Cardinality(C)
<1> DEFINE B == Inserted(m, n, i, A, C)
<1>0. B \in SUBSET (1 .. m + n)
      /\ \A j \in 1 .. m + n : j \in B <=> IF j <= i THEN j \in A
                                            ELSE IF j <= i + n THEN j - i \in C
                                            ELSE j - n \in A
  BY DEF Inserted
<1> HIDE DEF B
<1> DEFINE old == {j \in B : j <= i \/ j > i + n}
           new == {j \in B : i < j /\ j <= i + n}
           f == [a \in A |-> IF a <= i THEN a ELSE a + n]
           g == [c \in C |-> i + c]
<1>1. IsFiniteSet(A) /\ IsFiniteSet(C)
  BY PositionsFinite
<1>2. /\ f \in [A -> old] /\ \A a, b \in A : f[a] = f[b] => a = b
  BY <1>0
<1>3. ASSUME NEW t \in old PROVE \E a \in A : f[a] = t
  <2>1. CASE t <= i
    <3>1. t \in A /\ f[t] = t
      BY <1>0, <2>1
    <3> QED
      BY <3>1
  <2>2. CASE t > i + n
    <3>1. t - n \in A /\ ~(t - n <= i) /\ (t - n) + n = t
      BY <1>0, <2>2
    <3>2. f[t - n] = t
      BY <3>1
    <3> QED
      BY <3>1, <3>2
  <2> QED
    BY <2>1, <2>2
<1>4. /\ g \in [C -> new] /\ \A a, b \in C : g[a] = g[b] => a = b
  BY <1>0
<1>5. ASSUME NEW t \in new PROVE \E c \in C : g[c] = t
  <2>1. t - i \in C /\ i + (t - i) = t
    BY <1>0
  <2> QED
    BY <2>1
<1>6. B = old \cup new /\ \A x \in old : x \notin new
  <2>1. \A x \in B : x \in Int /\ ((x <= i \/ x > i + n) <=> ~(i < x /\ x <= i + n))
    BY <1>0
  <2> QED
    BY <2>1
<1> HIDE DEF f, g, old, new
<1>7. IsFiniteSet(old) /\ Cardinality(old) = Cardinality(A)
  BY <1>1, <1>2, <1>3, OneToOne
<1>8. IsFiniteSet(new) /\ Cardinality(new) = Cardinality(C)
  BY <1>1, <1>4, <1>5, OneToOne
<1> QED
  <2>1. Cardinality(B) = Cardinality(A) + Cardinality(C)
    BY <1>6, <1>7, <1>8, Disjoint
  <2> QED
    BY <2>1 DEF B

\* When an element is appended, the positions A of certain elements become B.
LEMMA AppendedPosition ==
    ASSUME NEW m \in Nat, NEW A \in SUBSET (1 .. m), NEW B \in SUBSET (1 .. m + 1),
           \A j \in 1 .. m : j \in B <=> j \in A
    PROVE  Cardinality(B) = Cardinality(A) + One(m + 1 \in B)
<1>1. IsFiniteSet(A) /\ Cardinality(A) \in Nat
  BY PositionsFinite
<1>0. /\ \A j \in 1 .. m + 1 : j \in 1 .. m \/ j = m + 1
      /\ m + 1 \notin 1 .. m
  OBVIOUS
<1>2. CASE m + 1 \in B
  <2>1. B = A \cup {m + 1} /\ m + 1 \notin A
    BY <1>0, <1>2
  <2> QED
    BY <1>1, <1>2, <2>1, FS_AddElement DEF One
<1>3. CASE m + 1 \notin B
  <2>1. B = A
    BY <1>0, <1>3
  <2> QED
    BY <1>1, <1>3, <2>1 DEF One
<1> QED
  BY <1>2, <1>3

\* Where in s the elements of X are.
PositionsOf(s, X) == {i \in 1 .. Len(s) : s[i] \in X}

\* They are finitely many.
LEMMA PositionsType ==
    ASSUME NEW S, NEW s \in Seq(S), NEW X
    PROVE  /\ Len(s) \in Nat /\ PositionsOf(s, X) \in SUBSET (1 .. Len(s))
           /\ IsFiniteSet(PositionsOf(s, X)) /\ Cardinality(PositionsOf(s, X)) \in Nat
<1>1. Len(s) \in Nat /\ PositionsOf(s, X) \in SUBSET (1 .. Len(s))
  BY LenProperties DEF PositionsOf
<1> QED
  BY <1>1, PositionsFinite

\* push and push_back add one element ...
LEMMA CountAppended ==
    ASSUME NEW S, NEW s \in Seq(S), NEW v \in S, NEW X
    PROVE  Cardinality(PositionsOf(Append(s, v), X))
             = Cardinality(PositionsOf(s, X)) + One(v \in X)
<1> DEFINE m == Len(s)
           r == Append(s, v)
<1>1. m \in Nat /\ Len(r) = m + 1 /\ r[m + 1] = v /\ \A j \in 1 .. m : r[j] = s[j]
  BY AppendProperties, LenProperties
<1> HIDE DEF m, r
<1>2. PositionsOf(s, X) = {j \in 1 .. m : s[j] \in X}
      /\ PositionsOf(r, X) = {j \in 1 .. m + 1 : r[j] \in X}
  BY <1>1 DEF PositionsOf, m
<1>3. PICK A \in SUBSET (1 .. m), B \in SUBSET (1 .. m + 1) :
         A = PositionsOf(s, X) /\ B = PositionsOf(r, X)
  BY <1>2
<1>4. (\A j \in 1 .. m : j \in B <=> j \in A) /\ (m + 1 \in B <=> v \in X)
  BY <1>1, <1>2, <1>3
<1>5. Cardinality(B) = Cardinality(A) + One(m + 1 \in B)
  BY <1>1, <1>4, AppendedPosition
<1> QED
  BY <1>3, <1>4, <1>5 DEF One, r

\* ... and erase takes one away, ...
LEMMA CountErased ==
    ASSUME NEW S, NEW s \in Seq(S), NEW k \in 1 .. Len(s), NEW X
    PROVE  Cardinality(PositionsOf(s, X))
             = Cardinality(PositionsOf(RemoveAt(s, k), X)) + One(s[k] \in X)
<1> DEFINE m == Len(s)
           r == RemoveAt(s, k)
<1>1. /\ m \in Nat /\ k \in 1 .. m /\ Len(r) = m - 1
      /\ \A j \in 1 .. m - 1 : r[j] = IF j < k THEN s[j] ELSE s[j + 1]
  BY RemoveAtElements, LenProperties
<1> HIDE DEF m, r
<1>2. PositionsOf(s, X) = {j \in 1 .. m : s[j] \in X}
      /\ PositionsOf(r, X) = {j \in 1 .. m - 1 : r[j] \in X}
  BY <1>1 DEF PositionsOf, m
<1>3. PICK A \in SUBSET (1 .. m), B \in SUBSET (1 .. m - 1) :
         A = PositionsOf(s, X) /\ B = PositionsOf(r, X)
  BY <1>2
<1>4. \A j \in 1 .. m - 1 : j \in B <=> (IF j < k THEN j ELSE j + 1) \in A
  BY <1>1, <1>2, <1>3
<1>5. k \in A <=> s[k] \in X
  BY <1>1, <1>2, <1>3
<1>6. Cardinality(A) = Cardinality(B) + One(k \in A)
  BY <1>1, <1>4, ErasedPosition
<1> QED
  BY <1>3, <1>5, <1>6 DEF One, r

\* ... pop the one at the head.
LEMMA CountTail ==
    ASSUME NEW S, NEW s \in Seq(S), s # <<>>, NEW X
    PROVE  /\ Cardinality(PositionsOf(s, X))
                = Cardinality(PositionsOf(Tail(s), X)) + One(s[1] \in X)
           /\ Head(s) = s[1] /\ s[1] \in S /\ Len(s) \in Nat /\ 1 \in 1 .. Len(s)
<1> DEFINE m == Len(s)
           r == Tail(s)
<1>1. /\ m \in Nat /\ 1 \in 1 .. m /\ Len(r) = m - 1 /\ Head(s) = s[1] /\ s[1] \in S
      /\ \A j \in 1 .. m - 1 : r[j] = s[j + 1]
  BY HeadTailProperties, LenProperties, EmptySeq
<1> HIDE DEF m, r
<1>2. PositionsOf(s, X) = {j \in 1 .. m : s[j] \in X}
      /\ PositionsOf(r, X) = {j \in 1 .. m - 1 : r[j] \in X}
  BY <1>1 DEF PositionsOf, m
<1>3. PICK A \in SUBSET (1 .. m), B \in SUBSET (1 .. m - 1) :
         A = PositionsOf(s, X) /\ B = PositionsOf(r, X)
  BY <1>2
<1>4. \A j \in 1 .. m - 1 : j \in B <=> (IF j < 1 THEN j ELSE j + 1) \in A
  BY <1>1, <1>2, <1>3
<1>5. 1 \in A <=> s[1] \in X
  BY <1>1, <1>2, <1>3
<1>6. Cardinality(A) = Cardinality(B) + One(1 \in A)
  <2>1. m \in Nat /\ 1 \in 1 .. m
    BY <1>1
  <2> QED
    BY <1>4, <2>1, ErasedPosition
<1> QED
  BY <1>1, <1>3, <1>5, <1>6 DEF One, r, m

\* insert adds all that is inserted.
LEMMA CountSpliced ==
    ASSUME NEW S, NEW s \in Seq(S), NEW i \in 0 .. Len(s), NEW r \in Seq(S), NEW X
    PROVE  Cardinality(PositionsOf(Splice(s, i, r), X))
             = Cardinality(PositionsOf(s, X)) + Cardinality(PositionsOf(r, X))
<1> DEFINE m == Len(s)
           n == Len(r)
           u == Splice(s, i, r)
           A == PositionsOf(s, X)
           C == PositionsOf(r, X)
<1>1. /\ m \in Nat /\ n \in Nat /\ i \in 0 .. m /\ Len(u) = m + n
      /\ \A j \in 1 .. m + n : u[j] = IF j <= i THEN s[j]
                                      ELSE IF j <= i + n THEN r[j - i] ELSE s[j - n]
  BY SpliceElements, LenProperties
<1>2. A \in SUBSET (1 .. m) /\ C \in SUBSET (1 .. n)
      /\ (\A j \in 1 .. m : j \in A <=> s[j] \in X) /\ (\A j \in 1 .. n : j \in C <=> r[j] \in X)
  BY DEF PositionsOf
<1> HIDE DEF m, n, u, A, C
<1>3. PositionsOf(u, X) = {j \in 1 .. m + n : u[j] \in X}
  BY <1>1 DEF PositionsOf
<1>4. ASSUME NEW j \in 1 .. m + n
      PROVE  u[j] \in X <=> IF j <= i THEN j \in A
                            ELSE IF j <= i + n THEN j - i \in C ELSE j - n \in A
  <2>1. CASE j <= i
    BY <1>1, <1>2, <2>1
  <2>2. CASE i < j /\ j <= i + n
    <3>1. j - i \in 1 .. n /\ u[j] = r[j - i]
      BY <1>1, <2>2
    <3> QED
      BY <1>1, <1>2, <2>2, <3>1
  <2>3. CASE j > i + n
    <3>1. j - n \in 1 .. m /\ ~(j <= i) /\ ~(j <= i + n)
      BY <1>1, <2>3
    <3>2. u[j] = s[j - n]
      BY <1>1, <3>1
    <3> QED
      BY <1>2, <3>1, <3>2
  <2> QED
    BY <1>1, <2>1, <2>2, <2>3
<1>5. PositionsOf(u, X) = Inserted(m, n, i, A, C)
  BY <1>3, <1>4 DEF Inserted
<1>6. Cardinality(Inserted(m, n, i, A, C)) = Cardinality(A) + Cardinality(C)
  BY <1>1, <1>2, InsertedPositions
<1> QED
  BY <1>5, <1>6 DEF u, A, C

\* A sequence of one element.
LEMMA CountSingle ==
    ASSUME NEW v, NEW X
    PROVE  Cardinality(PositionsOf(<<v>>, X)) = One(v \in X)
<1>1. CASE v \in X
  <2>1. PositionsOf(<<v>>, X) = {1}
    BY <1>1 DEF PositionsOf
  <2> QED
    BY <1>1, <2>1, FS_Singleton DEF One
<1>2. CASE v \notin X
  <2>1. PositionsOf(<<v>>, X) = {}
    BY <1>2 DEF PositionsOf
  <2> QED
    BY <1>2, <2>1, FS_EmptySet DEF One
<1> QED
  BY <1>1, <1>2
=============================================================================
