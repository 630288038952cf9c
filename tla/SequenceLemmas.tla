--------------------------- MODULE SequenceLemmas ---------------------------
(***************************************************************************)
(* What the operators on sequences return that the lists of the kernel are *)
(* written with: the lists of libs/list.h are sequences in the modules;    *)
(* and what becomes of the marks of free blocks when pages, which are      *)
(* numbers here, leave an increasing list or come back to it; and circular *)
(* lists, of free blocks of any lengths.                                   *)
(***************************************************************************)
EXTENDS Integers, SequencesExt, SequenceTheorems, FiniteSetTheorems, WellFoundedInduction, TLAPS

(* The page or the sector an address lies in, and its place there.         *)
LEMMA DivMod ==
  ASSUME NEW a \in Nat, NEW n \in Nat \ {0}
  PROVE  /\ a \div n \in Nat /\ a % n \in 0 .. n - 1
         /\ a = (a \div n) * n + (a % n)
  OBVIOUS

(* No element occurs twice.                                                *)
Distinct(s) == \A i, j \in DOMAIN s : i # j => s[i] # s[j]

(* A list without its last element (list_del of the oldest).               *)
LEMMA FrontProperties ==
  ASSUME NEW S, NEW s \in Seq(S), s # << >>
  PROVE  /\ Front(s) \in Seq(S)
         /\ Len(Front(s)) = Len(s) - 1
         /\ \A i \in 1 .. Len(s) - 1 : Front(s)[i] = s[i]
         /\ Last(s) \in S /\ Last(s) = s[Len(s)]
         /\ Len(s) \in Nat \ {0}
<1>1. Len(s) \in Nat \ {0}
  BY EmptySeq
<1>2. \A i \in 1 .. Len(s) : s[i] \in S
  BY ElementOfSeq
<1>3. \A i \in 1 .. Len(s) - 1 : s[i] \in S
  BY <1>1, <1>2
<1>4. /\ Front(s) \in Seq(S)
      /\ Len(Front(s)) = Len(s) - 1
      /\ \A i \in 1 .. Len(s) - 1 : Front(s)[i] = s[i]
  <2> DEFINE n == Len(s) - 1
  <2>1. n \in Nat
    BY <1>1
  <2>2. \A i \in 1 .. n : s[i] \in S
    BY <1>3
  <2>3. Front(s) = SubSeq(s, 1, n)
    BY DEF Front
  <2> HIDE DEF n
  <2>4. /\ SubSeq(s, 1, n) \in Seq(S)
        /\ Len(SubSeq(s, 1, n)) = IF 1 <= n THEN n - 1 + 1 ELSE 0
        /\ \A i \in 1 .. n - 1 + 1 : SubSeq(s, 1, n)[i] = s[1 + i - 1]
    BY <2>1, <2>2, SubSeqProperties
  <2>5. /\ SubSeq(s, 1, n) \in Seq(S)
        /\ Len(SubSeq(s, 1, n)) = n
        /\ \A i \in 1 .. n : SubSeq(s, 1, n)[i] = s[i]
    BY <2>1, <2>4
  <2>6. QED
    BY <2>3, <2>5 DEF n
<1>5. QED
  BY <1>1, <1>2, <1>4 DEF Last

(* A list with an element in front (list_add).                             *)
LEMMA PrependProperties ==
  ASSUME NEW S, NEW s \in Seq(S), NEW e \in S
  PROVE  /\ <<e>> \o s \in Seq(S)
         /\ Len(<<e>> \o s) = Len(s) + 1
         /\ (<<e>> \o s)[1] = e
         /\ \A i \in 2 .. Len(s) + 1 : (<<e>> \o s)[i] = s[i - 1]
<1>1. <<e>> \in Seq(S) /\ Len(<<e>>) = 1 /\ <<e>>[1] = e
  OBVIOUS
<1>2. Len(s) \in Nat
  BY LenProperties
<1>3. QED
  BY <1>1, <1>2, ConcatProperties

(* The elements of a list without its last one.                            *)
LEMMA ToSetFront ==
  ASSUME NEW S, NEW s \in Seq(S), s # << >>, Distinct(s)
  PROVE  /\ Distinct(Front(s))
         /\ ToSet(Front(s)) = ToSet(s) \ {Last(s)}
         /\ Last(s) \in ToSet(s)
<1>1. DOMAIN s = 1 .. Len(s) /\ DOMAIN Front(s) = 1 .. Len(s) - 1 /\ Len(s) \in Nat \ {0}
  BY FrontProperties, LenProperties
<1>2. \A i \in 1 .. Len(s) - 1 : Front(s)[i] = s[i]
  BY FrontProperties
<1>3. Last(s) = s[Len(s)]
  BY FrontProperties
<1>4. QED
  BY <1>1, <1>2, <1>3 DEF ToSet, Distinct

(* The elements of a list with one more in front.                          *)
LEMMA ToSetPrepend ==
  ASSUME NEW S, NEW s \in Seq(S), NEW e \in S, Distinct(s), e \notin ToSet(s)
  PROVE  /\ Distinct(<<e>> \o s)
         /\ ToSet(<<e>> \o s) = ToSet(s) \cup {e}
<1> DEFINE t == <<e>> \o s
<1>1. DOMAIN s = 1 .. Len(s) /\ DOMAIN t = 1 .. Len(s) + 1 /\ Len(s) \in Nat
  BY PrependProperties, LenProperties
<1>2. t[1] = e /\ \A i \in 2 .. Len(s) + 1 : t[i] = s[i - 1]
  BY PrependProperties
<1> HIDE DEF t
<1>3. Distinct(t)
  BY <1>1, <1>2 DEF ToSet, Distinct
<1>4. ToSet(t) = ToSet(s) \cup {e}
  <2>1. ToSet(t) \subseteq ToSet(s) \cup {e}
    BY <1>1, <1>2 DEF ToSet
  <2>2. e \in ToSet(t)
    BY <1>1, <1>2 DEF ToSet
  <2>3. ASSUME NEW i \in DOMAIN s
        PROVE  s[i] \in ToSet(t)
    <3>1. i + 1 \in DOMAIN t /\ i + 1 \in 2 .. Len(s) + 1 /\ (i + 1) - 1 = i
      BY <1>1
    <3>2. t[i + 1] = s[i]
      BY <1>2, <3>1
    <3>3. QED
      BY <3>1, <3>2 DEF ToSet
  <2>4. QED
    BY <2>1, <2>2, <2>3 DEF ToSet
<1>5. QED
  BY <1>3, <1>4 DEF t

(* A list without its i-th element (list_del).                             *)
LEMMA RemoveAtProperties ==
  ASSUME NEW S, NEW s \in Seq(S), NEW i \in 1 .. Len(s)
  PROVE  /\ RemoveAt(s, i) \in Seq(S)
         /\ Len(RemoveAt(s, i)) = Len(s) - 1
         /\ \A j \in 1 .. Len(s) - 1 : RemoveAt(s, i)[j] = s[IF j < i THEN j ELSE j + 1]
<1> DEFINE a == SubSeq(s, 1, i - 1)
           b == SubSeq(s, i + 1, Len(s))
<1>0. Len(s) \in Nat /\ i \in Nat
  OBVIOUS
<1>1. a \in Seq(S) /\ Len(a) = i - 1 /\ \A j \in 1 .. i - 1 : a[j] = s[j]
  BY <1>0
<1>2. b \in Seq(S) /\ Len(b) = Len(s) - i /\ \A j \in 1 .. Len(s) - i : b[j] = s[i + j]
  BY <1>0
<1> HIDE DEF a, b
<1>3. a \o b \in Seq(S) /\ Len(a \o b) = Len(s) - 1
  <2>1. a \in Seq(S) /\ b \in Seq(S)
    BY <1>1, <1>2
  <2>2. a \o b \in Seq(S) /\ Len(a \o b) = Len(a) + Len(b)
    BY <2>1, ConcatProperties
  <2> QED  BY <2>2, <1>0, <1>1, <1>2
<1>4. ASSUME NEW j \in 1 .. Len(s) - 1
      PROVE  (a \o b)[j] = s[IF j < i THEN j ELSE j + 1]
  <2>1. (a \o b)[j] = IF j <= Len(a) THEN a[j] ELSE b[j - Len(a)]
    BY <1>0, <1>1, <1>2, ConcatProperties
  <2>2. CASE j < i
    BY <2>1, <2>2, <1>0, <1>1
  <2>3. CASE ~ (j < i)
    <3>1. j - Len(a) \in 1 .. Len(s) - i /\ ~ (j <= Len(a))
      BY <2>3, <1>0, <1>1
    <3>2. b[j - Len(a)] = s[i + (j - Len(a))]
      BY <3>1, <1>2
    <3>3. i + (j - Len(a)) = j + 1
      BY <1>0, <1>1
    <3> QED  BY <2>1, <2>3, <3>1, <3>2, <3>3
  <2> QED  BY <2>2, <2>3
<1> QED  BY <1>3, <1>4 DEF RemoveAt, a, b

(* The elements of a list without its i-th one.                            *)
LEMMA ToSetRemoveAt ==
  ASSUME NEW S, NEW s \in Seq(S), NEW i \in 1 .. Len(s), Distinct(s)
  PROVE  /\ Distinct(RemoveAt(s, i))
         /\ ToSet(RemoveAt(s, i)) = ToSet(s) \ {s[i]}
<1> DEFINE r == RemoveAt(s, i)
           Old(j) == IF j < i THEN j ELSE j + 1
<1>1. Len(s) \in Nat /\ DOMAIN s = 1 .. Len(s) /\ DOMAIN r = 1 .. Len(s) - 1
  BY RemoveAtProperties, LenProperties
<1>2. ASSUME NEW j \in DOMAIN r
      PROVE  Old(j) \in DOMAIN s \ {i} /\ r[j] = s[Old(j)]
  <2>1. j \in 1 .. Len(s) - 1
    BY <1>1
  <2>2. r[j] = s[Old(j)]
    BY <2>1, RemoveAtProperties
  <2>3. QED
    BY <1>1, <2>1, <2>2
<1> HIDE DEF r
<1>3. Distinct(r)
  BY <1>1, <1>2 DEF Distinct
<1>4. ToSet(r) \subseteq ToSet(s) \ {s[i]}
  BY <1>1, <1>2 DEF ToSet, Distinct
<1>5. ASSUME NEW k \in DOMAIN s, s[k] # s[i]
      PROVE  s[k] \in ToSet(r)
  <2>1. PICK j \in DOMAIN r : Old(j) = k
    <3>1. CASE k < i
      BY <1>1, <3>1
    <3>2. CASE k > i
      <4>1. k - 1 \in DOMAIN r /\ Old(k - 1) = k
        BY <1>1, <3>2
      <4>2. QED
        BY <4>1
    <3>3. QED
      BY <1>1, <1>5, <3>1, <3>2
  <2>2. QED
    BY <1>2, <2>1 DEF ToSet
<1>6. ToSet(r) = ToSet(s) \ {s[i]}
  BY <1>4, <1>5 DEF ToSet
<1>7. QED
  BY <1>3, <1>6 DEF r

(* The first place in a list with some property: a set of numbers that has *)
(* an element has a least one.                                             *)
LEMMA MinProperties ==
  ASSUME NEW I \in SUBSET Nat, I # {}
  PROVE  Min(I) \in I /\ \A j \in I : Min(I) <= j
<1> DEFINE R == OpToRel(<, Nat)
<1>1. IsWellFoundedOn(R, Nat)
  BY NatLessThanWellFounded
<1>2. \A m, j \in Nat : <<j, m>> \in R <=> j < m
  BY DEF OpToRel
<1> HIDE DEF R
<1>3. PICK m \in I : \A j \in I : <<j, m>> \notin R
  BY <1>1, WFMin
<1>4. ASSUME NEW j \in I
      PROVE  m <= j
  <2>1. j \in Nat /\ m \in Nat /\ ~(j < m)
    BY <1>2, <1>3
  <2>2. QED
    BY <2>1
<1>5. QED
  BY <1>4 DEF Min

(* A list without an element that occurs in it once (list_del).            *)
LEMMA RemoveFirstProperties ==
  ASSUME NEW S, NEW s \in Seq(S), NEW e \in ToSet(s), Distinct(s)
  PROVE  \E i \in 1 .. Len(s) : s[i] = e /\ RemoveFirst(s, e) = RemoveAt(s, i)
<1> DEFINE I == {i \in 1 .. Len(s) : s[i] = e}
<1>1. DOMAIN s = 1 .. Len(s) /\ Len(s) \in Nat
  BY LenProperties
<1>2. I # {} /\ I \subseteq Nat
  BY <1>1 DEF ToSet
<1>3. Min(I) \in I
  BY <1>2, MinProperties
<1>4. RemoveFirst(s, e) = RemoveAt(s, Min(I))
  BY <1>1, <1>2 DEF RemoveFirst, SelectInSeq, ToSet
<1>5. QED
  BY <1>3, <1>4

(* A list with an element at its end (list_add_before).                    *)
LEMMA ToSetAppend ==
  ASSUME NEW S, NEW s \in Seq(S), NEW e \in S, Distinct(s), e \notin ToSet(s)
  PROVE  /\ Append(s, e) \in Seq(S)
         /\ Len(Append(s, e)) = Len(s) + 1
         /\ Distinct(Append(s, e))
         /\ ToSet(Append(s, e)) = ToSet(s) \cup {e}
<1> DEFINE t == Append(s, e)
<1>1. /\ t \in Seq(S) /\ Len(t) = Len(s) + 1
      /\ \A i \in 1 .. Len(s) : t[i] = s[i]
      /\ t[Len(s) + 1] = e
  BY AppendProperties
<1>2. DOMAIN s = 1 .. Len(s) /\ DOMAIN t = 1 .. Len(s) + 1 /\ Len(s) \in Nat
  BY <1>1, LenProperties
<1> HIDE DEF t
<1>3. Distinct(t)
  BY <1>1, <1>2 DEF ToSet, Distinct
<1>4. ToSet(t) = ToSet(s) \cup {e}
  BY <1>1, <1>2 DEF ToSet
<1>5. QED
  BY <1>1, <1>3, <1>4 DEF t

(* A list read from its (c + 1)-th element on and then from its head.      *)
LEMMA RotationProperties ==
  ASSUME NEW S, NEW s \in Seq(S), NEW c \in 0 .. Len(s)
  PROVE  LET w == SubSeq(s, c + 1, Len(s)) \o SubSeq(s, 1, c)
         IN  /\ w \in Seq(S) /\ Len(w) = Len(s)
             /\ \A i \in 1 .. Len(s) : w[i] = s[IF i <= Len(s) - c THEN i + c ELSE i - (Len(s) - c)]
             /\ ToSet(w) = ToSet(s)
<1> DEFINE n == Len(s)
           a == SubSeq(s, c + 1, n)
           b == SubSeq(s, 1, c)
           w == a \o b
           Old(i) == IF i <= n - c THEN i + c ELSE i - (n - c)
<1>0. n \in Nat /\ DOMAIN s = 1 .. n /\ c \in Nat /\ c <= n
  BY LenProperties
<1>1. a \in Seq(S) /\ Len(a) = n - c /\ \A i \in 1 .. n - c : a[i] = s[c + i]
  <2> DEFINE d == c + 1
             m == n
  <2>1. \A i \in d .. m : s[i] \in S
    BY <1>0
  <2>2. d \in Nat /\ m \in Nat /\ d \in 1 .. m + 1
    BY <1>0
  <2> HIDE DEF d, m
  <2>3. /\ SubSeq(s, d, m) \in Seq(S)
        /\ Len(SubSeq(s, d, m)) = IF d <= m THEN m - d + 1 ELSE 0
        /\ \A i \in 1 .. m - d + 1 : SubSeq(s, d, m)[i] = s[d + i - 1]
    BY <2>1, <2>2, SubSeqProperties
  <2>4. a = SubSeq(s, d, m)
    BY DEF d, m
  <2> HIDE DEF a
  <2>5. d = c + 1 /\ m = n
    BY DEF d, m
  <2> HIDE DEF n
  <2>6. m - d + 1 = n - c
    BY <1>0, <2>5
  <2>7. (IF d <= m THEN m - d + 1 ELSE 0) = n - c
    BY <1>0, <2>5
  <2>8. \A i \in 1 .. n - c : d + i - 1 = c + i
    BY <1>0, <2>5
  <2>9. QED
    BY <2>3, <2>4, <2>6, <2>7, <2>8
<1>2. b \in Seq(S) /\ Len(b) = c /\ \A i \in 1 .. c : b[i] = s[i]
  BY <1>0
<1> HIDE DEF a, b
<1>3. /\ w \in Seq(S) /\ Len(w) = Len(a) + Len(b)
      /\ \A i \in 1 .. Len(a) + Len(b) : w[i] = IF i <= Len(a) THEN a[i] ELSE b[i - Len(a)]
  BY <1>1, <1>2, ConcatProperties
<1> HIDE DEF w
<1>4. Len(w) = n
  BY <1>0, <1>1, <1>2, <1>3
<1>5. ASSUME NEW i \in 1 .. n
      PROVE  Old(i) \in 1 .. n /\ w[i] = s[Old(i)]
  <2>1. i \in 1 .. Len(a) + Len(b)
    BY <1>0, <1>1, <1>2
  <2>2. CASE i <= n - c
    <3>1. i \in 1 .. n - c /\ w[i] = a[i] /\ a[i] = s[c + i] /\ c + i = i + c
      BY <1>0, <1>1, <1>3, <2>1, <2>2
    <3>2. QED
      BY <1>0, <2>2, <3>1
  <2>3. CASE ~(i <= n - c)
    <3>1. i - (n - c) \in 1 .. c /\ w[i] = b[i - (n - c)]
      BY <1>0, <1>1, <1>3, <2>1, <2>3
    <3>2. QED
      BY <1>0, <1>2, <2>3, <3>1
  <2>4. QED
    BY <2>2, <2>3
<1>6. DOMAIN w = 1 .. n
  BY <1>3, <1>4, LenProperties
<1>7. ToSet(w) \subseteq ToSet(s)
  BY <1>0, <1>5, <1>6 DEF ToSet
<1>8. ASSUME NEW k \in 1 .. n
      PROVE  s[k] \in ToSet(w)
  <2>1. PICK i \in 1 .. n : Old(i) = k
    <3>1. CASE k > c
      <4>1. k - c \in 1 .. n /\ Old(k - c) = k
        BY <1>0, <3>1
      <4>2. QED
        BY <4>1
    <3>2. CASE ~(k > c)
      <4>1. k + (n - c) \in 1 .. n /\ Old(k + (n - c)) = k
        BY <1>0, <3>2
      <4>2. QED
        BY <4>1
    <3>3. QED
      BY <3>1, <3>2
  <2>2. QED
    BY <1>5, <1>6, <2>1 DEF ToSet
<1>9. ToSet(w) = ToSet(s)
  BY <1>0, <1>7, <1>8 DEF ToSet
<1>10. QED
  BY <1>3, <1>4, <1>5, <1>9 DEF w, a, b

(* A list without duplicates is as long as the set of its elements is big. *)
LEMMA LenIsCardinality ==
  ASSUME NEW S, NEW s \in Seq(S), Distinct(s)
  PROVE  IsFiniteSet(ToSet(s)) /\ Cardinality(ToSet(s)) = Len(s)
<1>1. Len(s) \in Nat /\ s \in [1 .. Len(s) -> S] /\ DOMAIN s = 1 .. Len(s)
  BY LenProperties
<1>2. s \in [1 .. Len(s) -> ToSet(s)]
  BY <1>1 DEF ToSet
<1>3. s \in Bijection(1 .. Len(s), ToSet(s))
  BY <1>1, <1>2 DEF Bijection, Injection, Surjection, IsInjective, Distinct, ToSet
<1>4. ExistsBijection(1 .. Len(s), ToSet(s))
  BY <1>3 DEF ExistsBijection
<1>5. QED
  BY <1>1, <1>4, FS_CountingElements, FS_NatBijection

-----------------------------------------------------------------------------
(* A list of numbers in order (the page lists of default_pmm.c).           *)
Increasing(s) == \A i, j \in DOMAIN s : i < j => s[i] < s[j]

(* The order of the places is the order of the numbers.                    *)
LEMMA IncreasingOrder ==
  ASSUME NEW s \in Seq(Nat), Increasing(s), NEW i \in 1 .. Len(s), NEW j \in 1 .. Len(s)
  PROVE  /\ s[i] \in Nat /\ s[j] \in Nat
         /\ i < j <=> s[i] < s[j]
         /\ i = j <=> s[i] = s[j]
<1>1. DOMAIN s = 1 .. Len(s) /\ Len(s) \in Nat /\ s[i] \in Nat /\ s[j] \in Nat
  BY LenProperties, ElementOfSeq
<1>2. i < j => s[i] < s[j]
  BY <1>1 DEF Increasing
<1>3. j < i => s[j] < s[i]
  BY <1>1 DEF Increasing
<1>4. i \in Nat /\ j \in Nat
  BY <1>1
<1>5. i < j \/ i = j \/ j < i
  BY <1>4
<1> QED  BY <1>1, <1>2, <1>3, <1>4, <1>5

(* Every number from a to b is in the list; n numbers from x on begin at   *)
(* its place k.                                                            *)
Covers(s, a, b) == \A x \in a .. b : \E j \in 1 .. Len(s) : s[j] = x
RunAt(s, k, x, n) == \A i \in 0 .. n - 1 : k + i \in 1 .. Len(s) /\ s[k + i] = x + i

(* Where the numbers from s[k] on are all in the list they are neighbours. *)
LEMMA Consecutive ==
  ASSUME NEW s \in Seq(Nat), Increasing(s), NEW k \in 1 .. Len(s), NEW n \in Nat,
         Covers(s, s[k], s[k] + n - 1)
  PROVE  RunAt(s, k, s[k], n)
<1> DEFINE Right(i) == k + i \in 1 .. Len(s) /\ s[k + i] = s[k] + i
           Wrong == {i \in 0 .. n - 1 : ~ Right(i)}
<1>1. Len(s) \in Nat /\ s[k] \in Nat /\ k \in Nat
  BY LenProperties, ElementOfSeq
<1>2. Right(0)
  BY <1>1
<1>3. ASSUME NEW i \in 1 .. n - 1, Right(i - 1)
      PROVE  Right(i)
  <2> DEFINE p == k + (i - 1)
             x == s[k] + i
  <2>1. /\ p \in 1 .. Len(s) /\ s[p] = s[k] + (i - 1) /\ p \in Nat
        /\ x \in Nat /\ x \in s[k] .. s[k] + n - 1 /\ s[p] = x - 1 /\ p + 1 = k + i
    <3>1. p \in 1 .. Len(s) /\ s[p] = s[k] + (i - 1)
      BY <1>3
    <3>2. i \in Nat /\ i >= 1 /\ i <= n - 1
      BY <1>3
    <3>3. x \in Nat /\ x \in s[k] .. s[k] + n - 1 /\ p \in Nat /\ p + 1 = k + i /\ s[k] + (i - 1) = x - 1
      BY <1>1, <3>2
    <3> QED  BY <3>1, <3>3
  <2>2. PICK j \in 1 .. Len(s) : s[j] = x
    BY <2>1 DEF Covers
  <2> HIDE DEF p, x
  <2>3. p < j
    BY <2>1, <2>2, IncreasingOrder
  <2>4. p + 1 \in 1 .. Len(s) /\ p < p + 1 /\ p + 1 <= j /\ j \in Nat
    BY <1>1, <2>1, <2>2, <2>3
  <2>5. s[p + 1] \in Nat /\ s[p] < s[p + 1]
    BY <2>1, <2>4, IncreasingOrder
  <2>6. ~ (j < p + 1)
    BY <2>4
  <2>7. s[p + 1] <= s[j]
    <3>1. CASE p + 1 = j
      BY <2>5, <3>1
    <3>2. CASE p + 1 < j
      <4>1. s[p + 1] < s[j]
        BY <2>4, <3>2, IncreasingOrder
      <4> QED  BY <2>1, <2>2, <2>5, <4>1
    <3> QED  BY <2>4, <3>1, <3>2
  <2>8. s[p + 1] = x
    BY <2>1, <2>2, <2>5, <2>7
  <2> QED  BY <2>1, <2>4, <2>8 DEF x
<1> HIDE DEF Right
<1>4. Wrong = {}
  <2> SUFFICES ASSUME Wrong # {}
               PROVE  FALSE
    OBVIOUS
  <2>1. PICK m \in Wrong : \A j \in Wrong : m <= j
    <3>1. Wrong \in SUBSET Nat
      OBVIOUS
    <3> HIDE DEF Wrong
    <3> QED  BY <3>1, MinProperties
  <2>2. m \in 0 .. n - 1 /\ ~ Right(m) /\ m # 0
    BY <1>2
  <2>3. m - 1 \in 0 .. n - 1 /\ m \in 1 .. n - 1 /\ ~ (m <= m - 1)
    BY <2>2
  <2>4. Right(m - 1)
    BY <2>1, <2>3
  <2> QED  BY <1>3, <2>2, <2>3, <2>4
<1> QED  BY <1>4 DEF RunAt, Right

(* A list has the type of its elements.                                    *)
LEMMA SeqOfMembers ==
  ASSUME NEW S, NEW T, NEW s \in Seq(S), \A x \in ToSet(s) : x \in T
  PROVE  s \in Seq(T)
<1>1. DOMAIN s = 1 .. Len(s) /\ Len(s) \in Nat /\ s \in [1 .. Len(s) -> S]
  BY LenProperties
<1>2. \A i \in 1 .. Len(s) : s[i] \in T
  BY <1>1 DEF ToSet
<1>3. s \in [1 .. Len(s) -> T]
  BY <1>1, <1>2
<1> QED  BY <1>1, <1>3, IsASeq

(* A function to naturals is one to integers.                              *)
LEMMA FuncIntoInt ==
  ASSUME NEW D, NEW f \in [D -> Nat]
  PROVE  f \in [D -> Int]
  OBVIOUS

(* A part of a list.                                                       *)
LEMMA PartProperties ==
  ASSUME NEW S, NEW s \in Seq(S), NEW a \in 1 .. Len(s) + 1, NEW c \in 0 .. Len(s), a <= c + 1
  PROVE  /\ SubSeq(s, a, c) \in Seq(S)
         /\ Len(SubSeq(s, a, c)) = c - a + 1
         /\ \A i \in 1 .. c - a + 1 : SubSeq(s, a, c)[i] = s[a + i - 1]
<1>1. Len(s) \in Nat /\ \A i \in 1 .. Len(s) : s[i] \in S
  BY LenProperties, ElementOfSeq
<1> DEFINE t == SubSeq(s, a, c)
<1>2. a \in Int /\ c \in Int /\ \A i \in a .. c : s[i] \in S
  BY <1>1
<1>3. /\ t \in Seq(S)
      /\ Len(t) = IF a <= c THEN c - a + 1 ELSE 0
      /\ \A i \in 1 .. c - a + 1 : t[i] = s[a + i - 1]
  BY <1>2, SubSeqProperties
<1>4. a <= c \/ a = c + 1
  BY <1>2
<1> HIDE DEF t
<1>5. Len(t) = c - a + 1
  BY <1>2, <1>3, <1>4
<1> QED  BY <1>3, <1>5 DEF t

(* The list without n neighbours (default_alloc_pages).                    *)
Cut(s, k, n) == SubSeq(s, 1, k - 1) \o SubSeq(s, k + n, Len(s))
IsCut(s, k, n, t) ==
  /\ Len(t) = Len(s) - n
  /\ \A j \in 1 .. Len(s) - n : t[j] = s[IF j < k THEN j ELSE j + n]

LEMMA CutProperties ==
  ASSUME NEW S, NEW s \in Seq(S), NEW k \in 1 .. Len(s), NEW n \in 1 .. Len(s), k + n - 1 <= Len(s)
  PROVE  Cut(s, k, n) \in Seq(S) /\ IsCut(s, k, n, Cut(s, k, n))
<1> DEFINE a == SubSeq(s, 1, k - 1)
           b == SubSeq(s, k + n, Len(s))
           t == a \o b
<1>1. Len(s) \in Nat /\ k \in Nat /\ n \in Nat
  BY LenProperties
<1>2. a \in Seq(S) /\ Len(a) = k - 1 /\ \A i \in 1 .. k - 1 : a[i] = s[i]
  <2>1. /\ 1 \in 1 .. Len(s) + 1 /\ k - 1 \in 0 .. Len(s) /\ 1 <= k - 1 + 1
        /\ k - 1 - 1 + 1 = k - 1 /\ \A i \in 1 .. k - 1 : 1 + i - 1 = i
    BY <1>1
  <2> DEFINE l == k - 1
  <2> HIDE DEF l
  <2>2. /\ SubSeq(s, 1, l) \in Seq(S) /\ Len(SubSeq(s, 1, l)) = l - 1 + 1
        /\ \A i \in 1 .. l - 1 + 1 : SubSeq(s, 1, l)[i] = s[1 + i - 1]
    BY <2>1, PartProperties DEF l
  <2> QED  BY <2>1, <2>2 DEF l
<1>3. b \in Seq(S) /\ Len(b) = Len(s) - k - n + 1 /\ \A i \in 1 .. Len(s) - k - n + 1 : b[i] = s[k + n + i - 1]
  <2> DEFINE f == k + n
             e == Len(s)
  <2>1. f \in 1 .. Len(s) + 1 /\ e \in 0 .. Len(s) /\ f <= e + 1 /\ e - f + 1 = Len(s) - k - n + 1
    BY <1>1
  <2>2. f = k + n /\ e = Len(s)
    OBVIOUS
  <2> HIDE DEF f, e
  <2>3. /\ SubSeq(s, f, e) \in Seq(S) /\ Len(SubSeq(s, f, e)) = e - f + 1
        /\ \A i \in 1 .. e - f + 1 : SubSeq(s, f, e)[i] = s[f + i - 1]
    BY <2>1, PartProperties
  <2> QED  BY <2>1, <2>2, <2>3
<1> HIDE DEF a, b
<1>4. /\ t \in Seq(S) /\ Len(t) = Len(a) + Len(b)
      /\ \A i \in 1 .. Len(a) + Len(b) : t[i] = IF i <= Len(a) THEN a[i] ELSE b[i - Len(a)]
  BY <1>2, <1>3, ConcatProperties
<1> HIDE DEF t
<1>5. Len(t) = Len(s) - n
  BY <1>1, <1>2, <1>3, <1>4
<1>6. ASSUME NEW j \in 1 .. Len(s) - n
      PROVE  t[j] = s[IF j < k THEN j ELSE j + n]
  <2>1. j \in 1 .. Len(a) + Len(b) /\ j \in Nat
    BY <1>1, <1>2, <1>3
  <2>2. CASE j < k
    <3>1. j <= Len(a) /\ j \in 1 .. k - 1
      BY <1>1, <1>2, <2>1, <2>2
    <3> QED  BY <1>2, <1>4, <2>1, <2>2, <3>1
  <2>3. CASE ~ (j < k)
    <3>1. ~ (j <= Len(a)) /\ j - Len(a) \in 1 .. Len(s) - k - n + 1 /\ k + n + (j - Len(a)) - 1 = j + n
      BY <1>1, <1>2, <2>1, <2>3
    <3> QED  BY <1>3, <1>4, <2>1, <2>3, <3>1
  <2> QED  BY <2>2, <2>3
<1>7. t = Cut(s, k, n)
  BY DEF t, a, b, Cut
<1> QED  BY <1>4, <1>5, <1>6, <1>7 DEF IsCut

(* What is left is in order, and is the list without the neighbours.       *)
Values(s, k, n) == {s[i] : i \in k .. k + n - 1}

LEMMA CutOrder ==
  ASSUME NEW s \in Seq(Nat), Increasing(s), NEW k \in 1 .. Len(s), NEW n \in 1 .. Len(s), k + n - 1 <= Len(s),
         NEW t \in Seq(Nat), IsCut(s, k, n, t)
  PROVE  /\ Increasing(t)
         /\ ToSet(t) = ToSet(s) \ Values(s, k, n)
<1> DEFINE Old(j) == IF j < k THEN j ELSE j + n
<1>1. /\ DOMAIN s = 1 .. Len(s) /\ Len(s) \in Nat /\ k \in Nat /\ n \in Nat
      /\ DOMAIN t = 1 .. Len(s) - n
      /\ \A j \in 1 .. Len(s) - n : t[j] = s[Old(j)]
  BY LenProperties DEF IsCut
<1>1a. Len(s) \in Nat /\ k \in Nat /\ n \in Nat /\ k + n - 1 <= Len(s)
  BY <1>1
<1>2. \A j \in 1 .. Len(s) - n : Old(j) \in 1 .. Len(s) /\ Old(j) \notin k .. k + n - 1
  BY ONLY <1>1a
<1>3. ASSUME NEW i \in 1 .. Len(s) - n, NEW j \in 1 .. Len(s) - n, i < j
      PROVE  Old(i) < Old(j)
  <2>1. i \in Nat /\ j \in Nat
    BY <1>1
  <2>2. CASE j < k
    BY ONLY <1>1a, <1>3, <2>1, <2>2
  <2>3. CASE ~ (j < k)
    BY ONLY <1>1a, <1>3, <2>1, <2>3
  <2> QED  BY <2>2, <2>3
<1>4. \A v \in 1 .. Len(s) : v \notin k .. k + n - 1 => \E j \in 1 .. Len(s) - n : Old(j) = v
  <2> SUFFICES ASSUME NEW v \in 1 .. Len(s), v \notin k .. k + n - 1
               PROVE  \E j \in 1 .. Len(s) - n : Old(j) = v
    OBVIOUS
  <2>1. CASE v < k
    <3>1. v \in 1 .. Len(s) - n
      BY <1>1, <2>1
    <3> QED  BY <2>1, <3>1
  <2>2. CASE ~ (v < k)
    <3>1. v - n \in 1 .. Len(s) - n /\ ~ (v - n < k) /\ v - n + n = v
      BY <1>1, <2>2
    <3> QED  BY <3>1
  <2> QED  BY <2>1, <2>2
<1> HIDE DEF Old
<1>5. Increasing(t)
  <2> SUFFICES ASSUME NEW i \in 1 .. Len(s) - n, NEW j \in 1 .. Len(s) - n, i < j
               PROVE  t[i] < t[j]
    BY <1>1 DEF Increasing
  <2>1. Old(i) \in 1 .. Len(s) /\ Old(j) \in 1 .. Len(s) /\ Old(i) < Old(j)
    BY <1>2, <1>3
  <2>2. s[Old(i)] < s[Old(j)]
    BY <2>1, IncreasingOrder
  <2> QED  BY <1>1, <2>2
<1>6. ASSUME NEW x \in ToSet(t)
      PROVE  x \in ToSet(s) /\ x \notin Values(s, k, n)
  <2>1. PICK j \in 1 .. Len(s) - n : x = s[Old(j)]
    BY <1>1 DEF ToSet
  <2>2. Old(j) \in 1 .. Len(s) /\ Old(j) \notin k .. k + n - 1
    BY <1>2
  <2>3. ASSUME NEW i \in k .. k + n - 1
        PROVE  s[i] # x
    <3>0. i \in 1 .. Len(s)
      BY <1>1
    <3>1. i \in 1 .. Len(s) /\ i # Old(j)
      BY <2>2, <3>0
    <3> QED  BY <2>1, <2>2, <3>1, IncreasingOrder
  <2> QED  BY <1>1, <2>1, <2>2, <2>3 DEF ToSet, Values
<1>7. ASSUME NEW x \in ToSet(s), x \notin Values(s, k, n)
      PROVE  x \in ToSet(t)
  <2>1. PICK v \in 1 .. Len(s) : x = s[v]
    BY <1>1 DEF ToSet
  <2>2. v \notin k .. k + n - 1
    BY <1>7, <2>1 DEF Values
  <2>3. PICK j \in 1 .. Len(s) - n : Old(j) = v
    BY <1>4, <2>2
  <2> QED  BY <1>1, <2>1, <2>3 DEF ToSet
<1> QED  BY <1>5, <1>6, <1>7

(* The list with a run of m numbers from b on at its place in the order    *)
(* (default_free_pages; default_init_memmap, at the end of the list).      *)
Splice(s, k, b, m) == SubSeq(s, 1, k - 1) \o [i \in 1 .. m |-> b + i - 1] \o SubSeq(s, k, Len(s))
IsSplice(s, k, b, m, t) ==
  /\ Len(t) = Len(s) + m
  /\ \A j \in 1 .. Len(s) + m :
       /\ j < k => t[j] = s[j]
       /\ j >= k /\ j < k + m => t[j] = b + (j - k)
       /\ j >= k + m => t[j] = s[j - m]

LEMMA SpliceProperties ==
  ASSUME NEW s \in Seq(Nat), NEW k \in 1 .. Len(s) + 1, NEW b \in Nat, NEW m \in Nat \ {0}
  PROVE  Splice(s, k, b, m) \in Seq(Nat) /\ IsSplice(s, k, b, m, Splice(s, k, b, m))
<1> DEFINE x == SubSeq(s, 1, k - 1)
           r == [i \in 1 .. m |-> b + i - 1]
           xr == x \o r
           y == SubSeq(s, k, Len(s))
           t == xr \o y
<1>1. Len(s) \in Nat /\ k \in Nat
  BY LenProperties
<1>2. x \in Seq(Nat) /\ Len(x) = k - 1 /\ \A i \in 1 .. k - 1 : x[i] = s[i]
  <2> DEFINE l == k - 1
  <2>1. /\ 1 \in 1 .. Len(s) + 1 /\ l \in 0 .. Len(s) /\ 1 <= l + 1
        /\ l - 1 + 1 = k - 1 /\ \A i \in 1 .. k - 1 : 1 + i - 1 = i
    BY <1>1
  <2>2. l = k - 1
    OBVIOUS
  <2> HIDE DEF l
  <2>3. /\ SubSeq(s, 1, l) \in Seq(Nat) /\ Len(SubSeq(s, 1, l)) = l - 1 + 1
        /\ \A i \in 1 .. l - 1 + 1 : SubSeq(s, 1, l)[i] = s[1 + i - 1]
    BY <2>1, PartProperties
  <2> QED  BY <2>1, <2>2, <2>3
<1>3. y \in Seq(Nat) /\ Len(y) = Len(s) - k + 1 /\ \A i \in 1 .. Len(s) - k + 1 : y[i] = s[k + i - 1]
  <2>1. Len(s) \in 0 .. Len(s) /\ k <= Len(s) + 1
    BY <1>1
  <2> QED  BY <2>1, PartProperties
<1>4. r \in Seq(Nat) /\ Len(r) = m /\ \A i \in 1 .. m : r[i] = b + i - 1
  <2>1. \A i \in 1 .. m : b + i - 1 \in Nat
    OBVIOUS
  <2>2. r \in [1 .. m -> Nat]
    BY <2>1
  <2> QED  BY <2>2, IsASeq, LenProperties
<1> HIDE DEF x, r, y
<1>5. /\ xr \in Seq(Nat) /\ Len(xr) = Len(x) + Len(r)
      /\ \A i \in 1 .. Len(x) + Len(r) : xr[i] = IF i <= Len(x) THEN x[i] ELSE r[i - Len(x)]
  BY <1>2, <1>4, ConcatProperties
<1> HIDE DEF xr
<1>6. /\ t \in Seq(Nat) /\ Len(t) = Len(xr) + Len(y)
      /\ \A i \in 1 .. Len(xr) + Len(y) : t[i] = IF i <= Len(xr) THEN xr[i] ELSE y[i - Len(xr)]
  BY <1>3, <1>5, ConcatProperties
<1> HIDE DEF t
<1>7. Len(xr) = k - 1 + m
  BY <1>1, <1>2, <1>4, <1>5
<1>8. Len(t) = Len(s) + m
  BY <1>1, <1>3, <1>6, <1>7
<1>9. ASSUME NEW j \in 1 .. Len(s) + m
      PROVE  /\ j < k => t[j] = s[j]
             /\ j >= k /\ j < k + m => t[j] = b + (j - k)
             /\ j >= k + m => t[j] = s[j - m]
  <2>1. j \in 1 .. Len(xr) + Len(y) /\ j \in Nat
    BY <1>1, <1>3, <1>7
  <2>2. CASE j < k
    <3>1. j <= Len(xr) /\ j <= Len(x) /\ j \in 1 .. k - 1 /\ j \in 1 .. Len(x) + Len(r)
      BY <1>1, <1>2, <1>4, <1>7, <2>1, <2>2
    <3>2. t[j] = s[j]
      BY <1>2, <1>5, <1>6, <2>1, <3>1
    <3> QED  BY <1>1, <2>1, <2>2, <3>2
  <2>3. CASE j >= k /\ j < k + m
    <3>1. /\ j <= Len(xr) /\ ~ (j <= Len(x)) /\ j - Len(x) \in 1 .. m /\ j \in 1 .. Len(x) + Len(r)
          /\ b + (j - Len(x)) - 1 = b + (j - k)
      BY <1>1, <1>2, <1>4, <1>7, <2>1, <2>3
    <3>2. t[j] = r[j - Len(x)]
      BY <1>5, <1>6, <2>1, <3>1
    <3>3. t[j] = b + (j - k)
      BY <1>4, <3>1, <3>2
    <3> QED  BY <1>1, <2>1, <2>3, <3>3
  <2>4. CASE j >= k + m
    <3>1. ~ (j <= Len(xr)) /\ j - Len(xr) \in 1 .. Len(s) - k + 1 /\ k + (j - Len(xr)) - 1 = j - m
      BY <1>1, <1>7, <2>1, <2>4
    <3>2. t[j] = s[j - m]
      BY <1>3, <1>6, <2>1, <3>1
    <3> QED  BY <1>1, <2>1, <2>4, <3>2
  <2> QED  BY <1>1, <2>1, <2>2, <2>3, <2>4
<1>10. t = Splice(s, k, b, m)
  BY DEF t, xr, x, r, y, Splice
<1> QED  BY <1>6, <1>8, <1>9, <1>10 DEF IsSplice

(* At the end of the list.                                                 *)
LEMMA SpliceAtEnd ==
  ASSUME NEW s \in Seq(Nat), NEW b \in Nat, NEW m \in Nat \ {0}
  PROVE  Splice(s, Len(s) + 1, b, m) = s \o [i \in 1 .. m |-> b + i - 1]
<1> DEFINE r == [i \in 1 .. m |-> b + i - 1]
           n == Len(s)
           k == n + 1
<1>1. n \in Nat /\ k - 1 = n /\ k = n + 1
  BY LenProperties
<1>2. SubSeq(s, 1, n) = s
  OBVIOUS
<1>3. SubSeq(s, n + 1, n) = << >>
  BY <1>1, SubSeqEmpty
<1>4. r \in Seq(Nat)
  <2>1. \A i \in 1 .. m : b + i - 1 \in Nat
    OBVIOUS
  <2>2. r \in [1 .. m -> Nat]
    BY <2>1
  <2> QED  BY <2>2, IsASeq
<1>5. Splice(s, k, b, m) = SubSeq(s, 1, k - 1) \o r \o SubSeq(s, k, n)
  BY DEF Splice
<1> HIDE DEF r
<1>6. SubSeq(s, 1, k - 1) = s /\ SubSeq(s, k, n) = << >>
  BY <1>1, <1>2, <1>3
<1> HIDE DEF k, n
<1>7. Splice(s, k, b, m) = (s \o r) \o << >>
  BY <1>5, <1>6
<1>8. s \o r \in Seq(Nat)
  BY <1>4, ConcatProperties
<1>9. (s \o r) \o << >> = s \o r
  BY <1>8, ConcatEmptySeq
<1> QED  BY <1>7, <1>9 DEF r, k, n

(* The run is in its place: the list stays in order.                       *)
Fits(s, k, b, m) ==
  /\ \A i \in 1 .. k - 1 : s[i] < b
  /\ \A i \in k .. Len(s) : s[i] >= b + m

LEMMA SpliceOrder ==
  ASSUME NEW s \in Seq(Nat), Increasing(s), NEW k \in 1 .. Len(s) + 1, NEW b \in Nat, NEW m \in Nat \ {0},
         Fits(s, k, b, m), NEW t \in Seq(Nat), IsSplice(s, k, b, m, t)
  PROVE  /\ Increasing(t)
         /\ ToSet(t) = ToSet(s) \cup (b .. b + m - 1)
<1>1. /\ DOMAIN s = 1 .. Len(s) /\ Len(s) \in Nat /\ k \in Nat /\ \A i \in 1 .. Len(s) : s[i] \in Nat
      /\ DOMAIN t = 1 .. Len(s) + m
  <2>1. Len(t) = Len(s) + m
    BY DEF IsSplice
  <2>2. DOMAIN t = 1 .. Len(t)
    BY LenProperties
  <2>3. DOMAIN s = 1 .. Len(s) /\ Len(s) \in Nat /\ \A i \in 1 .. Len(s) : s[i] \in Nat
    BY LenProperties, ElementOfSeq
  <2>4. k \in Nat
    BY <2>3
  <2> QED  BY <2>1, <2>2, <2>3, <2>4
<1>2. ASSUME NEW j \in 1 .. Len(s) + m, j < k
      PROVE  j \in 1 .. Len(s) /\ t[j] = s[j] /\ t[j] \in Nat /\ t[j] < b
  <2>1. j \in 1 .. k - 1 /\ j \in 1 .. Len(s)
    BY <1>1, <1>2
  <2>2. t[j] = s[j] /\ s[j] < b
    BY <1>2, <2>1 DEF IsSplice, Fits
  <2> QED  BY <1>1, <2>1, <2>2
<1>3. ASSUME NEW j \in 1 .. Len(s) + m, j >= k, j < k + m
      PROVE  t[j] = b + (j - k)
  BY <1>3 DEF IsSplice
<1>4. ASSUME NEW j \in 1 .. Len(s) + m, j >= k + m
      PROVE  j - m \in 1 .. Len(s) /\ t[j] = s[j - m] /\ t[j] \in Nat /\ t[j] >= b + m
  <2>1. j - m \in k .. Len(s) /\ j - m \in 1 .. Len(s)
    BY <1>1, <1>4
  <2>2. t[j] = s[j - m] /\ s[j - m] >= b + m
    BY <1>4, <2>1 DEF IsSplice, Fits
  <2> QED  BY <1>1, <2>1, <2>2
<1>5. ASSUME NEW i \in 1 .. Len(s) + m, NEW j \in 1 .. Len(s) + m, i < j
      PROVE  t[i] < t[j]
  <2>0. i \in Nat /\ j \in Nat /\ i < j
    BY <1>1, <1>5
  <2>1. CASE j < k
    <3>1. i < k
      BY <1>1, <2>0, <2>1
    <3>2. t[i] = s[i] /\ t[j] = s[j] /\ i \in 1 .. Len(s) /\ j \in 1 .. Len(s)
      BY <1>2, <2>1, <3>1
    <3> QED  BY <2>0, <3>2, IncreasingOrder
  <2>2. CASE i < k /\ j >= k /\ j < k + m
    <3>1. t[i] \in Nat /\ t[i] < b
      BY <1>2, <2>2
    <3>2. t[j] = b + (j - k)
      BY <1>3, <2>2
    <3> QED  BY <1>1, <2>0, <2>2, <3>1, <3>2
  <2>3. CASE i < k /\ j >= k + m
    <3>1. t[i] \in Nat /\ t[i] < b
      BY <1>2, <2>3
    <3>2. t[j] \in Nat /\ t[j] >= b + m
      BY <1>4, <2>3
    <3> QED  BY <3>1, <3>2
  <2>4. CASE i >= k /\ j < k + m
    <3>1. i < k + m /\ j >= k
      BY <1>1, <2>0, <2>4
    <3>2. t[i] = b + (i - k) /\ t[j] = b + (j - k)
      BY <1>3, <2>4, <3>1
    <3> QED  BY <1>1, <2>0, <3>2
  <2>5. CASE i >= k /\ i < k + m /\ j >= k + m
    <3>1. t[i] = b + (i - k)
      BY <1>3, <2>5
    <3>2. t[j] \in Nat /\ t[j] >= b + m
      BY <1>4, <2>5
    <3> QED  BY <1>1, <2>0, <2>5, <3>1, <3>2
  <2>6. CASE i >= k + m
    <3>1. j >= k + m
      BY <1>1, <2>0, <2>6
    <3>2. t[i] = s[i - m] /\ t[j] = s[j - m] /\ i - m \in 1 .. Len(s) /\ j - m \in 1 .. Len(s)
      BY <1>4, <2>6, <3>1
    <3> DEFINE v == i - m
               w == j - m
    <3>3. v < w
      BY <2>0
    <3>4. t[i] = s[v] /\ t[j] = s[w] /\ v \in 1 .. Len(s) /\ w \in 1 .. Len(s)
      BY <3>2
    <3> HIDE DEF v, w
    <3> QED  BY <3>3, <3>4, IncreasingOrder
  <2> QED  BY <1>1, <2>0, <2>1, <2>2, <2>3, <2>4, <2>5, <2>6
<1>6. ASSUME NEW x \in ToSet(t)
      PROVE  x \in ToSet(s) \cup (b .. b + m - 1)
  <2>1. PICK j \in 1 .. Len(s) + m : x = t[j]
    BY <1>1 DEF ToSet
  <2>2. CASE j < k
    BY <1>1, <1>2, <2>1, <2>2 DEF ToSet
  <2>3. CASE j >= k /\ j < k + m
    <3>1. x = b + (j - k)
      BY <1>3, <2>1, <2>3
    <3> QED  BY <1>1, <2>3, <3>1
  <2>4. CASE j >= k + m
    BY <1>1, <1>4, <2>1, <2>4 DEF ToSet
  <2> QED  BY <1>1, <2>2, <2>3, <2>4
<1>7. ASSUME NEW i \in 1 .. Len(s)
      PROVE  s[i] \in ToSet(t)
  <2>1. CASE i < k
    <3>1. i \in 1 .. Len(s) + m
      BY <1>1
    <3> QED  BY <1>1, <1>2, <2>1, <3>1 DEF ToSet
  <2>2. CASE i >= k
    <3>1. i + m \in 1 .. Len(s) + m /\ i + m >= k + m /\ i + m - m = i
      BY <1>1, <2>2
    <3>2. t[i + m] = s[i]
      BY <1>4, <3>1
    <3> QED  BY <1>1, <3>1, <3>2 DEF ToSet
  <2> QED  BY <1>1, <2>1, <2>2
<1>8. ASSUME NEW x \in b .. b + m - 1
      PROVE  x \in ToSet(t)
  <2> DEFINE j == k + (x - b)
  <2>1. j \in 1 .. Len(s) + m /\ j >= k /\ j < k + m /\ b + (j - k) = x
    BY <1>1
  <2> HIDE DEF j
  <2>2. t[j] = x
    BY <1>3, <2>1
  <2> QED  BY <1>1, <2>1, <2>2 DEF ToSet
<1>9. \A x \in ToSet(s) : x \in ToSet(t)
  BY <1>1, <1>7 DEF ToSet
<1>10. ToSet(t) = ToSet(s) \cup (b .. b + m - 1)
  BY <1>6, <1>8, <1>9
<1> QED  BY <1>1, <1>5, <1>10 DEF Increasing

(* A list in order of numbers below N has at most N elements.              *)
LEMMA IncreasingLength ==
  ASSUME NEW N \in Nat, NEW s \in Seq(0 .. N - 1), Increasing(s)
  PROVE  Len(s) \in 0 .. N
<1> DEFINE Wrong == {i \in 1 .. Len(s) : s[i] < i - 1}
<1>1. DOMAIN s = 1 .. Len(s) /\ Len(s) \in Nat /\ \A i \in 1 .. Len(s) : s[i] \in 0 .. N - 1
  BY LenProperties, ElementOfSeq
<1>2. Wrong = {}
  <2> SUFFICES ASSUME Wrong # {}
               PROVE  FALSE
    OBVIOUS
  <2>1. PICK m \in Wrong : \A j \in Wrong : m <= j
    <3>1. Wrong \in SUBSET Nat
      BY <1>1
    <3> QED  BY <3>1, MinProperties
  <2>2. m \in 2 .. Len(s) /\ s[m] < m - 1
    BY <1>1
  <2>3. m - 1 \in 1 .. Len(s) /\ m - 1 \notin Wrong
    BY <1>1, <2>1, <2>2
  <2>4. s[m - 1] >= m - 2
    BY <1>1, <2>2, <2>3
  <2>5. s[m - 1] < s[m]
    <3>1. m - 1 < m /\ m - 1 \in DOMAIN s /\ m \in DOMAIN s
      BY <1>1, <2>2, <2>3
    <3> QED  BY <3>1 DEF Increasing
  <2> QED  BY <1>1, <2>2, <2>3, <2>4, <2>5
<1>3. CASE Len(s) = 0
  BY <1>3
<1>4. CASE Len(s) # 0
  <2>1. Len(s) \in 1 .. Len(s) /\ Len(s) \notin Wrong
    BY <1>1, <1>2, <1>4
  <2>2. s[Len(s)] >= Len(s) - 1 /\ s[Len(s)] \in 0 .. N - 1
    BY <1>1, <2>1
  <2> QED  BY <1>1, <2>2
<1> QED  BY <1>3, <1>4

-----------------------------------------------------------------------------
(* Blocks of pages (default_pmm.c).  F is a set of pages, f their          *)
(* property: the first page of a run of free pages knows its length, the   *)
(* others have 0.                                                          *)
Blocks(F, f) ==
  \A p \in F :
    IF p - 1 \in F THEN f[p] = 0
    ELSE /\ f[p] \in Nat \ {0}
         /\ p .. p + f[p] - 1 \subseteq F
         /\ p + f[p] \notin F

(* Every free page is in the block of some head at or below it.            *)
LEMMA HeadBelow ==
  ASSUME NEW F \in SUBSET Nat, NEW f, Blocks(F, f), NEW q \in F
  PROVE  \E h \in F : /\ h - 1 \notin F /\ h <= q /\ h .. q \subseteq F
                      /\ f[h] \in Nat \ {0} /\ q < h + f[h]
                      /\ h .. h + f[h] - 1 \subseteq F /\ h + f[h] \notin F
<1> DEFINE Below == {h \in Nat : h <= q /\ h .. q \subseteq F}
<1>1. q \in Below
  OBVIOUS
<1>2. PICK h \in Below : \A x \in Below : h <= x
  <2>1. Below \in SUBSET Nat
    OBVIOUS
  <2> QED  BY <1>1, <2>1, MinProperties
<1>3. h \in F /\ h \in Nat /\ h <= q /\ h .. q \subseteq F
  OBVIOUS
<1>4. h - 1 \notin F
  <2> SUFFICES ASSUME h - 1 \in F
               PROVE  FALSE
    OBVIOUS
  <2>1. h - 1 \in Nat /\ h - 1 <= q
    BY <1>3
  <2>2. ASSUME NEW x \in h - 1 .. q
        PROVE  x \in F
    <3>1. x = h - 1 \/ x \in h .. q
      BY <1>3
    <3> QED  BY <1>3, <3>1
  <2>3. h - 1 \in Below
    BY <2>1, <2>2
  <2> QED  BY <1>2, <1>3, <2>3
<1>5. /\ f[h] \in Nat \ {0} /\ h .. h + f[h] - 1 \subseteq F /\ h + f[h] \notin F
  BY <1>3, <1>4 DEF Blocks
<1>6. q < h + f[h]
  <2>1. h + f[h] \notin h .. q
    BY <1>3, <1>5
  <2> QED  BY <1>3, <1>5, <2>1
<1> QED  BY <1>3, <1>4, <1>5, <1>6

(* A run of free pages lies in one block (a request that fits anywhere     *)
(* fits at the head of a block).                                           *)
LEMMA RunInBlock ==
  ASSUME NEW F \in SUBSET Nat, NEW f, Blocks(F, f), NEW q \in F, NEW n \in Nat \ {0},
         q .. q + n - 1 \subseteq F
  PROVE  \E h \in F : h <= q /\ f[h] \in Nat /\ f[h] >= n
<1>1. PICK h \in F : /\ h - 1 \notin F /\ h <= q /\ h .. q \subseteq F
                      /\ f[h] \in Nat \ {0} /\ q < h + f[h]
                      /\ h .. h + f[h] - 1 \subseteq F /\ h + f[h] \notin F
  BY HeadBelow
<1>2. h + f[h] \notin q .. q + n - 1
  BY <1>1
<1>3. h + f[h] >= q + n
  BY <1>1, <1>2
<1>4. f[h] >= n
  BY <1>1, <1>3
<1> QED  BY <1>1, <1>4

(* Taking n pages from the head of a block leaves the rest as a block.     *)
Shortened(F, f, p, n, g) ==
  \A q \in F : g[q] = IF f[p] > n /\ q = p + n THEN f[p] - n ELSE f[q]

LEMMA BlocksTake ==
  ASSUME NEW F \in SUBSET Nat, NEW f, Blocks(F, f),
         NEW p \in F, p - 1 \notin F, NEW n \in Nat \ {0}, f[p] >= n,
         NEW g, Shortened(F, f, p, n, g)
  PROVE  Blocks(F \ (p .. p + n - 1), g)
<1> DEFINE G == F \ (p .. p + n - 1)
<1>1. /\ p \in Nat /\ f[p] \in Nat \ {0} /\ p .. p + f[p] - 1 \subseteq F /\ p + f[p] \notin F
  BY DEF Blocks
<1>0. \A q \in F : g[q] = IF f[p] > n /\ q = p + n THEN f[p] - n ELSE f[q]
  BY DEF Shortened
<1>2. p .. p + n - 1 \subseteq F
  BY <1>1
<1>3. ASSUME NEW q \in G, q - 1 \in G
      PROVE  g[q] = 0
  <2>1. q \in F /\ q \in Nat /\ f[q] = 0
    BY <1>3 DEF Blocks
  <2>2. p + n - 1 \in p .. p + n - 1
    BY <1>1
  <2>3. q # p + n
    BY <1>1, <1>3, <2>1, <2>2
  <2> QED  BY <1>0, <2>1, <2>3
<1>4. ASSUME NEW q \in G, q - 1 \notin G
      PROVE  g[q] \in Nat \ {0} /\ q .. q + g[q] - 1 \subseteq G /\ q + g[q] \notin G
  <2>0. q \in F /\ q \in Nat /\ q \notin p .. p + n - 1
    OBVIOUS
  <2>1. CASE q - 1 \notin F
    <3>1. f[q] \in Nat \ {0} /\ q .. q + f[q] - 1 \subseteq F /\ q + f[q] \notin F
      BY <2>0, <2>1 DEF Blocks
    <3>2. q # p + n
      <4>1. p + n - 1 \in F
        BY <1>1, <1>2
      <4> QED  BY <1>1, <2>0, <2>1, <4>1
    <3>3. g[q] = f[q]
      BY <1>0, <2>0, <3>2
    <3>4. ASSUME NEW x \in q .. q + f[q] - 1
          PROVE  x \notin p .. p + n - 1
      <4>1. CASE q < p
        <5>1. p - 1 \notin q .. q + f[q] - 1
          BY <3>1
        <5>2. x < p
          BY <1>1, <2>0, <3>1, <4>1, <5>1
        <5> QED  BY <5>2
      <4>2. CASE q >= p
        BY <1>1, <2>0, <4>2
      <4> QED  BY <1>1, <2>0, <4>1, <4>2
    <3> QED  BY <3>1, <3>3, <3>4
  <2>2. CASE q - 1 \in F
    <3>1. q - 1 \in p .. p + n - 1
      BY <1>4, <2>2
    <3>2. q = p + n
      BY <1>1, <2>0, <3>1
    <3>3. f[p] > n
      <4>1. f[p] # n
        BY <1>1, <2>0, <3>2
      <4> QED  BY <1>1, <4>1
    <3>4. g[q] = f[p] - n
      BY <1>0, <2>0, <3>2, <3>3
    <3>5. f[p] - n \in Nat \ {0} /\ q + (f[p] - n) = p + f[p]
      BY <1>1, <3>2, <3>3
    <3>6. ASSUME NEW x \in q .. q + g[q] - 1
          PROVE  x \in F /\ x \notin p .. p + n - 1
      <4>1. x \in p .. p + f[p] - 1 /\ x >= p + n
        BY <1>1, <3>2, <3>4, <3>5
      <4> QED  BY <1>1, <4>1
    <3> QED  BY <1>1, <3>4, <3>5, <3>6
  <2> QED  BY <2>1, <2>2
<1> QED  BY <1>3, <1>4 DEF Blocks


(* A freed run, with the block that ends just below it and the one that    *)
(* begins just above it, is one block from bottom to top.                  *)
Merged(F, f, base, m, bottom, top, g) ==
  /\ bottom <= base /\ base + m <= top
  /\ bottom .. base - 1 \subseteq F /\ base + m .. top - 1 \subseteq F
  /\ bottom - 1 \notin F /\ top \notin F
  /\ g[bottom] = top - bottom
  /\ \A q \in bottom + 1 .. top - 1 : g[q] = 0
  /\ \A q \in F : q < bottom \/ q >= top => g[q] = f[q]

LEMMA BlocksGive ==
  ASSUME NEW F \in SUBSET Nat, NEW f, Blocks(F, f),
         NEW base \in Nat, NEW m \in Nat \ {0},
         NEW bottom \in Nat, NEW top \in Nat, NEW g, Merged(F, f, base, m, bottom, top, g)
  PROVE  Blocks(F \cup (base .. base + m - 1), g)
<1>0. /\ bottom <= base /\ base + m <= top
      /\ bottom .. base - 1 \subseteq F /\ base + m .. top - 1 \subseteq F
      /\ bottom - 1 \notin F /\ top \notin F
      /\ g[bottom] = top - bottom
      /\ \A q \in bottom + 1 .. top - 1 : g[q] = 0
      /\ \A q \in F : q < bottom \/ q >= top => g[q] = f[q]
  BY DEF Merged
<1> DEFINE G == F \cup (base .. base + m - 1)
<1>1. ASSUME NEW x \in bottom .. top - 1
      PROVE  x \in G
  <2>1. x \in bottom .. base - 1 \/ x \in base .. base + m - 1 \/ x \in base + m .. top - 1
    BY <1>0
  <2> QED  BY <1>0, <2>1
<1>2. bottom - 1 \notin G /\ top \notin G
  BY <1>0
<1>3. \A q \in G : q \in Nat
  OBVIOUS
<1>4. \A q \in G : q < bottom \/ q >= top => q \in F
  BY <1>0
<1>5. ASSUME NEW q \in G, q \in bottom .. top - 1
      PROVE  IF q - 1 \in G THEN g[q] = 0
             ELSE g[q] \in Nat \ {0} /\ q .. q + g[q] - 1 \subseteq G /\ q + g[q] \notin G
  <2>1. CASE q = bottom
    <3>1. g[q] \in Nat \ {0} /\ q + g[q] = top
      BY <1>0, <2>1
    <3>2. q .. q + g[q] - 1 \subseteq G
      BY <1>1, <2>1, <3>1
    <3> QED  BY <1>2, <2>1, <3>1, <3>2
  <2>2. CASE q # bottom
    <3>1. q - 1 \in bottom .. top - 1 /\ q \in bottom + 1 .. top - 1
      BY <1>5, <2>2
    <3>2. q - 1 \in G /\ g[q] = 0
      BY <1>0, <1>1, <3>1
    <3> QED  BY <3>2
  <2> QED  BY <2>1, <2>2
<1>6. ASSUME NEW q \in G, q < bottom \/ q >= top
      PROVE  IF q - 1 \in G THEN g[q] = 0
             ELSE g[q] \in Nat \ {0} /\ q .. q + g[q] - 1 \subseteq G /\ q + g[q] \notin G
  <2>1. q \in F /\ q \in Nat /\ g[q] = f[q]
    BY <1>0, <1>3, <1>4, <1>6
  <2>2. q # top
    BY <1>0, <2>1
  <2>3. q - 1 \in G <=> q - 1 \in F
    BY <1>0, <1>6, <2>1, <2>2
  <2>4. CASE q - 1 \in F
    BY <2>1, <2>3, <2>4 DEF Blocks
  <2>5. CASE q - 1 \notin F
    <3>1. f[q] \in Nat \ {0} /\ q .. q + f[q] - 1 \subseteq F /\ q + f[q] \notin F
      BY <2>1, <2>5 DEF Blocks
    <3>2. q + f[q] \notin base .. base + m - 1
      <4>1. bottom - 1 \notin q .. q + f[q] - 1
        BY <1>0, <3>1
      <4> QED  BY <1>0, <1>6, <2>1, <3>1, <4>1
    <3> QED  BY <2>1, <2>3, <2>5, <3>1, <3>2
  <2> QED  BY <2>4, <2>5
<1>7. ASSUME NEW q \in G
      PROVE  q \in bottom .. top - 1 \/ q < bottom \/ q >= top
  BY <1>3
<1> QED  BY <1>5, <1>6, <1>7 DEF Blocks

(* The place of x in the list: before the first number that is higher.     *)
IsPlace(s, x, k) ==
  /\ \A i \in 1 .. k - 1 : ~ (s[i] > x)
  /\ k \in 1 .. Len(s) => s[k] > x

(* A run that is not in the list fits in its place, next to the numbers    *)
(* just below and just above it.                                           *)
Outside(F, x, m) == \A q \in x .. x + m - 1 : q \notin F
NextTo(s, k, x, m) ==
  /\ \A i \in 1 .. Len(s) : s[i] = x + m => k \in 1 .. Len(s) /\ s[k] = x + m
  /\ \A i \in 1 .. Len(s) : s[i] = x - 1 => k - 1 \in 1 .. Len(s) /\ s[k - 1] = x - 1

LEMMA PlaceFits ==
  ASSUME NEW s \in Seq(Nat), Increasing(s), NEW x \in Nat, NEW m \in Nat \ {0},
         Outside(ToSet(s), x, m),
         NEW k \in 1 .. Len(s) + 1, IsPlace(s, x, k)
  PROVE  Fits(s, k, x, m) /\ NextTo(s, k, x, m)
<1>0. Len(s) \in Nat /\ DOMAIN s = 1 .. Len(s) /\ \A i \in 1 .. Len(s) : s[i] \in Nat
  BY LenProperties, ElementOfSeq
<1>1. /\ Len(s) \in Nat /\ k \in Nat /\ k <= Len(s) + 1 /\ \A i \in 1 .. Len(s) : s[i] \in Nat
      /\ \A i \in 1 .. Len(s) : s[i] \notin x .. x + m - 1
  <2>1. \A i \in 1 .. Len(s) : s[i] \in ToSet(s)
    BY <1>0 DEF ToSet
  <2>2. \A i \in 1 .. Len(s) : s[i] \notin x .. x + m - 1
    BY <2>1 DEF Outside
  <2> QED  BY <1>0, <2>2
<1>2. ASSUME NEW i \in 1 .. k - 1
      PROVE  i \in 1 .. Len(s) /\ s[i] < x
  <2>1. i \in 1 .. Len(s) /\ ~ (s[i] > x)
    BY <1>1 DEF IsPlace
  <2>2. x \in x .. x + m - 1
    OBVIOUS
  <2>3. s[i] # x
    BY <1>1, <2>1, <2>2
  <2> QED  BY <1>1, <2>1, <2>3
<1>3. ASSUME NEW i \in k .. Len(s)
      PROVE  i \in 1 .. Len(s) /\ k \in 1 .. Len(s) /\ s[k] <= s[i] /\ s[i] >= x + m
  <2>1. i \in 1 .. Len(s) /\ k \in 1 .. Len(s) /\ (k < i \/ k = i)
    BY <1>1
  <2>2. s[k] > x /\ s[k] \in Nat /\ s[i] \in Nat
    BY <1>1, <2>1 DEF IsPlace
  <2>3. s[k] < s[i] \/ s[k] = s[i]
    BY <2>1, IncreasingOrder
  <2>4. s[i] \notin x .. x + m - 1
    BY <1>1, <2>1
  <2> QED  BY <2>1, <2>2, <2>3, <2>4
<1>4. Fits(s, k, x, m)
  BY <1>2, <1>3 DEF Fits
<1>5. ASSUME NEW i \in 1 .. Len(s), s[i] = x + m
      PROVE  k \in 1 .. Len(s) /\ s[k] = x + m
  <2>1. i \notin 1 .. k - 1
    <3>1. ~ (x + m < x)
      OBVIOUS
    <3> QED  BY <1>2, <1>5, <3>1
  <2>2. i \in k .. Len(s)
    BY <1>1, <2>1
  <2>3. k \in k .. Len(s) /\ k \in 1 .. Len(s) /\ s[k] <= x + m
    BY <1>1, <1>3, <1>5, <2>2
  <2>4. s[k] >= x + m /\ s[k] \in Nat
    BY <1>1, <1>3, <2>3
  <2> DEFINE z == x + m
  <2>5. z \in Nat /\ s[k] <= z /\ s[k] >= z
    BY <2>3, <2>4
  <2> HIDE DEF z
  <2>6. s[k] = z
    BY <2>4, <2>5
  <2> QED  BY <2>3, <2>6 DEF z
<1>6. ASSUME NEW i \in 1 .. Len(s), s[i] = x - 1
      PROVE  k - 1 \in 1 .. Len(s) /\ s[k - 1] = x - 1
  <2>1. i \notin k .. Len(s)
    <3>1. ~ (x - 1 >= x + m)
      OBVIOUS
    <3> QED  BY <1>3, <1>6, <3>1
  <2> DEFINE j == k - 1
  <2>2. j \in 1 .. k - 1 /\ j \in Nat /\ (i < j \/ i = j)
    BY <1>1, <2>1
  <2> HIDE DEF j
  <2>3. j \in 1 .. Len(s) /\ s[j] < x /\ s[j] \in Nat
    BY <1>1, <1>2, <2>2
  <2>4. s[i] < s[j] \/ i = j
    BY <2>2, <2>3, IncreasingOrder
  <2>5. s[j] = x - 1
    BY <1>6, <2>3, <2>4
  <2> QED  BY <2>3, <2>5 DEF j
<1> QED  BY <1>4, <1>5, <1>6 DEF NextTo

(* The last of the first k numbers that has a mark.                        *)
LastMark(s, k, g, j) ==
  /\ j \in 1 .. k /\ g[s[j]] # 0
  /\ \A i \in 1 .. k : g[s[i]] # 0 => i <= j

(* The block that ends just below x begins with the last number before x   *)
(* that has a mark.                                                        *)
LEMMA BlockBelow ==
  ASSUME NEW s \in Seq(Nat), Increasing(s), NEW f, Blocks(ToSet(s), f),
         NEW x \in Nat, x \notin ToSet(s), NEW k \in 1 .. Len(s), s[k] = x - 1
  PROVE  \E j \in 1 .. k : /\ LastMark(s, k, f, j)
                           /\ f[s[j]] \in Nat \ {0} /\ s[j] + f[s[j]] = x /\ s[j] < x
                           /\ s[j] .. x - 1 \subseteq ToSet(s) /\ s[j] - 1 \notin ToSet(s)
<1> DEFINE F == ToSet(s)
<1>1. /\ Len(s) \in Nat /\ DOMAIN s = 1 .. Len(s) /\ \A i \in 1 .. Len(s) : s[i] \in Nat
  BY LenProperties, ElementOfSeq
<1>2. /\ F \in SUBSET Nat /\ \A i \in 1 .. Len(s) : s[i] \in F
      /\ \A y \in F : \E i \in 1 .. Len(s) : s[i] = y
  BY <1>1 DEF ToSet
<1> HIDE DEF F
<1>3. x - 1 \in F /\ x \notin F /\ Blocks(F, f)
  BY <1>2 DEF F
<1> DEFINE y == x - 1
<1>4. y \in F /\ y = x - 1
  BY <1>3
<1> HIDE DEF y
<1>5. PICK h \in F : /\ h - 1 \notin F /\ h <= y /\ h .. y \subseteq F
                      /\ f[h] \in Nat \ {0} /\ y < h + f[h]
                      /\ h .. h + f[h] - 1 \subseteq F /\ h + f[h] \notin F
  BY <1>2, <1>3, <1>4, HeadBelow
<1>6. h \in Nat /\ h < x /\ h + f[h] = x /\ h .. x - 1 \subseteq F
  <2>1. x \notin h .. h + f[h] - 1
    BY <1>3, <1>5
  <2>2. h \in Nat /\ f[h] \in Nat /\ y < h + f[h] /\ h <= y
    BY <1>2, <1>5
  <2>3. h < x /\ h + f[h] = x
    <3> DEFINE z == h + f[h]
    <3>1. z \in Nat /\ y < z /\ x \notin h .. z - 1
      BY <2>1, <2>2
    <3> HIDE DEF z
    <3>2. h < x /\ x <= z
      BY <1>4, <2>2, <3>1
    <3>3. x = z
      BY <1>4, <3>1, <3>2
    <3> QED  BY <3>2, <3>3 DEF z
  <2> QED  BY <1>4, <1>5, <2>2, <2>3
<1>7. PICK j \in 1 .. Len(s) : s[j] = h
  BY <1>2
<1>8. j \in 1 .. k
  <2>1. s[j] = s[k] \/ s[j] < s[k]
    BY <1>1, <1>6, <1>7
  <2>2. j = k \/ j < k
    BY <2>1, IncreasingOrder
  <2> QED  BY <1>1, <2>2
<1>9. ASSUME NEW i \in 1 .. k, i > j
      PROVE  f[s[i]] = 0
  <2>1. i \in 1 .. Len(s) /\ j < i /\ (i < k \/ i = k)
    BY <1>1, <1>9
  <2>2. s[j] < s[i] /\ (s[i] < s[k] \/ s[i] = s[k]) /\ s[i] \in Nat
    BY <2>1, IncreasingOrder
  <2> DEFINE z == s[i]
  <2>3. h < z /\ z <= x - 1 /\ z \in Nat
    <3>1. s[i] <= s[k] /\ s[k] = x - 1
      BY <1>1, <2>2
    <3> QED  BY <1>7, <2>2, <3>1
  <2> HIDE DEF z
  <2>4. z \in h .. x - 1 /\ z - 1 \in h .. x - 1
    BY <1>6, <2>3
  <2>5. z \in F /\ z - 1 \in F
    BY <1>6, <2>4
  <2> QED  BY <1>3, <2>5 DEF Blocks, z
<1>10. LastMark(s, k, f, j)
  <2>1. f[s[j]] # 0
    BY <1>5, <1>7
  <2>2. \A i \in 1 .. k : f[s[i]] # 0 => i <= j
    <3>1. \A i \in 1 .. k : i <= j \/ i > j
      BY <1>1
    <3> QED  BY <1>9, <3>1
  <2> QED  BY <1>8, <2>1, <2>2 DEF LastMark
<1> QED  BY <1>5, <1>6, <1>7, <1>8, <1>10 DEF F

(* The marks after m pages from base on came back: bottom is the first     *)
(* page of their block.                                                    *)
Unmarked(f, base, m) == \A q \in base + 1 .. base + m - 1 : f[q] = 0
BottomOf(F, f, base, bottom) ==
  /\ bottom <= base /\ bottom .. base - 1 \subseteq F /\ bottom - 1 \notin F
  /\ bottom < base => f[bottom] = base - bottom
JoinedMarks(N, F, f, base, m, bottom, g) ==
  /\ g \in [0 .. N - 1 -> Int]
  /\ g[bottom] = (IF bottom < base THEN f[bottom] ELSE 0) + m + (IF base + m \in F THEN f[base + m] ELSE 0)
  /\ bottom < base => g[base] = 0
  /\ base + m \in F => g[base + m] = 0
  /\ \A q \in 0 .. N - 1 : q \notin {bottom, base} /\ (q = base + m => q \notin F) => g[q] = f[q]

Rejoined(N, F, f, base, m, g) ==
  /\ g \in [0 .. N - 1 -> 0 .. N]
  /\ Blocks(F \cup (base .. base + m - 1), g)
  /\ \A q \in 0 .. N - 1 : q \notin F \cup (base .. base + m - 1) => g[q] = f[q]

LEMMA JoinMarks ==
  ASSUME NEW N \in Nat, NEW F \in SUBSET (0 .. N - 1), NEW f \in [0 .. N - 1 -> 0 .. N], Blocks(F, f),
         NEW base \in 0 .. N - 1, NEW m \in 1 .. N, base + m <= N,
         Outside(F, base, m), Unmarked(f, base, m),
         NEW bottom \in Nat, BottomOf(F, f, base, bottom),
         NEW g, JoinedMarks(N, F, f, base, m, bottom, g)
  PROVE  Rejoined(N, F, f, base, m, g)
<1> DEFINE top == IF base + m \in F THEN base + m + f[base + m] ELSE base + m
<1>1. /\ base \in Nat /\ m \in Nat \ {0} /\ F \in SUBSET Nat
      /\ bottom <= base /\ bottom .. base - 1 \subseteq F /\ bottom - 1 \notin F
  BY DEF BottomOf
<1>2. /\ top \in Nat /\ base + m <= top /\ base + m .. top - 1 \subseteq F /\ top \notin F
      /\ \A q \in base + m + 1 .. top - 1 : f[q] = 0
  <2>1. CASE base + m \in F
    <3>1. base + m - 1 \notin F
      <4>1. base + m - 1 \in base .. base + m - 1
        BY <1>1
      <4> QED  BY <4>1 DEF Outside
    <3> DEFINE h == base + m
    <3>2. h \in F /\ h - 1 \notin F /\ h \in Nat /\ top = h + f[h]
      BY <1>1, <2>1, <3>1
    <3> HIDE DEF h, top
    <3>3. f[h] \in Nat \ {0} /\ h .. h + f[h] - 1 \subseteq F /\ h + f[h] \notin F
      BY <3>2 DEF Blocks
    <3>4. ASSUME NEW q \in h + 1 .. top - 1
          PROVE  f[q] = 0
      <4>0. q \in Nat /\ h + 1 <= q /\ q <= h + f[h] - 1 /\ f[h] \in Nat
        BY <3>2, <3>3
      <4>1. q \in h .. h + f[h] - 1 /\ q - 1 \in h .. h + f[h] - 1
        BY <3>2, <4>0
      <4>2. q \in F /\ q - 1 \in F
        BY <3>3, <4>1
      <4> QED  BY <4>2 DEF Blocks
    <3>5. top \in Nat /\ h <= top /\ h .. top - 1 \subseteq F /\ top \notin F
      BY <3>2, <3>3
    <3> QED  BY <3>4, <3>5 DEF h
  <2>2. CASE base + m \notin F
    <3>1. top = base + m
      BY <2>2
    <3>2. base + m .. top - 1 = {} /\ base + m + 1 .. top - 1 = {}
      BY <1>1, <3>1
    <3> QED  BY <1>1, <2>2, <3>1, <3>2
  <2> QED  BY <2>1, <2>2
<1>3. g[bottom] = top - bottom
  <2>1. (IF bottom < base THEN f[bottom] ELSE 0) = base - bottom
    BY <1>1 DEF BottomOf
  <2>2. top = base + m + (IF base + m \in F THEN f[base + m] ELSE 0)
    BY <1>1
  <2>3. g[bottom] = (base - bottom) + m + (IF base + m \in F THEN f[base + m] ELSE 0)
    BY <2>1 DEF JoinedMarks
  <2> DEFINE z == IF base + m \in F THEN f[base + m] ELSE 0
  <2>4. z \in Nat
    BY <1>1
  <2>5. top = base + m + z /\ g[bottom] = (base - bottom) + m + z
    BY <2>2, <2>3
  <2> HIDE DEF z, top
  <2> QED  BY <1>1, <2>4, <2>5
<1>4. base + m \in F => g[base + m] = 0
  BY DEF JoinedMarks
<1>5. base + m \notin F => top = base + m
  OBVIOUS
<1> HIDE DEF top
<1>6. top <= N
  <2>1. CASE top = base + m
    BY <2>1
  <2>2. CASE top # base + m
    <3>1. top - 1 \in base + m .. top - 1
      BY <1>1, <1>2, <2>2
    <3>2. top - 1 \in 0 .. N - 1
      BY <1>2, <3>1
    <3> QED  BY <1>2, <3>2
  <2> QED  BY <2>1, <2>2
<1>7. ASSUME NEW q \in 0 .. N - 1, q \notin bottom .. top - 1
      PROVE  g[q] = f[q]
  <2>1. q # bottom /\ q # base
    BY <1>1, <1>2, <1>7
  <2>2. ASSUME q = base + m, q \in F
        PROVE  FALSE
    <3>1. top # base + m
      BY <1>2, <2>2
    <3>2. base + m \in bottom .. top - 1
      BY <1>1, <1>2, <3>1
    <3> QED  BY <1>7, <2>2, <3>2
  <2> QED  BY <2>1, <2>2 DEF JoinedMarks
<1>8. ASSUME NEW q \in bottom + 1 .. top - 1
      PROVE  g[q] = 0
  <2>0. q \in 0 .. N - 1 /\ q # bottom /\ q \in Nat
    BY <1>1, <1>2, <1>6
  <2>1. CASE q < base
    <3>1. q \in bottom .. base - 1 /\ q - 1 \in bottom .. base - 1
      BY <1>1, <2>0, <2>1
    <3>2. f[q] = 0
      BY <1>1, <3>1 DEF Blocks
    <3>3. q # base /\ q # base + m
      BY <1>1, <2>0, <2>1
    <3> QED  BY <2>0, <3>2, <3>3 DEF JoinedMarks
  <2>2. CASE q = base
    <3>1. bottom < base
      BY <1>1, <2>2
    <3> QED  BY <2>2, <3>1 DEF JoinedMarks
  <2>3. CASE q = base + m
    <3>1. base + m \in F
      <4>1. q \in base + m .. top - 1
        BY <1>1, <1>2, <2>0, <2>3
      <4> QED  BY <1>2, <2>3, <4>1
    <3> QED  BY <1>4, <2>3, <3>1
  <2>4. CASE q > base /\ q # base + m
    <3>1. q # base
      BY <1>1, <2>0, <2>4
    <3>2. g[q] = f[q]
      BY <2>0, <2>4, <3>1 DEF JoinedMarks
    <3>3. q \in base + 1 .. base + m - 1 \/ q \in base + m + 1 .. top - 1
      BY <1>1, <1>2, <2>0, <2>4
    <3> QED  BY <1>2, <3>2, <3>3 DEF Unmarked
  <2> QED  BY <1>1, <2>0, <2>1, <2>2, <2>3, <2>4
<1>9. Blocks(F \cup (base .. base + m - 1), g)
  <2>1. ASSUME NEW q \in F, q < bottom \/ q >= top
        PROVE  g[q] = f[q]
    <3>1. q \in 0 .. N - 1 /\ q \notin bottom .. top - 1
      BY <1>1, <1>2, <2>1
    <3> QED  BY <1>7, <3>1
  <2>2. Merged(F, f, base, m, bottom, top, g)
    BY <1>1, <1>2, <1>3, <1>8, <2>1 DEF Merged
  <2> QED  BY <1>1, <1>2, <2>2, BlocksGive
<1>10. ASSUME NEW q \in 0 .. N - 1
       PROVE  g[q] \in 0 .. N
  <2>1. CASE q = bottom
    <3>1. top - bottom \in 0 .. N
      BY <1>1, <1>2, <1>6
    <3> QED  BY <1>3, <2>1, <3>1
  <2>2. CASE q \in bottom + 1 .. top - 1
    <3>1. g[q] = 0
      BY <1>8, <2>2
    <3> QED  BY <3>1
  <2>3. CASE q \notin bottom .. top - 1
    <3>1. g[q] = f[q]
      BY <1>7, <2>3
    <3> QED  BY <3>1
  <2>4. q = bottom \/ q \in bottom + 1 .. top - 1 \/ q \notin bottom .. top - 1
    BY <1>2
  <2> QED  BY <2>1, <2>2, <2>3, <2>4
<1>11. g \in [0 .. N - 1 -> 0 .. N]
  BY <1>10 DEF JoinedMarks
<1>12. ASSUME NEW q \in 0 .. N - 1, q \notin F \cup (base .. base + m - 1)
       PROVE  g[q] = f[q]
  <2>1. q \notin bottom .. top - 1
    <3> SUFFICES ASSUME q \in bottom .. top - 1
                 PROVE  FALSE
      OBVIOUS
    <3>1. q \in bottom .. base - 1 \/ q \in base .. base + m - 1 \/ q \in base + m .. top - 1
      BY <1>1, <1>2
    <3> QED  BY <1>1, <1>2, <1>12, <3>1
  <2> QED  BY <1>7, <2>1
<1> QED  BY <1>9, <1>11, <1>12 DEF Rejoined
-----------------------------------------------------------------------------
(* Circular lists in order (slob_block).  Beginning with x and going up,   *)
(* and from the highest on to the lowest, one meets y before z.            *)
Cyc(x, y, z) == (x < y /\ y < z) \/ (y < z /\ z < x) \/ (z < x /\ x < y)
Circular(s) == Distinct(s) /\ \A i, j, k \in 1 .. Len(s) : i < j /\ j < k => Cyc(s[i], s[j], s[k])

(* The list from its i-th element on.                                      *)
Turned(s, i) == SubSeq(s, i, Len(s)) \o SubSeq(s, 1, i - 1)
IsTurned(s, i, t) ==
  /\ t \in Seq(Nat) /\ Len(t) = Len(s)
  /\ \A j \in 1 .. Len(s) : t[j] = s[IF j <= Len(s) - (i - 1) THEN j + (i - 1) ELSE j - (Len(s) - (i - 1))]

(* Turning a circular list.                                                *)
LEMMA TurnedProperties ==
  ASSUME NEW s \in Seq(Nat), NEW i \in 1 .. Len(s)
  PROVE  IsTurned(s, i, Turned(s, i))
<1>1. i - 1 \in 0 .. Len(s) /\ (i - 1) + 1 = i
  BY LenProperties
<1>2. LET w == SubSeq(s, (i - 1) + 1, Len(s)) \o SubSeq(s, 1, i - 1)
      IN  /\ w \in Seq(Nat) /\ Len(w) = Len(s)
          /\ \A j \in 1 .. Len(s) : w[j] = s[IF j <= Len(s) - (i - 1) THEN j + (i - 1) ELSE j - (Len(s) - (i - 1))]
  BY <1>1, RotationProperties
<1> QED  BY <1>1, <1>2 DEF IsTurned, Turned

LEMMA CircularTurns ==
  ASSUME NEW s \in Seq(Nat), Circular(s), NEW i \in 1 .. Len(s), NEW t, IsTurned(s, i, t)
  PROVE  /\ Circular(t) /\ ToSet(t) = ToSet(s) /\ t[1] = s[i]
         /\ Len(t) > 1 => t[2] = s[(i % Len(s)) + 1]
         /\ Len(t) = 1 => t[1] = s[(i % Len(s)) + 1]
<1> DEFINE n == Len(s)
           c == i - 1
           P(j) == IF j <= n - c THEN j + c ELSE j - (n - c)
<1>1. /\ n \in Nat \ {0} /\ DOMAIN s = 1 .. n /\ \A j \in 1 .. n : s[j] \in Nat
      /\ c \in 0 .. n - 1 /\ i = c + 1
  BY LenProperties, ElementOfSeq
<1>2. t \in Seq(Nat) /\ Len(t) = n /\ \A j \in 1 .. n : t[j] = s[P(j)]
  BY DEF IsTurned
<1>3. DOMAIN t = 1 .. n
  BY <1>2, LenProperties
<1> HIDE DEF n, c
<1>4. \A j \in 1 .. n : P(j) \in 1 .. n
  BY <1>1
<1>5. \A j, k \in 1 .. n : j # k => P(j) # P(k)
  BY <1>1
<1>6. Distinct(t)
  <2>1. \A x, y \in 1 .. n : x # y => s[x] # s[y]
    BY <1>1 DEF Distinct, Circular
  <2>2. ASSUME NEW j \in 1 .. n, NEW k \in 1 .. n, j # k
        PROVE  t[j] # t[k]
    <3>1. P(j) \in 1 .. n /\ P(k) \in 1 .. n /\ P(j) # P(k)
      BY <1>4, <1>5, <2>2
    <3> HIDE DEF P
    <3> QED  BY ONLY <1>2, <2>1, <3>1, <2>2
  <2> QED  BY <1>3, <2>2 DEF Distinct
<1>7. ASSUME NEW x \in 1 .. n, NEW y \in 1 .. n, NEW z \in 1 .. n, x < y, y < z
      PROVE  Cyc(t[x], t[y], t[z])
  <2>1. \/ P(x) < P(y) /\ P(y) < P(z)
        \/ P(y) < P(z) /\ P(z) < P(x)
        \/ P(z) < P(x) /\ P(x) < P(y)
    BY <1>1, <1>7
  <2>2. \/ Cyc(s[P(x)], s[P(y)], s[P(z)])
        \/ Cyc(s[P(y)], s[P(z)], s[P(x)])
        \/ Cyc(s[P(z)], s[P(x)], s[P(y)])
    <3> HIDE DEF P
    <3> QED  BY <1>4, <1>7, <2>1 DEF Circular, n
  <2>3. Cyc(s[P(x)], s[P(y)], s[P(z)])
    <3> HIDE DEF P
    <3> QED  BY <2>2 DEF Cyc
  <2>4. t[x] = s[P(x)] /\ t[y] = s[P(y)] /\ t[z] = s[P(z)]
    BY <1>2, <1>7
  <2> QED  BY <2>3, <2>4
<1>8. Circular(t)
  BY <1>2, <1>6, <1>7 DEF Circular
<1>9. ToSet(t) = ToSet(s)
  <2>1. ASSUME NEW x \in ToSet(t)
        PROVE  x \in ToSet(s)
    <3>1. PICK j \in 1 .. n : x = t[j]
      BY <1>3, <2>1 DEF ToSet
    <3>2. x = s[P(j)] /\ P(j) \in 1 .. n
      <4> HIDE DEF P
      <4> QED  BY <1>2, <1>4, <3>1
    <3> HIDE DEF P
    <3> QED  BY <1>1, <3>2 DEF ToSet
  <2>2. ASSUME NEW x \in ToSet(s)
        PROVE  x \in ToSet(t)
    <3>1. PICK k \in 1 .. n : x = s[k]
      BY <1>1, <2>2 DEF ToSet
    <3> DEFINE j == IF k > c THEN k - c ELSE k + (n - c)
    <3>2. j \in 1 .. n /\ P(j) = k
      BY <1>1, <3>1
    <3>3. x = t[j]
      <4> HIDE DEF P, j
      <4> QED  BY <1>2, <3>1, <3>2
    <3> HIDE DEF j
    <3> QED  BY <1>3, <3>2, <3>3 DEF ToSet
  <2> QED  BY <2>1, <2>2
<1>10. t[1] = s[i]
  <2>1. P(1) = i /\ 1 \in 1 .. n
    BY <1>1
  <2> HIDE DEF P
  <2> QED  BY <1>2, <2>1
<1>11. n > 1 => t[2] = s[(i % n) + 1]
  <2>1. n > 1 => P(2) = (i % n) + 1 /\ 2 \in 1 .. n
    <3>1. CASE i = n
      <4>1. i % n = 0
        BY <1>1, <3>1
      <4> QED  BY <1>1, <3>1, <4>1
    <3>2. CASE i < n
      <4>1. i % n = i
        BY <1>1, <3>2
      <4> QED  BY <1>1, <3>2, <4>1
    <3> QED  BY <1>1, <3>1, <3>2
  <2> HIDE DEF P
  <2> QED  BY <1>2, <2>1
<1>12. n = 1 => t[1] = s[(i % n) + 1]
  <2>1. n = 1 => i = 1 /\ i % n = 0
    BY <1>1
  <2> QED  BY <1>10, <2>1
<1> QED  BY <1>2, <1>8, <1>9, <1>10, <1>11, <1>12 DEF n

(* The second element is taken out (k = 3) or kept (k = 2), and a new      *)
(* second one c put in (p = 1) or not (p = 0).                             *)
IsChanged(s, p, c, k, t) ==
  /\ t \in Seq(Nat) /\ Len(t) = Len(s) + 2 + p - k
  /\ t[1] = s[1]
  /\ p = 1 => t[2] = c
  /\ \A j \in 2 + p .. Len(s) + 2 + p - k : t[j] = s[j - (2 + p - k)]
Kept(s, k) == {s[1]} \cup {s[j] : j \in k .. Len(s)}

(* The list stays circular if c belongs behind its first element.          *)
LEMMA CircularChanges ==
  ASSUME NEW s \in Seq(Nat), Circular(s), s # << >>, NEW k \in {2, 3}, k <= Len(s) + 1, NEW p \in {0, 1}, NEW c \in Nat,
         NEW t, IsChanged(s, p, c, k, t),
         p = 1 => c # s[1] /\ \A j \in k .. Len(s) : c # s[j] /\ Cyc(s[1], c, s[j])
  PROVE  /\ Circular(t)
         /\ ToSet(t) = Kept(s, k) \cup (IF p = 1 THEN {c} ELSE {})
<1> DEFINE n == Len(s)
           d == 2 + p - k
           m == n + d
<1>1. /\ n \in Nat \ {0} /\ DOMAIN s = 1 .. n /\ \A j \in 1 .. n : s[j] \in Nat
  BY LenProperties, ElementOfSeq, EmptySeq
<1>2. d \in Int /\ d \in -1 .. 1 /\ k + d = 2 + p /\ m \in Nat \ {0} /\ k <= n + 1
  BY <1>1
<1>3. t \in Seq(Nat) /\ Len(t) = m /\ t[1] = s[1] /\ (p = 1 => t[2] = c) /\ \A j \in 2 + p .. m : t[j] = s[j - d]
  BY <1>1 DEF IsChanged
<1>4. DOMAIN t = 1 .. m
  BY <1>3, LenProperties
<1> HIDE DEF n, d, m
<1>5. m = n + d
  BY DEF m
<1>6. \A j \in 1 .. m : j = 1 \/ (p = 1 /\ j = 2) \/ (j \in 2 + p .. m /\ j - d \in k .. n)
  BY <1>1, <1>2, <1>5
<1>7. \A x, y \in 1 .. n : x # y => s[x] # s[y]
  BY <1>1 DEF Distinct, Circular
<1>8. \A x, y, z \in 1 .. n : x < y /\ y < z => Cyc(s[x], s[y], s[z])
  BY DEF Circular, n
<1>9. p = 1 => c # s[1] /\ \A j \in k .. n : c # s[j] /\ Cyc(s[1], c, s[j])
  BY DEF n
<1>10. \A x, y \in k .. n : p = 1 /\ x < y => Cyc(c, s[x], s[y])
  <2>1. ASSUME NEW x \in k .. n, NEW y \in k .. n, p = 1, x < y
        PROVE  Cyc(c, s[x], s[y])
    <3>1. x \in 1 .. n /\ y \in 1 .. n /\ 1 \in 1 .. n /\ 1 < x
      BY <1>1, <2>1
    <3>2. s[1] \in Nat /\ s[x] \in Nat /\ s[y] \in Nat
      BY <1>1, <3>1
    <3>3. Cyc(s[1], c, s[x]) /\ Cyc(s[1], s[x], s[y])
      BY <1>8, <1>9, <2>1, <3>1
    <3> QED  BY ONLY <3>2, <3>3, c \in Nat DEF Cyc
  <2> QED  BY <2>1
<1>11. \A x \in k .. n : x \in 1 .. n /\ x # 1 /\ 1 < x
  BY <1>1
<1>12. 1 \in 1 .. n
  BY <1>1
<1>13. ASSUME NEW x \in 1 .. m, NEW y \in 1 .. m, x # y
       PROVE  t[x] # t[y]
  <2>1. \/ x = 1 /\ t[x] = s[1]
        \/ p = 1 /\ x = 2 /\ t[x] = c
        \/ x - d \in k .. n /\ t[x] = s[x - d]
    BY <1>3, <1>6
  <2>2. \/ y = 1 /\ t[y] = s[1]
        \/ p = 1 /\ y = 2 /\ t[y] = c
        \/ y - d \in k .. n /\ t[y] = s[y - d]
    BY <1>3, <1>6
  <2>3. x - d # y - d
    BY <1>2, <1>13
  <2> QED  BY ONLY <1>7, <1>9, <1>11, <1>12, <1>13, <2>1, <2>2, <2>3
<1>14. ASSUME NEW x \in 1 .. m, NEW y \in 1 .. m, NEW z \in 1 .. m, x < y, y < z
       PROVE  Cyc(t[x], t[y], t[z])
  <2>1. \/ x = 1 /\ t[x] = s[1]
        \/ p = 1 /\ x = 2 /\ t[x] = c
        \/ x - d \in k .. n /\ t[x] = s[x - d]
    BY <1>3, <1>6
  <2>2. \/ p = 1 /\ y = 2 /\ t[y] = c
        \/ y - d \in k .. n /\ t[y] = s[y - d]
    BY <1>2, <1>3, <1>6, <1>14
  <2>3. z - d \in k .. n /\ t[z] = s[z - d]
    <3>1. z # 1 /\ z # 2
      BY <1>2, <1>14
    <3> QED  BY ONLY <1>3, <1>6, <3>1, z \in 1 .. m
  <2>4. x - d < y - d /\ y - d < z - d /\ ~ (x = 2 /\ y = 2)
    BY <1>2, <1>14
  <2>5. CASE x = 1 /\ t[x] = s[1]
    BY ONLY <1>8, <1>9, <1>11, <1>12, <2>2, <2>3, <2>4, <2>5
  <2>6. CASE p = 1 /\ x = 2 /\ t[x] = c
    BY ONLY <1>10, <2>2, <2>3, <2>4, <2>6
  <2>7. CASE x - d \in k .. n /\ t[x] = s[x - d]
    <3>1. y - d \in k .. n /\ t[y] = s[y - d]
      BY <1>2, <1>14, <2>2, <2>7
    <3> QED  BY ONLY <1>8, <1>11, <2>3, <2>4, <2>7, <3>1
  <2> QED  BY <2>1, <2>5, <2>6, <2>7
<1>15. Circular(t)
  BY <1>3, <1>4, <1>13, <1>14 DEF Circular, Distinct
<1>16. ToSet(t) = Kept(s, k) \cup (IF p = 1 THEN {c} ELSE {})
  <2>1. ASSUME NEW v \in ToSet(t)
        PROVE  v \in Kept(s, k) \cup (IF p = 1 THEN {c} ELSE {})
    <3>1. PICK x \in 1 .. m : v = t[x]
      BY <1>4, <2>1 DEF ToSet
    <3> QED  BY <1>3, <1>6, <3>1 DEF Kept, n
  <2>2. ASSUME NEW v \in Kept(s, k) \cup (IF p = 1 THEN {c} ELSE {})
        PROVE  \E x \in 1 .. m : v = t[x]
    <3>1. CASE v = s[1]
      BY <1>2, <1>3, <3>1
    <3>2. CASE p = 1 /\ v = c
      <4>1. 2 \in 1 .. m
        BY <1>1, <1>2, <1>5, <3>2
      <4> QED  BY <1>3, <3>2, <4>1
    <3>3. CASE \E j \in k .. n : v = s[j]
      <4>1. PICK j \in k .. n : v = s[j]
        BY <3>3
      <4>2. j + d \in 2 + p .. m /\ j + d \in 1 .. m /\ (j + d) - d = j
        BY <1>1, <1>2, <1>5
      <4>3. t[j + d] = s[j]
        BY ONLY <1>3, <4>2
      <4> QED  BY <4>1, <4>2, <4>3
    <3> QED  BY <2>2, <3>1, <3>2, <3>3 DEF Kept, n
  <2> QED  BY <1>4, <2>1, <2>2 DEF ToSet
<1> QED  BY <1>15, <1>16

(* The greatest of numbers that are bounded.                               *)
LEMMA Greatest ==
  ASSUME NEW N \in Nat, NEW I \in SUBSET (0 .. N), I # {}
  PROVE  \E g \in I : \A x \in I : x <= g
<1> DEFINE J == {N - x : x \in I}
<1>1. J \in SUBSET Nat /\ J # {}
  <2>1. \A x \in I : x \in 0 .. N /\ N - x \in Nat
    OBVIOUS
  <2>2. PICK x \in I : TRUE
    OBVIOUS
  <2>3. N - x \in J
    OBVIOUS
  <2> QED  BY <2>1, <2>3
<1>2. Min(J) \in J /\ \A j \in J : Min(J) <= j
  <2> HIDE DEF J
  <2> QED  BY <1>1, MinProperties
<1>3. PICK g \in I : Min(J) = N - g
  BY <1>2
<1>4. ASSUME NEW x \in I
      PROVE  x <= g
  <2>1. N - g <= N - x
    BY <1>2, <1>3
  <2> QED  BY <2>1
<1> QED  BY <1>4

(* A number b belongs between two neighbours of the list, of which next    *)
(* follows cur, also round the end.                                        *)
Between(cur, b, next) == (b > cur /\ b < next) \/ (cur >= next /\ (b > cur \/ b < next))

(* There is a place for every number.                                      *)
LEMMA CircularHasPlace ==
  ASSUME NEW N \in Nat, NEW s \in Seq(0 .. N), s # << >>, NEW b \in Nat, b \notin ToSet(s)
  PROVE  \E i \in 1 .. Len(s) : Between(s[i], b, s[(i % Len(s)) + 1])
<1> DEFINE n == Len(s)
           S == ToSet(s)
           Low == {x \in S : x < b}
<1>1. /\ n \in Nat \ {0} /\ DOMAIN s = 1 .. n /\ \A j \in 1 .. n : s[j] \in 0 .. N
  BY LenProperties, ElementOfSeq, EmptySeq
<1>2. \A j \in 1 .. n : s[j] \in S
  BY <1>1 DEF ToSet
<1>3. \A x \in S : \E j \in 1 .. n : x = s[j]
  BY <1>1 DEF ToSet
<1>4. S \in SUBSET (0 .. N) /\ S # {}
  BY <1>1, <1>2, <1>3
<1> HIDE DEF n, S
<1>5. \A i \in 1 .. n : (i % n) + 1 \in 1 .. n
  <2>1. ASSUME NEW i \in 1 .. n
        PROVE  (i % n) + 1 \in 1 .. n
    <3>1. i % n \in 0 .. n - 1
      BY <1>1
    <3> QED  BY <1>1, <3>1
  <2> QED  BY <2>1
<1>6. CASE Low # {}
  <2>1. PICK g \in Low : \A x \in Low : x <= g
    BY <1>4, <1>6, Greatest
  <2>2. PICK i \in 1 .. n : g = s[i]
    BY <1>3
  <2> DEFINE next == s[(i % n) + 1]
  <2>3. next \in S /\ next \in Nat /\ g \in Nat /\ g < b
    <3>1. next \in S
      BY <1>2, <1>5
    <3> HIDE DEF next
    <3> QED  BY <1>4, <3>1
  <2> HIDE DEF next
  <2>4. next # b
    BY <2>3 DEF S
  <2>5. next < b => next <= g
    BY <2>1, <2>3
  <2>6. Between(g, b, next)
    BY <2>3, <2>4, <2>5 DEF Between
  <2> QED  BY <2>2, <2>6 DEF next, n
<1>7. CASE Low = {}
  <2>1. PICK g \in S : \A x \in S : x <= g
    BY <1>4, Greatest
  <2>2. PICK i \in 1 .. n : g = s[i]
    BY <1>3
  <2> DEFINE next == s[(i % n) + 1]
  <2>3. next \in S /\ next \in Nat /\ g \in Nat /\ next <= g /\ ~ (next < b)
    <3>1. next \in S
      BY <1>2, <1>5
    <3> HIDE DEF next
    <3> QED  BY <1>4, <1>7, <2>1, <3>1
  <2> HIDE DEF next
  <2>4. next # b
    BY <2>3 DEF S
  <2>6. Between(g, b, next)
    BY <2>3, <2>4 DEF Between
  <2> QED  BY <2>2, <2>6 DEF next, n
<1> QED  BY <1>6, <1>7

(* The number b belongs behind the first element: where the others lie.    *)
Behind(s, b) ==
  /\ \A j \in 2 .. Len(s) : Cyc(s[1], b, s[j])
  /\ \A j \in 3 .. Len(s) : Cyc(b, s[2], s[j])

LEMMA CircularNeighbours ==
  ASSUME NEW s \in Seq(Nat), Circular(s), s # << >>, NEW b \in Nat, b \notin ToSet(s),
         Between(s[1], b, IF Len(s) > 1 THEN s[2] ELSE s[1])
  PROVE  Behind(s, b)
<1> DEFINE n == Len(s)
<1>1. /\ n \in Nat \ {0} /\ DOMAIN s = 1 .. n /\ \A j \in 1 .. n : s[j] \in Nat
  BY LenProperties, ElementOfSeq, EmptySeq
<1>2. \A j \in 1 .. n : s[j] # b
  BY <1>1 DEF ToSet
<1>3. \A x, y \in 1 .. n : x # y => s[x] # s[y]
  BY <1>1 DEF Distinct, Circular
<1>4. \A x, y, z \in 1 .. n : x < y /\ y < z => Cyc(s[x], s[y], s[z])
  BY DEF Circular
<1> HIDE DEF n
<1>5. CASE n > 1
  <2>1. 1 \in 1 .. n /\ 2 \in 1 .. n
    BY <1>1, <1>5
  <2>2. /\ s[1] \in Nat /\ s[2] \in Nat /\ s[1] # b /\ s[2] # b /\ s[1] # s[2]
        /\ Between(s[1], b, s[2])
    BY <1>1, <1>2, <1>3, <1>5, <2>1 DEF n
  <2>3. Cyc(s[1], b, s[2])
    BY ONLY <2>2, b \in Nat DEF Cyc, Between
  <2>4. ASSUME NEW j \in 3 .. n
        PROVE  Cyc(s[1], b, s[j]) /\ Cyc(b, s[2], s[j])
    <3>1. j \in 1 .. n /\ 2 < j
      BY <1>1
    <3>2. s[j] \in Nat /\ Cyc(s[1], s[2], s[j])
      BY <1>1, <1>4, <2>1, <3>1
    <3>3. Cyc(s[1], b, s[j])
      BY ONLY <2>2, <2>3, <3>2, b \in Nat DEF Cyc
    <3>4. Cyc(b, s[2], s[j])
      BY ONLY <2>2, <2>3, <3>2, b \in Nat DEF Cyc
    <3> QED  BY ONLY <3>3, <3>4
  <2>5. \A j \in 2 .. n : j = 2 \/ j \in 3 .. n
    BY <1>1
  <2> QED  BY <2>3, <2>4, <2>5 DEF Behind, n
<1>6. CASE n = 1
  BY <1>6 DEF Behind, n
<1> QED  BY <1>1, <1>5, <1>6

(* Free blocks: the one at x has f[x] units; they do not touch.            *)
Apart(S, f) ==
  /\ \A x \in S : f[x] \in Nat \ {0}
  /\ \A x, y \in S : x < y => x + f[x] < y
Covered(S, f) == UNION {x .. x + f[x] - 1 : x \in S}
Span(b, n) == b .. b + n - 1

(* The blocks R and a run that fills what is between them become one.      *)
Joins(S, f, R, bottom, top) ==
  /\ R \subseteq S /\ bottom < top
  /\ \A x \in S \ R : x + f[x] < bottom \/ top < x
  /\ \A x \in R : bottom <= x /\ x + f[x] <= top
FilledBy(f, R, bottom, top, b, n) ==
  /\ bottom <= b /\ b + n <= top
  /\ \A u \in bottom .. top - 1 : u \in b .. b + n - 1 \/ \E x \in R : u \in x .. x + f[x] - 1
Joined(S, f, R, bottom, top, g) ==
  g[bottom] = top - bottom /\ \A x \in S \ R : g[x] = f[x]
Joining(S, f, R, bottom, top, b, n, g) ==
  /\ S \in SUBSET Nat /\ bottom \in Nat /\ top \in Nat /\ b \in Nat /\ n \in Nat
  /\ Apart(S, f) /\ Joins(S, f, R, bottom, top) /\ FilledBy(f, R, bottom, top, b, n)
  /\ Joined(S, f, R, bottom, top, g)

LEMMA BlocksJoin ==
  ASSUME NEW S, NEW f, NEW R, NEW bottom, NEW top, NEW b, NEW n, NEW g,
         Joining(S, f, R, bottom, top, b, n, g)
  PROVE  /\ Apart((S \ R) \cup {bottom}, g)
         /\ Covered((S \ R) \cup {bottom}, g) = Covered(S, f) \cup Span(b, n)
<1> DEFINE T == (S \ R) \cup {bottom}
<1>0. /\ S \in SUBSET Nat /\ bottom \in Nat /\ top \in Nat /\ b \in Nat /\ n \in Nat
      /\ Apart(S, f) /\ Joins(S, f, R, bottom, top) /\ FilledBy(f, R, bottom, top, b, n)
      /\ Joined(S, f, R, bottom, top, g)
  BY DEF Joining
<1> USE <1>0 DEF Span
<1>1. \A x \in S : x \in Nat /\ f[x] \in Nat \ {0} /\ x + f[x] \in Nat
  BY DEF Apart
<1>2. /\ R \subseteq S /\ bottom < top
      /\ \A x \in S \ R : x + f[x] < bottom \/ top < x
      /\ \A x \in R : bottom <= x /\ x + f[x] <= top
  BY DEF Joins
<1>3. g[bottom] = top - bottom /\ \A x \in S \ R : g[x] = f[x]
  BY DEF Joined
<1>4. \A x \in T : g[x] \in Nat \ {0}
  BY <1>1, <1>2, <1>3
<1>5. ASSUME NEW x \in T, NEW y \in T, x < y
      PROVE  x + g[x] < y
  <2>1. CASE x \in S \ R /\ y \in S \ R
    BY <1>3, <1>5, <2>1 DEF Apart
  <2>2. CASE x = bottom /\ y \in S \ R
    <3>1. y \in Nat /\ y + f[y] \in Nat /\ f[y] \in Nat
      BY <1>1, <2>2
    <3>2. top < y
      BY ONLY <1>2, <1>5, <2>2, <3>1, bottom \in Nat
    <3>3. x + g[x] = top
      BY <1>3, <2>2
    <3> QED  BY <3>2, <3>3
  <2>3. CASE x \in S \ R /\ y = bottom
    <3>1. x \in Nat /\ x + f[x] \in Nat /\ f[x] \in Nat /\ g[x] = f[x]
      BY <1>1, <1>3, <2>3
    <3>2. x + f[x] < bottom
      BY <1>2, <1>5, <2>3, <3>1
    <3> QED  BY <2>3, <3>1, <3>2
  <2> QED  BY <1>5, <2>1, <2>2, <2>3
<1>6. ASSUME NEW u \in Covered(T, g)
      PROVE  u \in Covered(S, f) \cup Span(b, n)
  <2>1. PICK x \in T : u \in x .. x + g[x] - 1
    BY <1>6 DEF Covered
  <2>2. CASE x \in S \ R
    BY <1>3, <2>1, <2>2 DEF Covered
  <2>3. CASE x = bottom
    <3>1. u \in bottom .. top - 1
      BY <1>3, <2>1, <2>3
    <3>2. u \in b .. b + n - 1 \/ \E y \in R : u \in y .. y + f[y] - 1
      BY <3>1 DEF FilledBy
    <3> QED  BY <1>2, <3>2 DEF Covered
  <2> QED  BY <2>1, <2>2, <2>3
<1>7. ASSUME NEW u \in bottom .. top - 1
      PROVE  u \in Covered(T, g)
  <2>1. u \in bottom .. bottom + g[bottom] - 1 /\ bottom \in T
    BY <1>3
  <2> HIDE DEF T
  <2> QED  BY <2>1 DEF Covered
<1>8. ASSUME NEW u \in b .. b + n - 1
      PROVE  u \in Covered(T, g)
  <2>1. u \in bottom .. top - 1
    BY DEF FilledBy
  <2> QED  BY <1>7, <2>1
<1>9. ASSUME NEW u \in Covered(S, f)
      PROVE  u \in Covered(T, g)
  <2>1. PICK x \in S : u \in x .. x + f[x] - 1
    BY <1>9 DEF Covered
  <2>2. CASE x \in S \ R
    BY <1>3, <2>1, <2>2 DEF Covered
  <2>3. CASE x \in R
    <3>1. bottom <= x /\ x + f[x] <= top /\ x \in Nat /\ x + f[x] \in Nat /\ f[x] \in Nat
      BY <1>1, <1>2, <2>3
    <3>2. u \in bottom .. top - 1
      BY ONLY <2>1, <3>1, bottom \in Nat, top \in Nat
    <3> QED  BY <1>7, <3>2
  <2> QED  BY <2>1, <2>2, <2>3
<1>10. Apart(T, g)
  BY <1>4, <1>5 DEF Apart
<1>11. Covered(T, g) = Covered(S, f) \cup Span(b, n)
  BY <1>6, <1>8, <1>9
<1> QED  BY ONLY <1>10, <1>11 DEF T

(* The first n units of the block at x are taken off.                      *)
Taken(S, f, x, n) == (S \ {x}) \cup (IF f[x] > n THEN {x + n} ELSE {})

Splitting(S, f, x, n, g) ==
  /\ S \in SUBSET Nat /\ Apart(S, f) /\ x \in S /\ n \in Nat \ {0} /\ n <= f[x]
  /\ f[x] > n => g[x + n] = f[x] - n
  /\ \A y \in S \ {x} : g[y] = f[y]

LEMMA BlocksSplit ==
  ASSUME NEW S, NEW f, NEW x, NEW n, NEW g, Splitting(S, f, x, n, g)
  PROVE  /\ Apart(Taken(S, f, x, n), g)
         /\ Covered(Taken(S, f, x, n), g) = Covered(S, f) \ Span(x, n)
         /\ Span(x, n) \subseteq Covered(S, f)
<1> DEFINE T == Taken(S, f, x, n)
<1>0. /\ S \in SUBSET Nat /\ Apart(S, f) /\ x \in S /\ n \in Nat \ {0} /\ n <= f[x]
      /\ f[x] > n => g[x + n] = f[x] - n
      /\ \A y \in S \ {x} : g[y] = f[y]
  BY DEF Splitting
<1> USE <1>0
<1>1. \A y \in S : y \in Nat /\ f[y] \in Nat \ {0} /\ y + f[y] \in Nat
  BY DEF Apart
<1>2. \A y, z \in S : y < z => y + f[y] < z
  BY DEF Apart
<1>3. x \in Nat /\ f[x] \in Nat /\ n <= f[x] /\ n \in Nat
  BY <1>1
<1>4. \A y \in T : (y \in S /\ y # x /\ g[y] = f[y]) \/ (f[x] > n /\ y = x + n /\ g[y] = f[x] - n)
  BY DEF Taken
<1>5. \A y \in S : y # x => y \in T
  BY DEF Taken
<1>6. f[x] > n => x + n \in T
  BY DEF Taken
<1> HIDE DEF T
<1>7. ASSUME NEW y \in T
      PROVE  y \in Nat /\ g[y] \in Nat \ {0}
  <2>1. CASE y \in S /\ g[y] = f[y]
    BY <1>1, <2>1
  <2>2. CASE f[x] > n /\ y = x + n /\ g[y] = f[x] - n
    BY ONLY <1>3, <2>2, n \in Nat \ {0}
  <2> QED  BY <1>4, <2>1, <2>2
<1>8. ASSUME NEW y \in S, y # x
      PROVE  y + f[y] < x \/ x + f[x] < y
  BY <1>1, <1>2, <1>8
<1>9. ASSUME NEW y \in T, NEW z \in T, y < z
      PROVE  y + g[y] < z
  <2>1. CASE y \in S /\ y # x /\ g[y] = f[y] /\ z \in S
    BY <1>2, <1>9, <2>1
  <2>2. CASE y \in S /\ y # x /\ g[y] = f[y] /\ f[x] > n /\ z = x + n
    <3>1. y \in Nat /\ f[y] \in Nat
      BY <1>1, <2>2
    <3>2. y + f[y] < x \/ x + f[x] < y
      BY <1>8, <2>2
    <3> QED  BY ONLY <1>3, <1>9, <2>2, <3>1, <3>2
  <2>3. CASE f[x] > n /\ y = x + n /\ g[y] = f[x] - n /\ z \in S /\ z # x
    <3>1. z \in Nat /\ f[z] \in Nat
      BY <1>1, <2>3
    <3>2. z + f[z] < x \/ x + f[x] < z
      BY <1>8, <2>3
    <3> QED  BY ONLY <1>3, <1>9, <2>3, <3>1, <3>2
  <2>4. ~ (y = x + n /\ z = x + n)
    BY <1>3, <1>9
  <2> QED  BY <1>4, <2>1, <2>2, <2>3, <2>4
<1>10. Apart(T, g)
  BY <1>7, <1>9 DEF Apart
<1>11. x .. x + n - 1 \subseteq Covered(S, f)
  <2>1. x .. x + n - 1 \subseteq x .. x + f[x] - 1
    BY ONLY <1>3
  <2> QED  BY <2>1 DEF Covered
<1>12. ASSUME NEW u \in Covered(T, g)
       PROVE  u \in Covered(S, f) /\ u \notin x .. x + n - 1
  <2>1. PICK y \in T : u \in y .. y + g[y] - 1
    BY <1>12 DEF Covered
  <2>2. CASE y \in S /\ y # x /\ g[y] = f[y]
    <3>1. y \in Nat /\ f[y] \in Nat /\ (y + f[y] < x \/ x + f[x] < y)
      BY <1>1, <1>8, <2>2
    <3>2. u \notin x .. x + n - 1
      BY ONLY <1>3, <2>1, <2>2, <3>1
    <3> QED  BY <2>1, <2>2, <3>2 DEF Covered
  <2>3. CASE f[x] > n /\ y = x + n /\ g[y] = f[x] - n
    <3>1. u \in x .. x + f[x] - 1 /\ u \notin x .. x + n - 1
      BY ONLY <1>3, <2>1, <2>3
    <3> QED  BY <3>1 DEF Covered
  <2> QED  BY <1>4, <2>1, <2>2, <2>3
<1>13. ASSUME NEW u \in Covered(S, f), u \notin x .. x + n - 1
       PROVE  u \in Covered(T, g)
  <2>1. PICK y \in S : u \in y .. y + f[y] - 1
    BY <1>13 DEF Covered
  <2>2. CASE y # x
    <3>1. y \in T /\ g[y] = f[y]
      BY <1>5, <2>2
    <3> QED  BY <2>1, <3>1 DEF Covered
  <2>3. CASE y = x
    <3>1. f[x] > n /\ u \in x + n .. x + n + (f[x] - n) - 1
      BY ONLY <1>3, <1>13, <2>1, <2>3
    <3>2. x + n \in T /\ g[x + n] = f[x] - n
      BY <1>6, <3>1
    <3> QED  BY <3>1, <3>2 DEF Covered
  <2> QED  BY <2>2, <2>3
<1> QED  BY <1>10, <1>11, <1>12, <1>13 DEF T, Span

(* A run that is freed behind the first element joins it if it ends there, *)
(* and the second element if that begins where the run ends.               *)
JoinsNext(s, b, n) == Len(s) > 1 /\ b + n = s[2]
JoinsCur(s, f, b) == s[1] + f[s[1]] = b
Bottom(s, f, b) == IF JoinsCur(s, f, b) THEN s[1] ELSE b
Top(s, f, b, n) == IF JoinsNext(s, b, n) THEN s[2] + f[s[2]] ELSE b + n
Swallowed(s, f, b, n) == {x \in ToSet(s) : (JoinsCur(s, f, b) /\ x = s[1]) \/ (JoinsNext(s, b, n) /\ x = s[2])}

LEMMA FreedJoins ==
  ASSUME NEW s \in Seq(Nat), Circular(s), s # << >>, 0 \in ToSet(s),
         NEW f, Apart(ToSet(s), f), f[0] = 1,
         NEW b \in Nat, b > 1, NEW n \in Nat \ {0}, \A u \in b .. b + n - 1 : u \notin Covered(ToSet(s), f),
         Behind(s, b)
  PROVE  /\ Bottom(s, f, b) \in Nat \ {0} /\ Top(s, f, b, n) \in Nat /\ 0 \notin Swallowed(s, f, b, n)
         /\ Joins(ToSet(s), f, Swallowed(s, f, b, n), Bottom(s, f, b), Top(s, f, b, n))
         /\ FilledBy(f, Swallowed(s, f, b, n), Bottom(s, f, b), Top(s, f, b, n), b, n)
<1> DEFINE S == ToSet(s)
           cur == s[1]
           next == s[2]
           up == JoinsNext(s, b, n)
           down == JoinsCur(s, f, b)
           bottom == Bottom(s, f, b)
           top == Top(s, f, b, n)
           R == Swallowed(s, f, b, n)
<1>1. /\ Len(s) \in Nat \ {0} /\ DOMAIN s = 1 .. Len(s) /\ \A j \in 1 .. Len(s) : s[j] \in Nat
      /\ \A j \in 1 .. Len(s) : s[j] \in S
      /\ \A x \in S : \E j \in 1 .. Len(s) : x = s[j]
  <2>1. Len(s) \in Nat \ {0} /\ DOMAIN s = 1 .. Len(s) /\ \A j \in 1 .. Len(s) : s[j] \in Nat
    BY LenProperties, ElementOfSeq, EmptySeq
  <2> QED  BY <2>1 DEF ToSet
<1>2. \A x \in S : x \in Nat /\ f[x] \in Nat \ {0} /\ x + f[x] \in Nat
  BY <1>1 DEF Apart
<1>3. \A x, y \in S : x < y => x + f[x] < y
  BY DEF Apart
<1>4. cur \in S /\ (Len(s) > 1 => next \in S /\ next # cur)
  <2>1. 1 \in 1 .. Len(s) /\ (Len(s) > 1 => 2 \in 1 .. Len(s))
    BY <1>1
  <2> QED  BY <1>1, <2>1 DEF Circular, Distinct
(* The blocks lie on either side of the run.                               *)
<1>5. ASSUME NEW x \in S
      PROVE  x + f[x] <= b \/ b + n <= x
  <2>1. x \in Nat /\ f[x] \in Nat \ {0}
    BY <1>2
  <2>2. \A u \in b .. b + n - 1 : ~ (u \in x .. x + f[x] - 1)
    BY DEF Covered
  <2>3. CASE x < b
    <3>1. ~ (b \in x .. x + f[x] - 1)
      BY <2>2
    <3> QED  BY ONLY <2>1, <2>3, <3>1, b \in Nat
  <2>4. CASE x >= b
    <3>1. ~ (x \in b .. b + n - 1)
      <4>1. x \in x .. x + f[x] - 1
        BY <2>1
      <4> QED  BY <2>2, <4>1
    <3> QED  BY ONLY <2>1, <2>4, <3>1, b \in Nat, n \in Nat \ {0}
  <2> QED  BY <2>1, <2>3, <2>4
<1>6. \A x \in S : x # cur => Len(s) > 1 /\ Cyc(cur, b, x)
  <2>1. ASSUME NEW x \in S, x # cur
        PROVE  Len(s) > 1 /\ Cyc(cur, b, x)
    <3>1. PICK j \in 1 .. Len(s) : x = s[j]
      BY <1>1
    <3>2. j \in 2 .. Len(s) /\ Len(s) > 1
      BY <1>1, <2>1, <3>1
    <3> QED  BY <3>1, <3>2 DEF Behind
  <2> QED  BY <2>1
<1>7. \A x \in S : x # cur /\ x # next => Cyc(b, next, x)
  <2>1. ASSUME NEW x \in S, x # cur, x # next
        PROVE  Cyc(b, next, x)
    <3>1. PICK j \in 1 .. Len(s) : x = s[j]
      BY <1>1
    <3>2. j \in 3 .. Len(s)
      BY <1>1, <2>1, <3>1
    <3> QED  BY <3>1, <3>2 DEF Behind
  <2> QED  BY <2>1
<1>8. up <=> Len(s) > 1 /\ b + n = next
  BY DEF JoinsNext
<1>9. down <=> cur + f[cur] = b
  BY DEF JoinsCur
<1>10. bottom = IF down THEN cur ELSE b
  BY DEF Bottom
<1>11. top = IF up THEN next + f[next] ELSE b + n
  BY DEF Top
<1>12. R = {x \in S : (down /\ x = cur) \/ (up /\ x = next)}
  BY DEF Swallowed
<1>13. Len(s) = 1 => cur = 0
  BY <1>1, <1>6
<1> HIDE DEF S, cur, next, up, down, bottom, top, R
<1>14. cur \in Nat /\ f[cur] \in Nat \ {0} /\ (Len(s) > 1 => next \in Nat /\ f[next] \in Nat \ {0})
  BY <1>2, <1>4
<1>15. bottom \in Nat \ {0} /\ top \in Nat /\ bottom <= b /\ b + n <= top /\ bottom < top
  <2>1. down => cur < b /\ cur # 0
    BY <1>9, <1>14
  <2>2. up => Len(s) > 1 /\ next + f[next] \in Nat /\ b + n <= next + f[next]
    BY <1>8, <1>14
  <2> QED  BY <1>10, <1>11, <1>14, <2>1, <2>2
<1>16. 0 \notin R
  <2>1. down => cur # 0
    BY <1>9
  <2>2. up => next # 0
    BY <1>8
  <2> QED  BY <1>12, <2>1, <2>2
<1>17. ASSUME NEW x \in S \ R
       PROVE  x + f[x] < bottom \/ top < x
  <2>1. x \in Nat /\ f[x] \in Nat \ {0} /\ (x + f[x] <= b \/ b + n <= x)
    BY <1>2, <1>5
  <2>2. CASE x = cur
    <3>1. ~ down /\ bottom = b /\ x + f[x] # b
      BY <1>9, <1>10, <1>12, <1>17, <2>2
    <3>2. CASE x < b
      BY ONLY <2>1, <3>1, <3>2, b \in Nat, n \in Nat \ {0}
    <3>3. CASE ~ (x < b)
      <4>1. Len(s) > 1 /\ Cyc(cur, b, next)
        <5>1. Len(s) > 1
          BY <1>1, <1>13, <2>2, <3>3
        <5> QED  BY <1>4, <1>6, <5>1
      <4>2. b + n <= next /\ next < x
        <5>1. b < next /\ next < cur
          BY ONLY <1>14, <4>1, <2>2, <3>3, <2>1, b \in Nat DEF Cyc
        <5>2. next + f[next] <= b \/ b + n <= next
          BY <1>4, <1>5, <4>1
        <5> QED  BY ONLY <1>14, <2>2, <4>1, <5>1, <5>2, b \in Nat, n \in Nat \ {0}
      <4>3. next + f[next] < x
        BY <1>3, <1>4, <4>1, <4>2, <2>2
      <4> QED  BY ONLY <1>11, <1>14, <2>1, <4>1, <4>2, <4>3, b \in Nat, n \in Nat \ {0}
    <3> QED  BY <3>2, <3>3
  <2>3. CASE x # cur /\ x = next
    <3>1. Len(s) > 1 /\ Cyc(cur, b, x)
      BY <1>6, <2>3
    <3>2. ~ up /\ top = b + n /\ b + n # x
      BY <1>8, <1>11, <1>12, <1>17, <2>3, <3>1
    <3>3. CASE x < b
      <4>1. x < cur /\ cur < b
        BY ONLY <1>14, <2>1, <3>1, <3>3, b \in Nat DEF Cyc
      <4>2. x + f[x] < cur /\ cur + f[cur] <= b
        <5>1. x + f[x] < cur
          BY <1>3, <1>4, <4>1
        <5>2. cur + f[cur] <= b \/ b + n <= cur
          BY <1>4, <1>5
        <5> QED  BY ONLY <1>14, <4>1, <5>1, <5>2, b \in Nat, n \in Nat \ {0}
      <4> QED  BY ONLY <1>10, <1>14, <2>1, <4>1, <4>2, b \in Nat
    <3>4. CASE ~ (x < b)
      BY ONLY <2>1, <3>2, <3>4, b \in Nat, n \in Nat \ {0}
    <3> QED  BY <3>3, <3>4
  <2>4. CASE x # cur /\ x # next
    <3>1. Len(s) > 1 /\ Cyc(cur, b, x) /\ Cyc(b, next, x)
      BY <1>6, <1>7, <2>4
    <3>2. CASE x < b
      <4>1. x < cur /\ cur < b
        BY ONLY <1>14, <2>1, <3>1, <3>2, b \in Nat DEF Cyc
      <4>2. x + f[x] < cur
        BY <1>3, <1>4, <4>1
      <4> QED  BY ONLY <1>10, <1>14, <2>1, <4>1, <4>2, b \in Nat
    <3>3. CASE ~ (x < b)
      <4>1. b < next /\ next < x
        BY ONLY <1>14, <2>1, <3>1, <3>3, b \in Nat DEF Cyc
      <4>2. next + f[next] < x /\ b + n <= next
        <5>1. next + f[next] < x
          BY <1>3, <1>4, <3>1, <4>1
        <5>2. next + f[next] <= b \/ b + n <= next
          BY <1>4, <1>5, <3>1
        <5> QED  BY ONLY <1>14, <3>1, <4>1, <5>1, <5>2, b \in Nat, n \in Nat \ {0}
      <4> QED  BY ONLY <1>11, <1>14, <2>1, <3>1, <4>1, <4>2, b \in Nat, n \in Nat \ {0}
    <3> QED  BY <3>2, <3>3
  <2> QED  BY <2>2, <2>3, <2>4
<1>18. ASSUME NEW x \in R
       PROVE  bottom <= x /\ x + f[x] <= top
  <2>1. CASE down /\ x = cur
    <3>1. bottom = x /\ x + f[x] = b
      BY <1>9, <1>10, <2>1
    <3> QED  BY ONLY <1>15, <3>1, b \in Nat, n \in Nat \ {0}
  <2>2. CASE up /\ x = next
    <3>1. x + f[x] = top /\ x = b + n
      BY <1>8, <1>11, <2>2
    <3> QED  BY ONLY <1>15, <3>1, b \in Nat, n \in Nat \ {0}
  <2> QED  BY <1>12, <2>1, <2>2
<1>19. Joins(S, f, R, bottom, top)
  <2>1. R \subseteq S
    BY <1>12
  <2> QED  BY <1>15, <1>17, <1>18, <2>1 DEF Joins
<1>20. ASSUME NEW u \in bottom .. top - 1
       PROVE  u \in b .. b + n - 1 \/ \E x \in R : u \in x .. x + f[x] - 1
  <2>1. u \in Int /\ bottom <= u /\ u < top
    BY <1>15
  <2>2. CASE u < b
    <3>1. down /\ cur \in R /\ u \in cur .. cur + f[cur] - 1
      <4>1. down
        BY <1>10, <2>1, <2>2
      <4>2. u \in cur .. cur + f[cur] - 1
        BY ONLY <1>9, <1>10, <1>14, <2>1, <2>2, <4>1, b \in Nat
      <4> QED  BY <1>4, <1>12, <4>1, <4>2
    <3> QED  BY <3>1
  <2>3. CASE u >= b + n
    <3>1. up
      BY <1>11, <2>1, <2>3
    <3>2. next \in R /\ u \in next .. next + f[next] - 1
      <4>1. u \in next .. next + f[next] - 1
        BY ONLY <1>8, <1>11, <1>14, <2>1, <2>3, <3>1
      <4> QED  BY <1>4, <1>8, <1>12, <3>1, <4>1
    <3> QED  BY <3>2
  <2>4. CASE u >= b /\ u < b + n
    BY <2>1, <2>4
  <2> QED  BY <2>1, <2>2, <2>3, <2>4
<1>21. FilledBy(f, R, bottom, top, b, n)
  BY <1>15, <1>20 DEF FilledBy
<1> QED  BY <1>15, <1>16, <1>19, <1>21 DEF S, bottom, top, R

(* What is kept of a list is the list without its second element.          *)
LEMMA KeptSet ==
  ASSUME NEW s \in Seq(Nat), s # << >>, Distinct(s), NEW k \in {2, 3}, k <= Len(s) + 1
  PROVE  Kept(s, k) = ToSet(s) \ (IF k = 3 THEN {s[2]} ELSE {})
<1>1. Len(s) \in Nat \ {0} /\ DOMAIN s = 1 .. Len(s)
  BY LenProperties, EmptySeq
<1>2. \A i, j \in 1 .. Len(s) : i # j => s[i] # s[j]
  BY <1>1 DEF Distinct
<1>3. \A x : x \in ToSet(s) <=> \E j \in 1 .. Len(s) : x = s[j]
  BY <1>1 DEF ToSet
<1>4. CASE k = 2
  <2>1. \A j \in 1 .. Len(s) : j = 1 \/ j \in 2 .. Len(s)
    BY <1>1
  <2>2. 1 \in 1 .. Len(s) /\ \A j \in 2 .. Len(s) : j \in 1 .. Len(s)
    BY <1>1
  <2> QED  BY <1>3, <1>4, <2>1, <2>2 DEF Kept
<1>5. CASE k = 3
  <2>1. \A j \in 1 .. Len(s) : j = 1 \/ j = 2 \/ j \in 3 .. Len(s)
    BY <1>1
  <2>2. 1 \in 1 .. Len(s) /\ 2 \in 1 .. Len(s) /\ \A j \in 3 .. Len(s) : j \in 1 .. Len(s) /\ j # 2
    BY <1>1, <1>5
  <2>3. \A j \in 1 .. Len(s) : j # 2 => s[j] # s[2]
    BY <1>2, <2>2
  <2> QED  BY <1>3, <1>5, <2>1, <2>2, <2>3 DEF Kept
<1> QED  BY <1>4, <1>5

(* The list of free blocks, its units and the lengths of the blocks.       *)
FreeHeap(N, l, f) ==
  /\ l \in Seq(0 .. N) /\ Circular(l) /\ 0 \in ToSet(l)
  /\ f \in [0 .. N -> Nat] /\ f[0] = 1
  /\ Apart(ToSet(l), f) /\ Covered(ToSet(l), f) \subseteq 0 .. N

LEMMA HeapFacts ==
  ASSUME NEW N \in Nat, NEW l, NEW f, FreeHeap(N, l, f)
  PROVE  /\ l \in Seq(Nat) /\ l # << >> /\ ToSet(l) \subseteq 0 .. N /\ ToSet(l) \subseteq Covered(ToSet(l), f)
         /\ Len(l) \in Nat \ {0} /\ \A j \in 1 .. Len(l) : l[j] \in ToSet(l)
<1>1. l \in Seq(0 .. N) /\ 0 \in ToSet(l)
  BY DEF FreeHeap
<1>2. Len(l) \in Nat /\ DOMAIN l = 1 .. Len(l) /\ \A j \in 1 .. Len(l) : l[j] \in 0 .. N
  BY <1>1, LenProperties, ElementOfSeq
<1>3. \A x \in ToSet(l) : \E j \in 1 .. Len(l) : x = l[j]
  BY <1>2 DEF ToSet
<1>4. \A j \in 1 .. Len(l) : l[j] \in ToSet(l)
  BY <1>2 DEF ToSet
<1>5. Len(l) # 0
  BY <1>1, <1>2, <1>3
<1>6. ToSet(l) \subseteq 0 .. N
  BY <1>2, <1>3
<1>7. ASSUME NEW x \in ToSet(l)
      PROVE  x \in Covered(ToSet(l), f)
  <2>1. f[x] \in Nat \ {0} /\ x \in Nat
    BY <1>6 DEF FreeHeap, Apart
  <2>2. x \in x .. x + f[x] - 1
    BY <2>1
  <2> QED  BY <2>2 DEF Covered
<1>8. l \in Seq(Nat)
  BY <1>1, <1>6, SeqOfMembers
<1>9. l # << >>
  BY <1>2, <1>5, EmptySeq
<1> QED  BY <1>2, <1>4, <1>5, <1>6, <1>7, <1>8, <1>9

(* A turned list is a heap as well.                                        *)
LEMMA HeapTurns ==
  ASSUME NEW N \in Nat, NEW l, NEW f, FreeHeap(N, l, f), NEW i \in 1 .. Len(l), NEW s, IsTurned(l, i, s)
  PROVE  /\ FreeHeap(N, s, f) /\ ToSet(s) = ToSet(l) /\ Len(s) = Len(l) /\ s[1] = l[i]
         /\ Len(s) > 1 => s[2] = l[(i % Len(l)) + 1]
         /\ Len(s) = 1 => s[1] = l[(i % Len(l)) + 1]
<1>1. l \in Seq(Nat) /\ ToSet(l) \subseteq 0 .. N
  BY HeapFacts
<1>2. Circular(l)
  BY DEF FreeHeap
<1>3. s \in Seq(Nat) /\ Len(s) = Len(l)
  BY DEF IsTurned
<1>4. /\ Circular(s) /\ ToSet(s) = ToSet(l) /\ s[1] = l[i]
      /\ Len(l) > 1 => s[2] = l[(i % Len(l)) + 1]
      /\ Len(l) = 1 => s[1] = l[(i % Len(l)) + 1]
  <2>1. Len(s) > 1 => s[2] = l[(i % Len(l)) + 1]
    BY ONLY <1>1, <1>2, CircularTurns, i \in 1 .. Len(l), IsTurned(l, i, s)
  <2>2. Len(s) = 1 => s[1] = l[(i % Len(l)) + 1]
    BY ONLY <1>1, <1>2, CircularTurns, i \in 1 .. Len(l), IsTurned(l, i, s)
  <2>3. Circular(s) /\ ToSet(s) = ToSet(l) /\ s[1] = l[i]
    BY ONLY <1>1, <1>2, CircularTurns, i \in 1 .. Len(l), IsTurned(l, i, s)
  <2> QED  BY ONLY <1>3, <2>1, <2>2, <2>3
<1>5. s \in Seq(0 .. N)
  BY ONLY <1>1, <1>3, <1>4, SeqOfMembers
<1>6. FreeHeap(N, s, f)
  BY <1>4, <1>5 DEF FreeHeap
<1> QED  BY ONLY <1>3, <1>4, <1>6

(* A run belongs behind the first element if that is cur of slob_free.     *)
Clear(s, f, b, n) == \A u \in b .. b + n - 1 : u \notin Covered(ToSet(s), f)

LEMMA HeapPlaces ==
  ASSUME NEW N \in Nat, NEW s, NEW f, FreeHeap(N, s, f),
         NEW b \in Nat, NEW n \in Nat \ {0}, Clear(s, f, b, n),
         NEW next, Len(s) > 1 => s[2] = next, Len(s) = 1 => s[1] = next, Between(s[1], b, next)
  PROVE  Behind(s, b)
<1>1. /\ s \in Seq(Nat) /\ s # << >> /\ Len(s) \in Nat \ {0} /\ ToSet(s) \subseteq Covered(ToSet(s), f)
  BY HeapFacts
<1>2. b \notin ToSet(s)
  <2>1. b \in b .. b + n - 1
    OBVIOUS
  <2>2. b \notin Covered(ToSet(s), f)
    BY ONLY <2>1, Clear(s, f, b, n) DEF Clear
  <2> QED  BY ONLY <1>1, <2>2
<1>3. next = IF Len(s) > 1 THEN s[2] ELSE s[1]
  <2>1. Len(s) \in Nat \ {0}
    BY <1>1
  <2>2. Len(s) > 1 \/ Len(s) = 1
    BY ONLY <2>1
  <2> QED  BY <2>2
<1>4. Circular(s)
  BY DEF FreeHeap
<1>5. Between(s[1], b, IF Len(s) > 1 THEN s[2] ELSE s[1])
  BY <1>3
<1> QED  BY ONLY <1>1, <1>2, <1>4, <1>5, b \in Nat, CircularNeighbours

(* slob_free: the run is free, and no length elsewhere has changed.        *)
IsFreed(N, s, f, b, n, t, g) ==
  /\ IsChanged(s, IF JoinsCur(s, f, b) THEN 0 ELSE 1, b, IF JoinsNext(s, b, n) THEN 3 ELSE 2, t)
  /\ g \in [0 .. N -> Nat]
  /\ Joined(ToSet(s), f, Swallowed(s, f, b, n), Bottom(s, f, b), Top(s, f, b, n), g)
  /\ \A u \in 0 .. N : u \notin Bottom(s, f, b) .. Top(s, f, b, n) - 1 => g[u] = f[u]

LEMMA HeapFrees ==
  ASSUME NEW N \in Nat, NEW s, NEW f, FreeHeap(N, s, f),
         NEW b \in Nat, b > 1, NEW n \in Nat \ {0}, b + n - 1 <= N, Clear(s, f, b, n), Behind(s, b),
         NEW t, NEW g, IsFreed(N, s, f, b, n, t, g)
  PROVE  /\ FreeHeap(N, t, g)
         /\ Covered(ToSet(t), g) = Covered(ToSet(s), f) \cup Span(b, n)
         /\ \E x \in ToSet(t) : g[x] >= n
         /\ \A u \in 0 .. N : u \notin Covered(ToSet(t), g) => g[u] = f[u]
<1>1. /\ s \in Seq(Nat) /\ s # << >> /\ ToSet(s) \subseteq 0 .. N /\ Len(s) \in Nat \ {0}
      /\ \A j \in 1 .. Len(s) : s[j] \in ToSet(s)
      /\ ToSet(s) \subseteq Covered(ToSet(s), f)
  BY HeapFacts
<1>2. Circular(s) /\ Distinct(s) /\ DOMAIN s = 1 .. Len(s)
  BY <1>1, LenProperties DEF FreeHeap, Circular
<1>3. 0 \in ToSet(s) /\ Apart(ToSet(s), f) /\ f[0] = 1 /\ Covered(ToSet(s), f) \subseteq 0 .. N
  BY DEF FreeHeap
<1>4. PICK p : p = IF JoinsCur(s, f, b) THEN 0 ELSE 1
  OBVIOUS
<1>5. PICK k : k = IF JoinsNext(s, b, n) THEN 3 ELSE 2
  OBVIOUS
<1>6. PICK R : R = Swallowed(s, f, b, n)
  OBVIOUS
<1>7. PICK bottom : bottom = Bottom(s, f, b)
  OBVIOUS
<1>8. PICK top : top = Top(s, f, b, n)
  OBVIOUS
<1>9. IsChanged(s, p, b, k, t)
  BY ONLY IsFreed(N, s, f, b, n, t, g), <1>4, <1>5 DEF IsFreed
<1>10. Joined(ToSet(s), f, R, bottom, top, g)
  BY ONLY IsFreed(N, s, f, b, n, t, g), <1>6, <1>7, <1>8 DEF IsFreed
<1>11. g \in [0 .. N -> Nat] /\ \A u \in 0 .. N : u \notin bottom .. top - 1 => g[u] = f[u]
  BY ONLY IsFreed(N, s, f, b, n, t, g), <1>7, <1>8 DEF IsFreed
<1>12. \A u \in b .. b + n - 1 : u \notin Covered(ToSet(s), f)
  BY DEF Clear
<1>13. /\ bottom \in Nat \ {0} /\ top \in Nat /\ 0 \notin R
       /\ Joins(ToSet(s), f, R, bottom, top) /\ FilledBy(f, R, bottom, top, b, n)
  <2>1. /\ Bottom(s, f, b) \in Nat \ {0} /\ Top(s, f, b, n) \in Nat /\ 0 \notin Swallowed(s, f, b, n)
        /\ Joins(ToSet(s), f, Swallowed(s, f, b, n), Bottom(s, f, b), Top(s, f, b, n))
        /\ FilledBy(f, Swallowed(s, f, b, n), Bottom(s, f, b), Top(s, f, b, n), b, n)
    BY ONLY <1>1, <1>2, <1>3, <1>12, Behind(s, b), b \in Nat, b > 1, n \in Nat \ {0}, FreedJoins
  <2> QED  BY ONLY <2>1, <1>6, <1>7, <1>8
<1>14. p \in {0, 1} /\ k \in {2, 3} /\ k <= Len(s) + 1
  BY ONLY <1>1, <1>4, <1>5 DEF JoinsNext
<1>15. \A j \in k .. Len(s) : j \in 2 .. Len(s) /\ j \in 1 .. Len(s)
  BY ONLY <1>1, <1>14
<1>16. b \notin ToSet(s)
  <2>1. b \in b .. b + n - 1
    OBVIOUS
  <2> QED  BY ONLY <1>1, <1>12, <2>1
<1>17. b # s[1] /\ \A j \in k .. Len(s) : b # s[j] /\ Cyc(s[1], b, s[j])
  <2>1. 1 \in 1 .. Len(s)
    BY ONLY <1>1
  <2>2. \A j \in 2 .. Len(s) : Cyc(s[1], b, s[j])
    BY DEF Behind
  <2> QED  BY ONLY <1>1, <1>15, <1>16, <2>1, <2>2
<1>18. Circular(t) /\ ToSet(t) = Kept(s, k) \cup (IF p = 1 THEN {b} ELSE {})
  <2>1. s \in Seq(Nat) /\ s # << >> /\ Circular(s)
    BY ONLY <1>1, <1>2
  <2>2. p = 1 => b # s[1] /\ \A j \in k .. Len(s) : b # s[j] /\ Cyc(s[1], b, s[j])
    BY ONLY <1>17
  <2> QED  BY ONLY <1>9, <1>14, <2>1, <2>2, b \in Nat, CircularChanges
<1>19. ToSet(t) = (ToSet(s) \ R) \cup {bottom}
  <2>1. Kept(s, k) = ToSet(s) \ (IF k = 3 THEN {s[2]} ELSE {})
    BY ONLY <1>1, <1>2, <1>14, KeptSet
  <2>2. s[1] \in ToSet(s) /\ (k = 3 => s[2] \in ToSet(s) /\ s[2] # s[1])
    <3>1. 1 \in 1 .. Len(s) /\ (k = 3 => 2 \in 1 .. Len(s))
      BY ONLY <1>1, <1>14
    <3> QED  BY ONLY <1>1, <1>2, <3>1 DEF Distinct
  <2>3. k = 3 <=> JoinsNext(s, b, n)
    BY ONLY <1>5
  <2>4. p = 1 <=> ~ JoinsCur(s, f, b)
    BY ONLY <1>4
  <2>5. R = {x \in ToSet(s) : (JoinsCur(s, f, b) /\ x = s[1]) \/ (JoinsNext(s, b, n) /\ x = s[2])}
    BY ONLY <1>6 DEF Swallowed
  <2>6. bottom = IF JoinsCur(s, f, b) THEN s[1] ELSE b
    BY ONLY <1>7 DEF Bottom
  <2> QED  BY ONLY <1>18, <2>1, <2>2, <2>3, <2>4, <2>5, <2>6
<1>20. Apart(ToSet(t), g) /\ Covered(ToSet(t), g) = Covered(ToSet(s), f) \cup Span(b, n)
  <2>1. ToSet(s) \in SUBSET Nat /\ n \in Nat /\ bottom \in Nat
    BY ONLY <1>1, <1>13, n \in Nat \ {0}
  <2>2. /\ Apart((ToSet(s) \ R) \cup {bottom}, g)
        /\ Covered((ToSet(s) \ R) \cup {bottom}, g) = Covered(ToSet(s), f) \cup Span(b, n)
    <3>1. Joining(ToSet(s), f, R, bottom, top, b, n, g)
      BY ONLY <1>3, <1>10, <1>13, <2>1, b \in Nat DEF Joining
    <3> QED  BY ONLY <3>1, BlocksJoin
  <2> QED  BY ONLY <1>19, <2>2
<1>21. g[bottom] = top - bottom /\ \A x \in ToSet(s) \ R : g[x] = f[x]
  BY ONLY <1>10 DEF Joined
<1>22. bottom <= b /\ b + n <= top
  BY ONLY <1>13 DEF FilledBy
<1>23. g[0] = 1 /\ 0 \in ToSet(t)
  BY ONLY <1>3, <1>13, <1>19, <1>21
<1>24. Covered(ToSet(t), g) \subseteq 0 .. N
  <2>1. Span(b, n) \subseteq 0 .. N
    BY DEF Span
  <2> QED  BY ONLY <1>3, <1>20, <2>1
<1>25. t \in Seq(0 .. N)
  <2>1. \A x \in ToSet(t) : x \in 0 .. N
    <3>1. bottom \in 0 .. N
      BY <1>13, <1>22
    <3> QED  BY ONLY <1>1, <1>19, <3>1
  <2>2. t \in Seq(Nat)
    BY ONLY <1>9 DEF IsChanged
  <2> QED  BY ONLY <2>1, <2>2, SeqOfMembers
<1>26. FreeHeap(N, t, g)
  BY ONLY <1>11, <1>18, <1>20, <1>23, <1>24, <1>25 DEF FreeHeap
<1>27. bottom \in ToSet(t) /\ g[bottom] >= n
  BY ONLY <1>13, <1>19, <1>21, <1>22, b \in Nat, n \in Nat \ {0}
<1>28. ASSUME NEW u \in 0 .. N, u \notin Covered(ToSet(t), g)
       PROVE  g[u] = f[u]
  <2>1. bottom .. bottom + g[bottom] - 1 \subseteq Covered(ToSet(t), g)
    BY ONLY <1>27 DEF Covered
  <2>2. bottom + g[bottom] - 1 = top - 1
    BY ONLY <1>13, <1>21
  <2>3. u \notin bottom .. top - 1
    BY <1>28, <2>1, <2>2
  <2> QED  BY <1>11, <2>3
<1> QED  BY <1>20, <1>26, <1>27, <1>28

(* slob_alloc: the first n units of the second block are taken.            *)
IsTaken(N, s, f, n, t, g) ==
  /\ n \in Nat \ {0} /\ Len(s) > 1 /\ s[2] # 0 /\ f[s[2]] >= n
  /\ IsChanged(s, IF f[s[2]] > n THEN 1 ELSE 0, s[2] + n, 3, t)
  /\ g \in [0 .. N -> Nat]
  /\ \A u \in 0 .. N : g[u] = IF u = s[2] THEN n ELSE IF u = s[2] + n /\ f[s[2]] > n THEN f[s[2]] - n ELSE f[u]

LEMMA HeapTakes ==
  ASSUME NEW N \in Nat, NEW s, NEW f, FreeHeap(N, s, f), NEW n, NEW t, NEW g, IsTaken(N, s, f, n, t, g)
  PROVE  /\ FreeHeap(N, t, g)
         /\ Covered(ToSet(t), g) = Covered(ToSet(s), f) \ Span(s[2], n)
         /\ Span(s[2], n) \subseteq Covered(ToSet(s), f)
         /\ s[2] > 1 /\ s[2] \in 0 .. N /\ g[s[2]] = n
         /\ \A u \in 0 .. N : u \notin Covered(ToSet(s), f) => g[u] = f[u]
<1>1. /\ s \in Seq(Nat) /\ s # << >> /\ ToSet(s) \subseteq 0 .. N /\ Len(s) \in Nat \ {0}
      /\ \A j \in 1 .. Len(s) : s[j] \in ToSet(s)
      /\ ToSet(s) \subseteq Covered(ToSet(s), f)
  BY HeapFacts
<1>2. Circular(s) /\ Distinct(s) /\ DOMAIN s = 1 .. Len(s)
  BY <1>1, LenProperties DEF FreeHeap, Circular
<1>3. /\ 0 \in ToSet(s) /\ Apart(ToSet(s), f) /\ f[0] = 1 /\ Covered(ToSet(s), f) \subseteq 0 .. N
      /\ f \in [0 .. N -> Nat]
  BY DEF FreeHeap
<1>4. PICK x : x = s[2]
  OBVIOUS
<1>5. PICK p : p = IF f[x] > n THEN 1 ELSE 0
  OBVIOUS
<1>6. PICK c : c = x + n
  OBVIOUS
<1>7. n \in Nat \ {0} /\ Len(s) > 1 /\ x # 0 /\ f[x] >= n /\ IsChanged(s, p, c, 3, t)
  BY ONLY IsTaken(N, s, f, n, t, g), <1>4, <1>5, <1>6 DEF IsTaken
<1>8. /\ g \in [0 .. N -> Nat]
      /\ \A u \in 0 .. N : g[u] = IF u = x THEN n ELSE IF u = x + n /\ f[x] > n THEN f[x] - n ELSE f[u]
  BY ONLY IsTaken(N, s, f, n, t, g), <1>4 DEF IsTaken
<1>9. /\ \A y \in ToSet(s) : y \in Nat /\ f[y] \in Nat \ {0}
      /\ \A y, z \in ToSet(s) : y < z => y + f[y] < z
  BY ONLY <1>1, <1>3 DEF Apart
<1>10. 1 \in 1 .. Len(s) /\ 2 \in 1 .. Len(s)
  BY ONLY <1>1, <1>7
<1>11. x \in ToSet(s) /\ s[1] \in ToSet(s)
  BY ONLY <1>1, <1>4, <1>10
<1>12. x \in 0 .. N /\ x \in Nat /\ f[x] \in Nat \ {0} /\ x > 1
  <2>1. x \in Nat /\ x \in 0 .. N /\ f[x] \in Nat \ {0}
    BY ONLY <1>1, <1>9, <1>11
  <2>2. 0 < x
    BY ONLY <1>7, <2>1
  <2>3. 0 + f[0] < x
    BY ONLY <1>3, <1>9, <1>11, <2>2
  <2> QED  BY ONLY <1>3, <2>1, <2>3
<1>13. c \in Nat /\ p \in {0, 1} /\ 3 <= Len(s) + 1
  BY ONLY <1>1, <1>5, <1>6, <1>7, <1>12
<1>14. ASSUME p = 1, NEW y \in ToSet(s), y # x
       PROVE  y # c /\ (y < x \/ c < y)
  <2>1. x < y => x + f[x] < y
    BY <1>9, <1>11
  <2>2. y \in Nat /\ f[x] > n
    BY <1>5, <1>9, <1>14
  <2> QED  BY ONLY <1>6, <1>7, <1>12, <1>14, <2>1, <2>2
<1>15. p = 1 => c # s[1] /\ \A j \in 3 .. Len(s) : c # s[j] /\ Cyc(s[1], c, s[j])
  <2>1. ASSUME p = 1
        PROVE  c # s[1]
    <3>1. s[1] # x
      BY ONLY <1>2, <1>4, <1>10 DEF Distinct
    <3> QED  BY <1>11, <1>14, <2>1, <3>1
  <2>2. ASSUME p = 1, NEW j \in 3 .. Len(s)
        PROVE  c # s[j] /\ Cyc(s[1], c, s[j])
    <3>1. j \in 1 .. Len(s) /\ j # 2 /\ 2 < j
      BY ONLY <1>1, j \in 3 .. Len(s)
    <3>2. s[j] \in ToSet(s) /\ s[j] # x /\ s[1] # x
      BY ONLY <1>1, <1>2, <1>4, <1>10, <3>1 DEF Distinct
    <3>3. Cyc(s[1], x, s[j])
      BY ONLY <1>2, <1>4, <1>10, <3>1 DEF Circular
    <3>4. s[j] # c /\ (s[j] < x \/ c < s[j]) /\ s[1] # c /\ (s[1] < x \/ c < s[1])
      BY <1>11, <1>14, <2>2, <3>2
    <3>5. s[1] \in Nat /\ s[j] \in Nat /\ x < c
      <4>1. s[1] \in Nat /\ s[j] \in Nat
        BY ONLY <1>9, <1>11, <3>2
      <4>2. x < c
        BY ONLY <1>6, <1>7, <1>12
      <4> QED  BY ONLY <4>1, <4>2
    <3> QED  BY ONLY <1>12, <1>13, <3>3, <3>4, <3>5 DEF Cyc
  <2> QED  BY <2>1, <2>2
<1>16. Circular(t) /\ ToSet(t) = Kept(s, 3) \cup (IF p = 1 THEN {c} ELSE {})
  <2>1. s \in Seq(Nat) /\ s # << >> /\ Circular(s) /\ 3 \in {2, 3}
    BY ONLY <1>1, <1>2
  <2> QED  BY ONLY <1>7, <1>13, <1>15, <2>1, CircularChanges
<1>17. ToSet(t) = Taken(ToSet(s), f, x, n)
  <2>1. Kept(s, 3) = ToSet(s) \ {s[2]}
    <3>1. Kept(s, 3) = ToSet(s) \ (IF 3 = 3 THEN {s[2]} ELSE {})
      BY ONLY <1>1, <1>2, <1>13, KeptSet
    <3> QED  BY ONLY <3>1
  <2> QED  BY ONLY <1>4, <1>5, <1>6, <1>16, <2>1 DEF Taken
<1>18. Covered(ToSet(s), f) \subseteq 0 .. N /\ Span(x, f[x]) \subseteq Covered(ToSet(s), f)
  BY ONLY <1>3, <1>11 DEF Covered, Span
<1>19. f[x] > n => x + n \in 0 .. N
  <2>1. f[x] > n => x + n \in Span(x, f[x])
    BY ONLY <1>7, <1>12 DEF Span
  <2> QED  BY ONLY <1>18, <2>1
<1>20. Splitting(ToSet(s), f, x, n, g)
  <2>1. f[x] > n => g[x + n] = f[x] - n
    <3>1. x + n # x
      BY ONLY <1>7, <1>12
    <3> QED  BY ONLY <1>8, <1>19, <3>1
  <2>2. ASSUME NEW y \in ToSet(s) \ {x}
        PROVE  g[y] = f[y]
    <3>1. f[x] > n => y # x + n
      BY <1>5, <1>6, <1>14
    <3>2. y \in 0 .. N /\ y # x
      BY <1>1
    <3> QED  BY ONLY <1>8, <3>1, <3>2
  <2>3. ToSet(s) \in SUBSET Nat /\ n <= f[x]
    BY ONLY <1>1, <1>7, <1>12
  <2> QED  BY <1>3, <1>7, <1>11, <2>1, <2>2, <2>3 DEF Splitting
<1>21. /\ Apart(ToSet(t), g) /\ Covered(ToSet(t), g) = Covered(ToSet(s), f) \ Span(x, n)
       /\ Span(x, n) \subseteq Covered(ToSet(s), f)
  BY ONLY <1>17, <1>20, BlocksSplit
<1>22. g[0] = 1 /\ 0 \in ToSet(t)
  <2>1. 0 \in Taken(ToSet(s), f, x, n)
    BY ONLY <1>3, <1>7 DEF Taken
  <2>2. 0 \in ToSet(s) \ {x}
    BY ONLY <1>3, <1>7
  <2> QED  BY ONLY <1>3, <1>17, <1>20, <2>1, <2>2 DEF Splitting
<1>23. t \in Seq(0 .. N)
  <2>1. \A y \in ToSet(t) : y \in 0 .. N
    BY ONLY <1>1, <1>17, <1>19 DEF Taken
  <2>2. t \in Seq(Nat)
    BY ONLY <1>7 DEF IsChanged
  <2> QED  BY ONLY <2>1, <2>2, SeqOfMembers
<1>24. Covered(ToSet(t), g) \subseteq 0 .. N
  BY ONLY <1>3, <1>21
<1>25. FreeHeap(N, t, g)
  BY ONLY <1>8, <1>16, <1>21, <1>22, <1>23, <1>24 DEF FreeHeap
<1>26. ASSUME NEW u \in 0 .. N, u \notin Covered(ToSet(s), f)
       PROVE  g[u] = f[u]
  <2>1. u # x
    BY ONLY <1>1, <1>11, <1>26
  <2>2. f[x] > n => u # x + n
    <3>1. f[x] > n => x + n \in Span(x, f[x])
      BY ONLY <1>7, <1>12 DEF Span
    <3> QED  BY ONLY <1>18, <1>26, <3>1
  <2> QED  BY ONLY <1>8, <2>1, <2>2, u \in 0 .. N
<1>27. g[x] = n
  BY ONLY <1>8, <1>12
<1> QED  BY <1>4, <1>12, <1>21, <1>25, <1>26, <1>27

(* Turning by the whole list is not turning it.                            *)
LEMMA TurnedWhole ==
  ASSUME NEW s \in Seq(Nat), s # << >>
  PROVE  IsTurned(s, 1, Turned(s, Len(s) + 1))
<1> DEFINE t == Turned(s, Len(s) + 1)
<1>1. Len(s) \in Nat \ {0} /\ \A j \in 1 .. Len(s) : s[j] \in Nat
  BY LenProperties, ElementOfSeq, EmptySeq
<1>2. (Len(s) + 1) - 1 = Len(s) /\ Len(s) \in 0 .. Len(s)
  BY <1>1
<1>3. LET w == SubSeq(s, Len(s) + 1, Len(s)) \o SubSeq(s, 1, Len(s))
      IN  /\ w \in Seq(Nat) /\ Len(w) = Len(s)
          /\ \A j \in 1 .. Len(s) : w[j] = s[IF j <= Len(s) - Len(s) THEN j + Len(s) ELSE j - (Len(s) - Len(s))]
  BY <1>2, RotationProperties
<1>4. t = SubSeq(s, Len(s) + 1, Len(s)) \o SubSeq(s, 1, Len(s))
  BY <1>2 DEF Turned
<1> HIDE DEF t
<1>5. \A j \in 1 .. Len(s) : ~ (j <= Len(s) - Len(s)) /\ j - (Len(s) - Len(s)) = j
  BY <1>1
<1>6. \A j \in 1 .. Len(s) : j <= Len(s) - (1 - 1) /\ j + (1 - 1) = j
  BY <1>1
<1>7. t \in Seq(Nat) /\ Len(t) = Len(s) /\ \A j \in 1 .. Len(s) : t[j] = s[j]
  BY <1>3, <1>4, <1>5
<1> QED  BY <1>6, <1>7 DEF IsTurned, t

(* The lists that slob_free makes.                                         *)
LEMMA ListFreed ==
  ASSUME NEW s \in Seq(Nat), s # << >>, NEW k \in {2, 3}, k <= Len(s) + 1, NEW c \in Nat
  PROVE  /\ IsChanged(s, 0, c, k, <<s[1]>> \o SubSeq(s, k, Len(s)))
         /\ IsChanged(s, 1, c, k, <<s[1], c>> \o SubSeq(s, k, Len(s)))
<1> DEFINE y == SubSeq(s, k, Len(s))
           n == Len(s)
<1>1. n \in Nat \ {0} /\ \A j \in 1 .. n : s[j] \in Nat
  BY LenProperties, ElementOfSeq, EmptySeq
<1>2. y \in Seq(Nat) /\ Len(y) = n - k + 1 /\ \A i \in 1 .. n - k + 1 : y[i] = s[k + i - 1]
  <2>1. k \in 1 .. n + 1 /\ n \in 0 .. n /\ k <= n + 1
    BY <1>1
  <2> QED  BY <2>1, PartProperties
<1>3. s[1] \in Nat
  BY <1>1
<1> HIDE DEF y, n
<1>4. IsChanged(s, 0, c, k, <<s[1]>> \o y)
  <2> DEFINE t == <<s[1]>> \o y
  <2>1. t \in Seq(Nat) /\ Len(t) = Len(y) + 1 /\ t[1] = s[1] /\ \A i \in 2 .. Len(y) + 1 : t[i] = y[i - 1]
    BY <1>2, <1>3, PrependProperties
  <2> HIDE DEF t
  <2>2. Len(t) = n + 2 + 0 - k
    BY <1>1, <1>2, <2>1
  <2>3. ASSUME NEW j \in 2 + 0 .. n + 2 + 0 - k
        PROVE  t[j] = s[j - (2 + 0 - k)]
    <3>1. j \in 2 .. Len(y) + 1 /\ j - 1 \in 1 .. n - k + 1 /\ k + (j - 1) - 1 = j - (2 + 0 - k)
      BY <1>1, <1>2
    <3> QED  BY ONLY <1>2, <2>1, <3>1
  <2>4. IsChanged(s, 0, c, k, t)
    BY ONLY <2>1, <2>2, <2>3 DEF IsChanged, n
  <2> QED  BY ONLY <2>4 DEF t
<1>5. IsChanged(s, 1, c, k, <<s[1], c>> \o y)
  <2> DEFINE t == <<s[1], c>> \o y
  <2>1. <<s[1], c>> \in Seq(Nat) /\ Len(<<s[1], c>>) = 2 /\ <<s[1], c>>[1] = s[1] /\ <<s[1], c>>[2] = c
    BY <1>3
  <2>2. /\ t \in Seq(Nat) /\ Len(t) = 2 + Len(y)
        /\ \A i \in 1 .. 2 + Len(y) : t[i] = IF i <= 2 THEN <<s[1], c>>[i] ELSE y[i - 2]
    BY <1>2, <2>1, ConcatProperties
  <2> HIDE DEF t
  <2>3. Len(t) = n + 2 + 1 - k
    BY <1>1, <1>2, <2>2
  <2>4. t[1] = s[1] /\ t[2] = c
    <3>1. 1 \in 1 .. 2 + Len(y) /\ 2 \in 1 .. 2 + Len(y)
      BY <1>1, <1>2
    <3> QED  BY ONLY <2>1, <2>2, <3>1
  <2>5. ASSUME NEW j \in 2 + 1 .. n + 2 + 1 - k
        PROVE  t[j] = s[j - (2 + 1 - k)]
    <3>1. j \in 1 .. 2 + Len(y) /\ ~ (j <= 2) /\ j - 2 \in 1 .. n - k + 1 /\ k + (j - 2) - 1 = j - (2 + 1 - k)
      BY <1>1, <1>2
    <3> QED  BY ONLY <1>2, <2>2, <3>1
  <2>6. IsChanged(s, 1, c, k, t)
    BY ONLY <2>2, <2>3, <2>4, <2>5 DEF IsChanged, n
  <2> QED  BY ONLY <2>6 DEF t
<1> QED  BY <1>4, <1>5 DEF y, n

(* The lists that slob_alloc makes of the list from cur on.                *)
LEMMA ListTaken ==
  ASSUME NEW a \in Seq(Nat), Len(a) > 1, NEW s, IsTurned(a, Len(a), s), NEW c \in Nat
  PROVE  /\ Len(s) > 1 /\ s[2] = a[1]
         /\ IsChanged(s, 0, c, 3, <<a[Len(a)]>> \o << >> \o SubSeq(a, 2, Len(a) - 1))
         /\ IsChanged(s, 1, c, 3, <<a[Len(a)]>> \o <<c>> \o SubSeq(a, 2, Len(a) - 1))
<1> DEFINE y == SubSeq(a, 2, Len(a) - 1)
           n == Len(a)
<1>1. n \in Nat \ {0} /\ n > 1 /\ \A j \in 1 .. n : a[j] \in Nat
  BY LenProperties, ElementOfSeq
<1>2. y \in Seq(Nat) /\ Len(y) = n - 2 /\ \A i \in 1 .. n - 2 : y[i] = a[i + 1]
  <2>1. 2 \in 1 .. n + 1 /\ n - 1 \in 0 .. n /\ 2 <= (n - 1) + 1 /\ (n - 1) - 2 + 1 = n - 2
    BY <1>1
  <2>2. y \in Seq(Nat) /\ Len(y) = (n - 1) - 2 + 1 /\ \A i \in 1 .. (n - 1) - 2 + 1 : y[i] = a[2 + i - 1]
    BY <2>1, PartProperties
  <2> HIDE DEF y, n
  <2>3. \A i \in 1 .. n - 2 : 2 + i - 1 = i + 1
    BY <1>1
  <2> QED  BY <2>1, <2>2, <2>3
<1>3. Len(s) = n /\ s[1] = a[n] /\ \A j \in 2 .. n : s[j] = a[j - 1]
  <2>1. /\ s \in Seq(Nat) /\ Len(s) = n
        /\ \A j \in 1 .. n : s[j] = a[IF j <= n - (n - 1) THEN j + (n - 1) ELSE j - (n - (n - 1))]
    BY DEF IsTurned
  <2> HIDE DEF n
  <2>2. 1 \in 1 .. n /\ 1 <= n - (n - 1) /\ 1 + (n - 1) = n
    BY <1>1
  <2>3. \A j \in 2 .. n : j \in 1 .. n /\ ~ (j <= n - (n - 1)) /\ j - (n - (n - 1)) = j - 1
    BY <1>1
  <2> QED  BY <2>1, <2>2, <2>3
<1>4. a[n] \in Nat
  BY <1>1
<1>5. s[2] = a[1]
  BY <1>1, <1>3
<1> HIDE DEF y, n
<1>6. IsChanged(s, 0, c, 3, <<a[n]>> \o << >> \o y)
  <2> DEFINE t == <<a[n]>> \o y
  <2>1. t \in Seq(Nat) /\ Len(t) = Len(y) + 1 /\ t[1] = a[n] /\ \A i \in 2 .. Len(y) + 1 : t[i] = y[i - 1]
    BY <1>2, <1>4, PrependProperties
  <2>2. <<a[n]>> \o << >> = <<a[n]>>
    BY <1>4
  <2> HIDE DEF t
  <2>3. Len(t) = Len(s) + 2 + 0 - 3
    BY <1>1, <1>2, <1>3, <2>1
  <2>4. ASSUME NEW j \in 2 + 0 .. Len(s) + 2 + 0 - 3
        PROVE  t[j] = s[j - (2 + 0 - 3)]
    <3>1. j \in 2 .. Len(y) + 1 /\ j - 1 \in 1 .. n - 2 /\ j + 1 \in 2 .. n /\ (j - 1) + 1 = j /\ (j + 1) - 1 = j
          /\ j - (2 + 0 - 3) = j + 1
      BY <1>1, <1>2, <1>3
    <3>2. t[j] = y[j - 1] /\ y[j - 1] = a[j]
      BY ONLY <1>2, <2>1, <3>1
    <3>3. s[j + 1] = a[j]
      BY ONLY <1>3, <3>1
    <3> QED  BY ONLY <3>1, <3>2, <3>3
  <2>5. IsChanged(s, 0, c, 3, t)
    BY <1>3, <2>1, <2>3, <2>4 DEF IsChanged
  <2> QED  BY <2>2, <2>5 DEF t
<1>7. IsChanged(s, 1, c, 3, <<a[n]>> \o <<c>> \o y)
  <2> DEFINE x == <<a[n]>> \o <<c>>
             t == x \o y
  <2>1. x \in Seq(Nat) /\ Len(x) = 2 /\ x[1] = a[n] /\ x[2] = c
    <3>1. <<c>> \in Seq(Nat) /\ Len(<<c>>) = 1 /\ <<c>>[1] = c
      OBVIOUS
    <3>2. x \in Seq(Nat) /\ Len(x) = Len(<<c>>) + 1 /\ x[1] = a[n] /\ \A i \in 2 .. Len(<<c>>) + 1 : x[i] = <<c>>[i - 1]
      BY <1>4, <3>1, PrependProperties
    <3>3. 2 \in 2 .. Len(<<c>>) + 1 /\ 2 - 1 = 1
      BY <3>1
    <3> HIDE DEF x
    <3> QED  BY <3>1, <3>2, <3>3
  <2> HIDE DEF x
  <2>2. t \in Seq(Nat) /\ Len(t) = 2 + Len(y) /\ \A i \in 1 .. 2 + Len(y) : t[i] = IF i <= 2 THEN x[i] ELSE y[i - 2]
    <3>1. y \in Seq(Nat) /\ x \in Seq(Nat)
      BY <1>2, <2>1
    <3>2. /\ t \in Seq(Nat) /\ Len(t) = Len(x) + Len(y)
          /\ \A i \in 1 .. Len(x) + Len(y) : t[i] = IF i <= Len(x) THEN x[i] ELSE y[i - Len(x)]
      BY ONLY <3>1, ConcatProperties
    <3> HIDE DEF t
    <3>3. Len(x) = 2
      BY <2>1
    <3> QED  BY ONLY <3>2, <3>3
  <2> HIDE DEF t
  <2>4. Len(t) = Len(s) + 2 + 1 - 3
    BY <1>1, <1>2, <1>3, <2>2
  <2>5. t[1] = a[n] /\ t[2] = c
    <3>1. 1 \in 1 .. 2 + Len(y) /\ 2 \in 1 .. 2 + Len(y)
      BY <1>1, <1>2
    <3> QED  BY ONLY <2>1, <2>2, <3>1
  <2>6. ASSUME NEW j \in 2 + 1 .. Len(s) + 2 + 1 - 3
        PROVE  t[j] = s[j - (2 + 1 - 3)]
    <3>1. /\ j \in 1 .. 2 + Len(y) /\ ~ (j <= 2) /\ j - 2 \in 1 .. n - 2 /\ j \in 2 .. n /\ (j - 2) + 1 = j - 1
          /\ j - (2 + 1 - 3) = j
      BY <1>1, <1>2, <1>3
    <3>2. t[j] = y[j - 2] /\ y[j - 2] = a[j - 1]
      BY ONLY <1>2, <2>2, <3>1
    <3>3. s[j] = a[j - 1]
      BY ONLY <1>3, <3>1
    <3> QED  BY ONLY <3>1, <3>2, <3>3
  <2>7. IsChanged(s, 1, c, 3, t)
    BY <1>3, <2>2, <2>4, <2>5, <2>6 DEF IsChanged
  <2> QED  BY <2>7 DEF t, x
<1> QED  BY <1>1, <1>3, <1>5, <1>6, <1>7 DEF y, n

(* What slob_free makes of the list from cur on and of the lengths.        *)
FreedSize(s, f, b, n) == IF JoinsNext(s, b, n) THEN n + f[s[2]] ELSE n
FreedList(s, f, b, n) ==
  IF JoinsCur(s, f, b) THEN <<s[1]>> \o SubSeq(s, IF JoinsNext(s, b, n) THEN 3 ELSE 2, Len(s))
  ELSE <<s[1], b>> \o SubSeq(s, IF JoinsNext(s, b, n) THEN 3 ELSE 2, Len(s))
ApartUnits(N, s, f, b, n) ==
  [u \in 0 .. N |-> IF u = b THEN FreedSize(s, f, b, n) ELSE IF JoinsNext(s, b, n) /\ u = s[2] THEN 0 ELSE f[u]]
FreedUnits(N, s, f, b, n) ==
  IF JoinsCur(s, f, b)
  THEN [ApartUnits(N, s, f, b, n) EXCEPT ![s[1]] = @ + FreedSize(s, f, b, n), ![b] = 0]
  ELSE ApartUnits(N, s, f, b, n)

LEMMA FreedIsFreed ==
  ASSUME NEW N \in Nat, NEW s, NEW f, FreeHeap(N, s, f),
         NEW b \in Nat, b > 1, NEW n \in Nat \ {0}, b + n - 1 <= N, Clear(s, f, b, n), Behind(s, b)
  PROVE  IsFreed(N, s, f, b, n, FreedList(s, f, b, n), FreedUnits(N, s, f, b, n))
<1>1. /\ s \in Seq(Nat) /\ s # << >> /\ ToSet(s) \subseteq 0 .. N /\ Len(s) \in Nat \ {0}
      /\ \A j \in 1 .. Len(s) : s[j] \in ToSet(s)
      /\ ToSet(s) \subseteq Covered(ToSet(s), f)
  BY HeapFacts
<1>2. Circular(s) /\ Distinct(s) /\ DOMAIN s = 1 .. Len(s)
  BY <1>1, LenProperties DEF FreeHeap, Circular
<1>3. /\ 0 \in ToSet(s) /\ Apart(ToSet(s), f) /\ f[0] = 1 /\ Covered(ToSet(s), f) \subseteq 0 .. N
      /\ f \in [0 .. N -> Nat]
  BY DEF FreeHeap
<1>4. PICK k : k = IF JoinsNext(s, b, n) THEN 3 ELSE 2
  OBVIOUS
<1>5. k \in {2, 3} /\ k <= Len(s) + 1
  BY ONLY <1>1, <1>4 DEF JoinsNext
<1>6. IsChanged(s, IF JoinsCur(s, f, b) THEN 0 ELSE 1, b, IF JoinsNext(s, b, n) THEN 3 ELSE 2, FreedList(s, f, b, n))
  <2>1. /\ IsChanged(s, 0, b, k, <<s[1]>> \o SubSeq(s, k, Len(s)))
        /\ IsChanged(s, 1, b, k, <<s[1], b>> \o SubSeq(s, k, Len(s)))
    BY ONLY <1>1, <1>5, b \in Nat, ListFreed
  <2>2. CASE JoinsCur(s, f, b)
    BY ONLY <1>4, <2>1, <2>2 DEF FreedList
  <2>3. CASE ~ JoinsCur(s, f, b)
    BY ONLY <1>4, <2>1, <2>3 DEF FreedList
  <2> QED  BY ONLY <2>2, <2>3
<1>7. PICK x : x = s[1]
  OBVIOUS
<1>8. PICK y : y = s[2]
  OBVIOUS
<1>9. PICK size : size = FreedSize(s, f, b, n)
  OBVIOUS
<1>10. PICK a : a = ApartUnits(N, s, f, b, n)
  OBVIOUS
<1>11. PICK g : g = FreedUnits(N, s, f, b, n)
  OBVIOUS
<1>12. b \in 0 .. N /\ b \notin ToSet(s)
  <2>1. b \in b .. b + n - 1
    OBVIOUS
  <2>2. b \notin Covered(ToSet(s), f)
    BY ONLY <2>1, Clear(s, f, b, n) DEF Clear
  <2>3. b \in 0 .. N
    OBVIOUS
  <2> QED  BY ONLY <1>1, <2>2, <2>3
<1>13. /\ x \in ToSet(s) /\ x \in 0 .. N /\ x # b
       /\ JoinsNext(s, b, n) => y \in ToSet(s) /\ y \in 0 .. N /\ y # b /\ y # x /\ y = b + n
  <2>1. 1 \in 1 .. Len(s) /\ (JoinsNext(s, b, n) => 2 \in 1 .. Len(s) /\ y = b + n)
    BY ONLY <1>1, <1>8 DEF JoinsNext
  <2>2. x \in ToSet(s) /\ (JoinsNext(s, b, n) => y \in ToSet(s) /\ y # x)
    BY ONLY <1>1, <1>2, <1>7, <1>8, <2>1 DEF Distinct
  <2> QED  BY ONLY <1>1, <1>12, <2>1, <2>2
<1>14. size = (IF JoinsNext(s, b, n) THEN n + f[y] ELSE n) /\ size \in Nat
  <2>1. size = IF JoinsNext(s, b, n) THEN n + f[y] ELSE n
    BY ONLY <1>8, <1>9 DEF FreedSize
  <2> QED  BY ONLY <1>3, <1>13, <2>1, n \in Nat \ {0}
<1>15. /\ a \in [0 .. N -> Nat]
       /\ \A u \in 0 .. N : a[u] = IF u = b THEN size ELSE IF JoinsNext(s, b, n) /\ u = y THEN 0 ELSE f[u]
  <2>1. a = [u \in 0 .. N |-> IF u = b THEN size ELSE IF JoinsNext(s, b, n) /\ u = y THEN 0 ELSE f[u]]
    BY ONLY <1>8, <1>9, <1>10 DEF ApartUnits
  <2> QED  BY ONLY <1>3, <1>14, <2>1
<1>16. g = IF JoinsCur(s, f, b) THEN [a EXCEPT ![x] = @ + size, ![b] = 0] ELSE a
  BY ONLY <1>7, <1>9, <1>10, <1>11 DEF FreedUnits
<1>17. /\ g \in [0 .. N -> Nat]
       /\ \A u \in 0 .. N : g[u] = IF JoinsCur(s, f, b) /\ u = x THEN a[x] + size
                                   ELSE IF JoinsCur(s, f, b) /\ u = b THEN 0 ELSE a[u]
  <2>1. a[x] + size \in Nat
    BY ONLY <1>13, <1>14, <1>15
  <2>2. CASE JoinsCur(s, f, b)
    <3>1. g = [[a EXCEPT ![x] = @ + size] EXCEPT ![b] = 0]
      BY ONLY <1>16, <2>2
    <3>2. PICK h : h = [a EXCEPT ![x] = @ + size]
      OBVIOUS
    <3>3. h \in [0 .. N -> Nat] /\ \A u \in 0 .. N : h[u] = IF u = x THEN a[x] + size ELSE a[u]
      BY ONLY <1>13, <1>15, <2>1, <3>2
    <3>4. g = [h EXCEPT ![b] = 0]
      BY ONLY <3>1, <3>2
    <3>5. g \in [0 .. N -> Nat] /\ \A u \in 0 .. N : g[u] = IF u = b THEN 0 ELSE h[u]
      BY ONLY <1>12, <3>3, <3>4
    <3> QED  BY ONLY <1>13, <2>2, <3>3, <3>5
  <2>3. CASE ~ JoinsCur(s, f, b)
    BY ONLY <1>15, <1>16, <2>3
  <2> QED  BY ONLY <2>2, <2>3
<1>18. a[x] = f[x] /\ a[b] = size
  BY ONLY <1>12, <1>13, <1>15
<1>19. PICK bottom : bottom = Bottom(s, f, b)
  OBVIOUS
<1>20. PICK top : top = Top(s, f, b, n)
  OBVIOUS
<1>21. /\ bottom = IF JoinsCur(s, f, b) THEN x ELSE b
       /\ JoinsCur(s, f, b) => x + f[x] = b
       /\ top = IF JoinsNext(s, b, n) THEN y + f[y] ELSE b + n
  BY ONLY <1>7, <1>8, <1>19, <1>20 DEF Bottom, Top, JoinsCur
<1>22. f[x] \in Nat \ {0} /\ (JoinsNext(s, b, n) => f[y] \in Nat \ {0})
  BY ONLY <1>3, <1>13 DEF Apart
<1>23. g[bottom] = top - bottom
  <2>1. top = b + size
    BY ONLY <1>13, <1>14, <1>21, <1>22, b \in Nat, n \in Nat \ {0}
  <2>2. CASE JoinsCur(s, f, b)
    <3>1. g[x] = f[x] + size
      BY ONLY <1>13, <1>17, <1>18, <2>2
    <3> QED  BY ONLY <1>13, <1>14, <1>21, <1>22, <2>1, <2>2, <3>1
  <2>3. CASE ~ JoinsCur(s, f, b)
    <3>1. g[b] = size
      BY ONLY <1>12, <1>17, <1>18, <2>3
    <3> QED  BY ONLY <1>14, <1>21, <2>1, <2>3, <3>1, b \in Nat
  <2> QED  BY ONLY <2>2, <2>3
<1>24. ASSUME NEW u \in 0 .. N, u # b, JoinsCur(s, f, b) => u # x, JoinsNext(s, b, n) => u # y
       PROVE  g[u] = f[u]
  BY ONLY <1>15, <1>17, <1>24, u \in 0 .. N
<1>25. Joined(ToSet(s), f, Swallowed(s, f, b, n), bottom, top, g)
  <2>1. ASSUME NEW u \in ToSet(s) \ Swallowed(s, f, b, n)
        PROVE  g[u] = f[u]
    <3>1. u \in 0 .. N /\ u # b
      BY <1>1, <1>12
    <3>2. (JoinsCur(s, f, b) => u # x) /\ (JoinsNext(s, b, n) => u # y)
      BY <1>7, <1>8 DEF Swallowed
    <3> QED  BY <1>24, <3>1, <3>2
  <2> QED  BY <1>23, <2>1 DEF Joined
<1>26. ASSUME NEW u \in 0 .. N, u \notin bottom .. top - 1
       PROVE  g[u] = f[u]
  <2>1. bottom \in Nat /\ top \in Nat /\ bottom <= b /\ b < top
    BY ONLY <1>13, <1>21, <1>22, b \in Nat, n \in Nat \ {0}
  <2>2. u # b /\ u # bottom
    BY <1>26, <2>1
  <2>3. JoinsNext(s, b, n) => y \in bottom .. top - 1
    BY ONLY <1>13, <1>21, <1>22, <2>1, b \in Nat, n \in Nat \ {0}
  <2>4. JoinsCur(s, f, b) => u # x
    BY ONLY <1>21, <2>2
  <2>5. JoinsNext(s, b, n) => u # y
    BY ONLY <1>26, <2>3
  <2> QED  BY <1>24, <2>2, <2>4, <2>5
<1>27. /\ g \in [0 .. N -> Nat]
       /\ Joined(ToSet(s), f, Swallowed(s, f, b, n), Bottom(s, f, b), Top(s, f, b, n), g)
       /\ \A u \in 0 .. N : u \notin Bottom(s, f, b) .. Top(s, f, b, n) - 1 => g[u] = f[u]
  BY <1>17, <1>19, <1>20, <1>25, <1>26
<1> QED  BY ONLY <1>6, <1>11, <1>27 DEF IsFreed

(* What slob_alloc makes of the list from cur on and of the lengths.       *)
TakenList(a, f, n) ==
  <<a[Len(a)]>> \o (IF f[a[1]] - n = 0 THEN << >> ELSE <<a[1] + n>>) \o SubSeq(a, 2, Len(a) - 1)
TakenUnits(N, a, f, n) ==
  [u \in 0 .. N |-> IF u = a[1] THEN n ELSE IF u = a[1] + n /\ f[a[1]] - n > 0 THEN f[a[1]] - n ELSE f[u]]

LEMMA TakenHeap ==
  ASSUME NEW N \in Nat, NEW a, NEW f, FreeHeap(N, a, f),
         NEW n \in Nat \ {0}, a[1] # 0, f[a[1]] >= n,
         NEW t, t = TakenList(a, f, n), NEW g, g = TakenUnits(N, a, f, n)
  PROVE  /\ FreeHeap(N, t, g)
         /\ Covered(ToSet(t), g) = Covered(ToSet(a), f) \ Span(a[1], n)
         /\ Span(a[1], n) \subseteq Covered(ToSet(a), f)
         /\ a[1] > 1 /\ a[1] \in 0 .. N /\ g[a[1]] = n
         /\ \A u \in 0 .. N : u \notin Covered(ToSet(a), f) => g[u] = f[u]
<1>1. /\ a \in Seq(Nat) /\ a # << >> /\ Len(a) \in Nat \ {0} /\ ToSet(a) \subseteq 0 .. N
      /\ \A j \in 1 .. Len(a) : a[j] \in ToSet(a)
  BY HeapFacts
<1>2. f \in [0 .. N -> Nat] /\ 0 \in ToSet(a)
  BY DEF FreeHeap
<1>3. DOMAIN a = 1 .. Len(a)
  BY <1>1, LenProperties
<1>4. Len(a) > 1
  <2>1. PICK j \in 1 .. Len(a) : a[j] = 0
    BY ONLY <1>2, <1>3 DEF ToSet
  <2>2. j # 1
    BY <2>1
  <2> QED  BY ONLY <1>1, <2>2, j \in 1 .. Len(a)
<1>5. PICK s : s = Turned(a, Len(a))
  OBVIOUS
<1>6. IsTurned(a, Len(a), s)
  <2>1. Len(a) \in 1 .. Len(a)
    BY ONLY <1>1
  <2> QED  BY ONLY <1>1, <1>5, <2>1, TurnedProperties
<1>7. FreeHeap(N, s, f) /\ ToSet(s) = ToSet(a)
  <2>1. Len(a) \in 1 .. Len(a)
    BY ONLY <1>1
  <2> QED  BY ONLY <1>6, <2>1, N \in Nat, FreeHeap(N, a, f), HeapTurns
<1>8. PICK x : x = a[1]
  OBVIOUS
<1>9. x \in 0 .. N /\ x \in Nat /\ f[x] \in Nat
  <2>1. 1 \in 1 .. Len(a)
    BY ONLY <1>1
  <2>2. x \in 0 .. N
    BY ONLY <1>1, <1>8, <2>1
  <2> QED  BY ONLY <1>2, <2>2
<1>10. PICK c : c = x + n
  OBVIOUS
<1>11. c \in Nat
  BY <1>9, <1>10
<1>12. /\ Len(s) > 1 /\ s[2] = x
       /\ IsChanged(s, 0, c, 3, <<a[Len(a)]>> \o << >> \o SubSeq(a, 2, Len(a) - 1))
       /\ IsChanged(s, 1, c, 3, <<a[Len(a)]>> \o <<c>> \o SubSeq(a, 2, Len(a) - 1))
  BY ONLY <1>1, <1>4, <1>6, <1>8, <1>11, ListTaken
<1>13. x # 0 /\ f[x] >= n
  BY <1>8
<1>14. IsChanged(s, IF f[s[2]] > n THEN 1 ELSE 0, s[2] + n, 3, t)
  <2>1. t = <<a[Len(a)]>> \o (IF f[x] - n = 0 THEN << >> ELSE <<c>>) \o SubSeq(a, 2, Len(a) - 1)
    BY ONLY <1>8, <1>10, t = TakenList(a, f, n) DEF TakenList
  <2>2. CASE f[x] > n
    <3>1. ~ (f[x] - n = 0)
      BY ONLY <1>9, <2>2, n \in Nat \ {0}
    <3> QED  BY ONLY <1>10, <1>12, <2>1, <2>2, <3>1
  <2>3. CASE ~ (f[x] > n)
    <3>1. f[x] - n = 0
      BY ONLY <1>9, <1>13, <2>3, n \in Nat \ {0}
    <3> QED  BY ONLY <1>10, <1>12, <2>1, <2>3, <3>1
  <2> QED  BY ONLY <2>2, <2>3
<1>15. /\ g \in [0 .. N -> Nat]
       /\ \A u \in 0 .. N : g[u] = IF u = x THEN n ELSE IF u = x + n /\ f[x] > n THEN f[x] - n ELSE f[u]
  <2>1. g = [u \in 0 .. N |-> IF u = x THEN n ELSE IF u = x + n /\ f[x] - n > 0 THEN f[x] - n ELSE f[u]]
    BY ONLY <1>8, g = TakenUnits(N, a, f, n) DEF TakenUnits
  <2>2. f[x] - n > 0 <=> f[x] > n
    BY ONLY <1>9, n \in Nat \ {0}
  <2>3. f[x] > n => f[x] - n \in Nat
    BY ONLY <1>9, n \in Nat \ {0}
  <2>4. n \in Nat
    OBVIOUS
  <2> QED  BY ONLY <1>2, <2>1, <2>2, <2>3, <2>4
<1>16. IsTaken(N, s, f, n, t, g)
  BY ONLY <1>12, <1>13, <1>14, <1>15, n \in Nat \ {0} DEF IsTaken
<1>17. /\ FreeHeap(N, t, g)
       /\ Covered(ToSet(t), g) = Covered(ToSet(s), f) \ Span(s[2], n)
       /\ Span(s[2], n) \subseteq Covered(ToSet(s), f)
       /\ s[2] > 1 /\ s[2] \in 0 .. N /\ g[s[2]] = n
       /\ \A u \in 0 .. N : u \notin Covered(ToSet(s), f) => g[u] = f[u]
  BY ONLY <1>7, <1>16, N \in Nat, HeapTakes
<1> QED  BY ONLY <1>7, <1>8, <1>12, <1>17
=============================================================================
