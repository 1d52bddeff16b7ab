-------------------------------- MODULE Lemmas --------------------------------
(* Lemmas for the proofs of several modules: on semaphores, sequences, least     *)
(* numbers, recursion, remainders, the places of a ring, and free lists.         *)
EXTENDS Integers, Semaphore, SequencesExt, SequenceTheorems, FiniteSetTheorems,
  WellFoundedInduction, TLAPS

\* The parts of a sequence before and behind its i-th element.
LEMMA PartsAt ==
  ASSUME NEW S, NEW s \in Seq(S), NEW i \in 1..Len(s)
  PROVE  /\ Len(s) \in Nat /\ i \in Nat
         /\ SubSeq(s, 1, i - 1) \in Seq(S) /\ Len(SubSeq(s, 1, i - 1)) = i - 1
         /\ \A k \in 1..i - 1 : SubSeq(s, 1, i - 1)[k] = s[k]
         /\ SubSeq(s, i + 1, Len(s)) \in Seq(S) /\ Len(SubSeq(s, i + 1, Len(s))) = Len(s) - i
         /\ \A k \in 1..Len(s) - i : SubSeq(s, i + 1, Len(s))[k] = s[k + i]
<1> DEFINE a == SubSeq(s, 1, i - 1)
           b == SubSeq(s, i + 1, Len(s))
<1>0. Len(s) \in Nat /\ i \in Nat /\ 1 <= i /\ i <= Len(s)
  BY LenProperties
<1>1. \A k \in 1..Len(s) : s[k] \in S
  BY ElementOfSeq
<1>2. /\ a \in Seq(S) /\ Len(a) = i - 1
      /\ \A k \in 1..i - 1 : a[k] = s[k]
  <2>1. \A k \in 1..i - 1 : s[k] \in S
    BY <1>0, <1>1
  <2>2. /\ a \in Seq(S) /\ Len(a) = IF 1 <= i - 1 THEN (i - 1) - 1 + 1 ELSE 0
        /\ \A k \in 1..(i - 1) - 1 + 1 : a[k] = s[1 + k - 1]
    BY <1>0, <2>1, SubSeqProperties
  <2> HIDE DEF a
  <2>3. QED BY <1>0, <2>2
<1>3. /\ b \in Seq(S) /\ Len(b) = Len(s) - i
      /\ \A k \in 1..Len(s) - i : b[k] = s[k + i]
  <2>1. \A k \in i + 1..Len(s) : s[k] \in S
    BY <1>0, <1>1
  <2>2. /\ b \in Seq(S) /\ Len(b) = IF i + 1 <= Len(s) THEN Len(s) - (i + 1) + 1 ELSE 0
        /\ \A k \in 1..Len(s) - (i + 1) + 1 : b[k] = s[(i + 1) + k - 1]
    BY <1>0, <2>1, SubSeqProperties
  <2> HIDE DEF b
  <2>3. QED BY <1>0, <2>2
<1>4. QED BY <1>0, <1>2, <1>3

\* Two sequences, one behind the other.
LEMMA ConcatAt ==
  ASSUME NEW S, NEW a \in Seq(S), NEW b \in Seq(S)
  PROVE  /\ a \o b \in Seq(S) /\ Len(a \o b) = Len(a) + Len(b)
         /\ \A k \in 1..Len(a) : (a \o b)[k] = a[k]
         /\ \A k \in 1..Len(b) : (a \o b)[Len(a) + k] = b[k]
<1>1. /\ a \o b \in Seq(S) /\ Len(a \o b) = Len(a) + Len(b)
      /\ \A k \in 1..Len(a) + Len(b) : (a \o b)[k] = IF k <= Len(a) THEN a[k] ELSE b[k - Len(a)]
  BY ConcatProperties
<1> DEFINE r == a \o b
<1>2. PICK m \in Nat, n \in Nat : m = Len(a) /\ n = Len(b)
  BY LenProperties
<1>3. /\ r \in Seq(S) /\ Len(r) = m + n
      /\ \A k \in 1..m + n : r[k] = IF k <= m THEN a[k] ELSE b[k - m]
  BY <1>1, <1>2
<1> HIDE DEF r
<1>4. \A k \in 1..m : r[k] = a[k]
  BY <1>3
<1>5. ASSUME NEW k \in 1..n PROVE r[m + k] = b[k]
  <2>1. m + k \in 1..m + n /\ ~(m + k <= m) /\ (m + k) - m = k
    OBVIOUS
  <2>2. QED BY <1>3, <2>1
<1>6. QED BY <1>2, <1>3, <1>4, <1>5 DEF r

\* A sequence without its i-th element.
LEMMA RemoveAtAt ==
  ASSUME NEW S, NEW s \in Seq(S), NEW i \in 1..Len(s)
  PROVE  /\ RemoveAt(s, i) \in Seq(S)
         /\ Len(RemoveAt(s, i)) = Len(s) - 1
         /\ \A k \in 1..Len(s) - 1 : RemoveAt(s, i)[k] = s[IF k < i THEN k ELSE k + 1]
<1> DEFINE a == SubSeq(s, 1, i - 1)
           b == SubSeq(s, i + 1, Len(s))
           r == a \o b
<1>1. PICK l \in Nat, m \in Nat, n \in Nat :
        l = Len(s) /\ i \in Nat /\ m = i - 1 /\ n = l - i /\ m + n = l - 1
  BY LenProperties
<1>2. /\ a \in Seq(S) /\ Len(a) = m /\ \A k \in 1..m : a[k] = s[k]
      /\ b \in Seq(S) /\ Len(b) = n /\ \A k \in 1..n : b[k] = s[k + i]
  <2>1. /\ a \in Seq(S) /\ Len(a) = i - 1 /\ \A k \in 1..i - 1 : a[k] = s[k]
        /\ b \in Seq(S) /\ Len(b) = Len(s) - i /\ \A k \in 1..Len(s) - i : b[k] = s[k + i]
    BY PartsAt
  <2> HIDE DEF a, b
  <2>2. QED BY <1>1, <2>1
<1> HIDE DEF a, b
<1>3. /\ r \in Seq(S) /\ Len(r) = m + n
      /\ \A k \in 1..m : r[k] = a[k]
      /\ \A k \in 1..n : r[m + k] = b[k]
  <2>1. a \in Seq(S) /\ b \in Seq(S)
    BY <1>2
  <2>2. /\ r \in Seq(S) /\ Len(r) = Len(a) + Len(b)
        /\ \A k \in 1..Len(a) : r[k] = a[k]
        /\ \A k \in 1..Len(b) : r[Len(a) + k] = b[k]
    BY <2>1, ConcatAt
  <2> HIDE DEF r
  <2>3. QED BY <1>2, <2>2
<1> HIDE DEF r
<1>4. ASSUME NEW k \in 1..m + n PROVE r[k] = s[IF k < i THEN k ELSE k + 1]
  <2>1. CASE k < i
    BY <1>1, <1>2, <1>3, <2>1
  <2>2. CASE k >= i
    <3>1. PICK j \in 1..n : k = m + j /\ j + i = k + 1
      <4>1. k - m \in 1..n /\ k = m + (k - m) /\ (k - m) + i = k + 1
        BY <1>1, <2>2
      <4>2. QED BY <4>1
    <3>2. r[k] = s[k + 1]
      BY <1>2, <1>3, <3>1
    <3>3. QED BY <1>1, <2>2, <3>2
  <2>3. QED BY <1>1, <2>1, <2>2
<1>5. RemoveAt(s, i) = r
  BY DEF RemoveAt, r, a, b
<1>6. QED BY <1>1, <1>3, <1>4, <1>5

\* A ring that is cut at its i-th element, without it.
LEMMA RotateAt ==
  ASSUME NEW S, NEW s \in Seq(S), NEW i \in 1..Len(s)
  PROVE  LET r == SubSeq(s, i + 1, Len(s)) \o SubSeq(s, 1, i - 1) IN
         /\ r \in Seq(S) /\ Len(r) = Len(s) - 1
         /\ \A k \in 1..Len(s) - 1 : r[k] = s[IF k <= Len(s) - i THEN k + i ELSE k - (Len(s) - i)]
<1> DEFINE a == SubSeq(s, 1, i - 1)
           b == SubSeq(s, i + 1, Len(s))
           r == b \o a
<1>1. PICK l \in Nat, m \in Nat, n \in Nat :
        l = Len(s) /\ i \in Nat /\ m = i - 1 /\ n = l - i /\ n + m = l - 1
  BY LenProperties
<1>2. /\ a \in Seq(S) /\ Len(a) = m /\ \A k \in 1..m : a[k] = s[k]
      /\ b \in Seq(S) /\ Len(b) = n /\ \A k \in 1..n : b[k] = s[k + i]
  <2>1. /\ a \in Seq(S) /\ Len(a) = i - 1 /\ \A k \in 1..i - 1 : a[k] = s[k]
        /\ b \in Seq(S) /\ Len(b) = Len(s) - i /\ \A k \in 1..Len(s) - i : b[k] = s[k + i]
    BY PartsAt
  <2> HIDE DEF a, b
  <2>2. QED BY <1>1, <2>1
<1> HIDE DEF a, b
<1>3. /\ r \in Seq(S) /\ Len(r) = n + m
      /\ \A k \in 1..n : r[k] = b[k]
      /\ \A k \in 1..m : r[n + k] = a[k]
  <2>1. b \in Seq(S) /\ a \in Seq(S)
    BY <1>2
  <2>2. /\ r \in Seq(S) /\ Len(r) = Len(b) + Len(a)
        /\ \A k \in 1..Len(b) : r[k] = b[k]
        /\ \A k \in 1..Len(a) : r[Len(b) + k] = a[k]
    BY <2>1, ConcatAt
  <2> HIDE DEF r
  <2>3. QED BY <1>2, <2>2
<1> HIDE DEF r
<1>4. ASSUME NEW k \in 1..n + m PROVE r[k] = s[IF k <= n THEN k + i ELSE k - n]
  <2>1. CASE k <= n
    BY <1>1, <1>2, <1>3, <2>1
  <2>2. CASE k > n
    <3>1. PICK j \in 1..m : k = n + j /\ j = k - n
      <4>1. k - n \in 1..m /\ k = n + (k - n)
        BY <1>1, <2>2
      <4>2. QED BY <4>1
    <3>2. r[k] = s[k - n]
      BY <1>2, <1>3, <3>1
    <3>3. QED BY <1>1, <2>2, <3>2
  <2>3. QED BY <1>1, <2>1, <2>2
<1>5. /\ r \in Seq(S) /\ Len(r) = Len(s) - 1
      /\ \A k \in 1..Len(s) - 1 : r[k] = s[IF k <= Len(s) - i THEN k + i ELSE k - (Len(s) - i)]
  BY <1>1, <1>3, <1>4
<1>6. QED BY <1>5 DEF r, a, b

\* no element is there twice
Once(l) == \A j, k \in 1..Len(l) : l[j] = l[k] => j = k

\* r has every element of l but the i-th, and has it once
Loses(r, l, i, S) ==
  /\ r \in Seq(S) /\ Once(r)
  /\ \A x : (\E j \in 1..Len(r) : r[j] = x) <=> (x # l[i] /\ \E j \in 1..Len(l) : l[j] = x)

\* r has what l has, except at i, p says where
Drops(r, D, l, E, i, p) ==
  /\ p \in [D -> E] /\ i \in E
  /\ \A j, k \in E : l[j] = l[k] => j = k
  /\ \A k \in D : r[k] = l[p[k]] /\ p[k] # i
  /\ \A j, k \in D : p[j] = p[k] => j = k
  /\ \A j \in E : j # i => \E k \in D : p[k] = j

\* Such an r has every element of l but that one, and has it once.
LEMMA DropsLoses ==
  ASSUME NEW S, NEW r \in Seq(S), NEW l, NEW i, NEW p,
         Drops(r, 1..Len(r), l, 1..Len(l), i, p)
  PROVE  Loses(r, l, i, S)
<1> DEFINE D == 1..Len(r)
           E == 1..Len(l)
<1>0. Drops(r, D, l, E, i, p)
  OBVIOUS
<1> HIDE DEF D, E
<1> USE DEF Drops
<1>1. ASSUME NEW j \in D, NEW k \in D, r[j] = r[k] PROVE j = k
  <2>1. l[p[j]] = l[p[k]] /\ p[j] \in E /\ p[k] \in E
    BY <1>0, <1>1
  <2>2. QED BY <1>0, <2>1
<1>2. ASSUME NEW x, NEW j \in D, r[j] = x PROVE x # l[i] /\ \E k \in E : l[k] = x
  <2>1. x = l[p[j]] /\ p[j] \in E /\ p[j] # i
    BY <1>0, <1>2
  <2>2. QED BY <1>0, <2>1
<1>3. ASSUME NEW x, x # l[i], NEW j \in E, l[j] = x PROVE \E k \in D : r[k] = x
  <2>1. PICK k \in D : p[k] = j
    BY <1>0, <1>3
  <2>2. r[k] = x
    BY <1>0, <1>3, <2>1
  <2>3. QED BY <2>1, <2>2
<1>4. ASSUME NEW x PROVE (\E j \in D : r[j] = x) <=> (x # l[i] /\ \E j \in E : l[j] = x)
  BY <1>2, <1>3
<1>5. QED BY <1>1, <1>4, Zenon DEF D, E, Once, Loses

\* RemoveAt leaves the others, each as often as before.
LEMMA RemoveAtKeeps ==
  ASSUME NEW S, NEW l \in Seq(S), NEW i \in 1..Len(l), Once(l)
  PROVE  Loses(RemoveAt(l, i), l, i, S)
<1> DEFINE r == RemoveAt(l, i)
<1>1. PICK n \in Nat : n = Len(l) /\ i \in 1..n
  BY LenProperties
<1>2. /\ r \in Seq(S) /\ Len(r) = n - 1
      /\ \A k \in 1..n - 1 : r[k] = l[IF k < i THEN k ELSE k + 1]
  BY <1>1, RemoveAtAt
<1> DEFINE p == [k \in 1..n - 1 |-> IF k < i THEN k ELSE k + 1]
<1> HIDE DEF r
<1>3. /\ p \in [1..n - 1 -> 1..n]
      /\ \A k \in 1..n - 1 : r[k] = l[p[k]] /\ p[k] # i
      /\ \A j, k \in 1..n - 1 : p[j] = p[k] => j = k
  BY <1>1, <1>2
<1>4. ASSUME NEW j \in 1..n, j # i PROVE \E k \in 1..n - 1 : p[k] = j
  <2>1. CASE j < i
    <3>1. j \in 1..n - 1 /\ p[j] = j
      BY <1>1, <2>1
    <3>2. QED BY <3>1
  <2>2. CASE j > i
    <3>1. j - 1 \in 1..n - 1 /\ p[j - 1] = j
      BY <1>1, <2>2
    <3>2. QED BY <3>1
  <2>3. QED BY <1>1, <1>4, <2>1, <2>2
<1> HIDE DEF p
<1>5. Drops(r, 1..n - 1, l, 1..n, i, p)
  BY <1>1, <1>3, <1>4 DEF Drops, Once
<1>6. QED BY <1>1, <1>2, <1>5, DropsLoses DEF r

\* So does a ring that is cut there.
LEMMA RotateKeeps ==
  ASSUME NEW S, NEW l \in Seq(S), NEW i \in 1..Len(l), Once(l)
  PROVE  Loses(SubSeq(l, i + 1, Len(l)) \o SubSeq(l, 1, i - 1), l, i, S)
<1> DEFINE r == SubSeq(l, i + 1, Len(l)) \o SubSeq(l, 1, i - 1)
<1>1. PICK n \in Nat : n = Len(l) /\ i \in 1..n
  BY LenProperties
<1>2. /\ r \in Seq(S) /\ Len(r) = n - 1
      /\ \A k \in 1..n - 1 : r[k] = l[IF k <= n - i THEN k + i ELSE k - (n - i)]
  BY <1>1, RotateAt
<1> DEFINE p == [k \in 1..n - 1 |-> IF k <= n - i THEN k + i ELSE k - (n - i)]
<1> HIDE DEF r
<1>3. /\ p \in [1..n - 1 -> 1..n]
      /\ \A k \in 1..n - 1 : r[k] = l[p[k]] /\ p[k] # i
      /\ \A j, k \in 1..n - 1 : p[j] = p[k] => j = k
  BY <1>1, <1>2
<1>4. ASSUME NEW j \in 1..n, j # i PROVE \E k \in 1..n - 1 : p[k] = j
  <2>1. CASE j < i
    <3>1. j + (n - i) \in 1..n - 1 /\ p[j + (n - i)] = j
      BY <1>1, <2>1
    <3>2. QED BY <3>1
  <2>2. CASE j > i
    <3>1. j - i \in 1..n - 1 /\ p[j - i] = j
      BY <1>1, <2>2
    <3>2. QED BY <3>1
  <2>3. QED BY <1>1, <1>4, <2>1, <2>2
<1> HIDE DEF p
<1>5. Drops(r, 1..n - 1, l, 1..n, i, p)
  BY <1>1, <1>3, <1>4 DEF Drops, Once
<1>6. QED BY <1>1, <1>2, <1>5, DropsLoses DEF r

\* A set of numbers has a least one.
LEMMA MinIn ==
  ASSUME NEW S, S \subseteq Nat, S # {}
  PROVE  Min(S) \in S /\ \A x \in S : Min(S) <= x
<1> DEFINE R == OpToRel(<, Nat)
<1>1. PICK m \in S : \A x \in S : ~(<<x, m>> \in R)
  BY WFMin, NatLessThanWellFounded, Zenon
<1>2. \A x \in S : m <= x
  <2> SUFFICES ASSUME NEW x \in S PROVE m <= x
    OBVIOUS
  <2>1. x \in Nat /\ m \in Nat
    OBVIOUS
  <2>2. ~(<<x, m>> \in R)
    BY <1>1
  <2>3. x < m => <<x, m>> \in R
    BY <2>1, Zenon DEF OpToRel
  <2> HIDE DEF R
  <2>4. ~(x < m)
    BY <2>2, <2>3
  <2>5. QED BY <2>1, <2>4
<1>3. QED BY <1>2 DEF Min

\* Induction, with the set of the numbers that have the property.
LEMMA Reaches ==
  ASSUME NEW S \in SUBSET Nat, 0 \in S, \A n \in S : n + 1 \in S
  PROVE  S = Nat
<1> SUFFICES ASSUME Nat \ S # {} PROVE FALSE
  OBVIOUS
<1>1. PICK n : n = Min(Nat \ S)
  OBVIOUS
<1>2. n \in Nat \ S /\ \A k \in Nat \ S : n <= k
  BY <1>1, MinIn
<1>3. n # 0 /\ n - 1 \in Nat /\ (n - 1) + 1 = n
  BY <1>2
<1>4. n - 1 \in S
  BY <1>2, <1>3
<1>5. (n - 1) + 1 \in S
  BY <1>4
<1>6. QED BY <1>2, <1>3, <1>5

LEMMA ReachesUpTo ==
  ASSUME NEW n \in Nat, NEW S, 0 \in S, \A k \in 0..n - 1 : k \in S => k + 1 \in S
  PROVE  \A k \in 0..n : k \in S
<1> DEFINE A == {k \in Nat : k <= n => k \in S}
<1>1. A \in SUBSET Nat /\ 0 \in A
  OBVIOUS
<1>2. ASSUME NEW k \in A PROVE k + 1 \in A
  <2>1. CASE k + 1 <= n
    <3>1. k \in 0..n - 1 /\ k \in S
      BY <2>1
    <3>2. QED BY <3>1
  <2>2. CASE ~(k + 1 <= n)
    BY <2>2
  <2>3. QED BY <2>1, <2>2
<1> HIDE DEF A
<1>3. A = Nat
  BY <1>1, <1>2, Reaches
<1>4. QED BY <1>3 DEF A

\* the first n values of a function that begins with a and goes on by step
Runs(A, a, step, n) ==
  {g \in [0..n -> A] : g[0] = a /\ \A k \in 0..n - 1 : g[k + 1] = step[<<k, g[k]>>]}

LEMMA RunGoesOn ==
  ASSUME NEW A, NEW a \in A, NEW step \in [Nat \X A -> A], NEW n \in Nat,
         NEW g \in Runs(A, a, step, n)
  PROVE  [k \in 0..n + 1 |-> IF k = n + 1 THEN step[<<n, g[n]>>] ELSE g[k]]
           \in Runs(A, a, step, n + 1)
<1> DEFINE h == [k \in 0..n + 1 |-> IF k = n + 1 THEN step[<<n, g[n]>>] ELSE g[k]]
<1>1. g \in [0..n -> A] /\ g[0] = a /\ \A k \in 0..n - 1 : g[k + 1] = step[<<k, g[k]>>]
  BY DEF Runs
<1>2. step[<<n, g[n]>>] \in A
  BY <1>1
<1>3. h \in [0..n + 1 -> A] /\ h[0] = a
  BY <1>1, <1>2
<1>4. ASSUME NEW k \in 0..n PROVE h[k + 1] = step[<<k, h[k]>>]
  <2>1. CASE k = n
    <3>1. n \in 0..n + 1 /\ n + 1 \in 0..n + 1 /\ n # n + 1
      OBVIOUS
    <3>2. h[n + 1] = step[<<n, g[n]>>] /\ h[n] = g[n]
      BY <3>1
    <3> HIDE DEF h
    <3>3. QED BY <2>1, <3>2
  <2>2. CASE k # n
    <3>1. k \in 0..n - 1 /\ h[k + 1] = g[k + 1] /\ h[k] = g[k]
      BY <2>2
    <3>2. QED BY <1>1, <3>1
  <2>3. QED BY <2>1, <2>2
<1> HIDE DEF h
<1>5. \A k \in 0..(n + 1) - 1 : h[k + 1] = step[<<k, h[k]>>]
  BY <1>4
<1>6. h \in Runs(A, a, step, n + 1)
  BY <1>3, <1>5 DEF Runs
<1>7. QED BY <1>6 DEF h

LEMMA RunIsThere ==
  ASSUME NEW A, NEW a \in A, NEW step \in [Nat \X A -> A], NEW n \in Nat
  PROVE  Runs(A, a, step, n) # {}
<1> DEFINE S == {k \in Nat : Runs(A, a, step, k) # {}}
<1>1. 0 \in S
  <2>1. [k \in 0..0 |-> a] \in Runs(A, a, step, 0)
    BY DEF Runs
  <2>2. QED BY <2>1
<1>2. ASSUME NEW k \in S PROVE k + 1 \in S
  <2>1. PICK g : g \in Runs(A, a, step, k)
    OBVIOUS
  <2>2. k \in Nat
    OBVIOUS
  <2>3. Runs(A, a, step, k + 1) # {}
    BY <2>1, <2>2, RunGoesOn
  <2>4. QED BY <2>2, <2>3
<1>3. S \in SUBSET Nat
  OBVIOUS
<1> HIDE DEF S
<1>4. S = Nat
  BY <1>1, <1>2, <1>3, Reaches
<1>5. QED BY <1>4 DEF S

LEMMA RunsAgree ==
  ASSUME NEW A, NEW a \in A, NEW step \in [Nat \X A -> A], NEW n \in Nat, NEW m \in Nat, n <= m,
         NEW g \in Runs(A, a, step, n), NEW h \in Runs(A, a, step, m)
  PROVE  \A k \in 0..n : g[k] = h[k]
<1> DEFINE S == {k \in 0..n : g[k] = h[k]}
<1>1. 0 \in S
  BY DEF Runs
<1>2. ASSUME NEW k \in 0..n - 1, k \in S PROVE k + 1 \in S
  <2>1. k \in 0..m - 1 /\ k + 1 \in 0..n /\ g[k] = h[k]
    BY <1>2
  <2>2. g[k + 1] = step[<<k, g[k]>>] /\ h[k + 1] = step[<<k, h[k]>>]
    BY <2>1 DEF Runs
  <2>3. QED BY <2>1, <2>2
<1> HIDE DEF S
<1>3. \A k \in 0..n : k \in S
  BY <1>1, <1>2, ReachesUpTo
<1>4. QED BY <1>3 DEF S

Steps(A) == [Nat \X A -> A]
Follows(f, A, a, step) ==
  f \in [Nat -> A] /\ f[0] = a /\ \A n \in Nat : f[n + 1] = step[<<n, f[n]>>]

\* There is a function that begins with a and goes on by step.
LEMMA Recursion ==
  ASSUME NEW A, NEW a \in A, NEW step \in Steps(A)
  PROVE  \E f : Follows(f, A, a, step)
<1>0. step \in [Nat \X A -> A]
  BY DEF Steps
<1> DEFINE R(n) == Runs(A, a, step, n)
           c == [n \in Nat |-> CHOOSE g \in R(n) : TRUE]
           f == [n \in Nat |-> c[n][n]]
<1>1. \A n \in Nat : R(n) # {}
  BY <1>0, RunIsThere
<1>2. \A n \in Nat : c[n] \in R(n)
  BY <1>1
<1> HIDE DEF c
<1>3. \A n \in Nat : c[n] \in [0..n -> A] /\ c[n][0] = a
  BY <1>2 DEF Runs
<1>4. f \in [Nat -> A] /\ f[0] = a
  BY <1>3
<1>5. ASSUME NEW n \in Nat PROVE f[n + 1] = step[<<n, f[n]>>]
  <2>1. c[n] \in R(n) /\ c[n + 1] \in R(n + 1) /\ n + 1 \in Nat /\ n <= n + 1
    BY <1>2
  <2>2. c[n + 1][n + 1] = step[<<n, c[n + 1][n]>>]
    <3>1. n \in 0..(n + 1) - 1
      OBVIOUS
    <3>2. QED BY <2>1, <3>1 DEF Runs
  <2> HIDE DEF R
  <2>3. \A k \in 0..n : c[n][k] = c[n + 1][k]
    <3>1. PICK g, h : g = c[n] /\ h = c[n + 1]
      OBVIOUS
    <3>m. PICK m \in Nat : m = n + 1
      OBVIOUS
    <3>2. n <= m /\ g \in Runs(A, a, step, n) /\ h \in Runs(A, a, step, m)
      BY <2>1, <3>1, <3>m DEF R
    <3>3. \A k \in 0..n : g[k] = h[k]
      BY <1>0, <3>2, RunsAgree
    <3>4. QED BY <3>1, <3>3
  <2>4. c[n][n] = c[n + 1][n]
    BY <2>3
  <2>5. QED BY <2>2, <2>4
<1>6. QED BY <1>4, <1>5 DEF Follows

\* wait_current_del takes one entry out of the queue, and no other.
LEMMA RemoveFirstFacts ==
  ASSUME NEW P, NEW q \in Seq(P), NEW r
  PROVE  /\ RemoveFirst(q, r) \in Seq(P)
         /\ \A u : u # r /\ Contains(q, u) => Contains(RemoveFirst(q, r), u)
<1> DEFINE I == {i \in 1..Len(q) : q[i] = r}
<1>1. CASE I = {}
  <2>1. RemoveFirst(q, r) = q
    BY <1>1 DEF RemoveFirst
  <2>2. QED BY <2>1
<1>2. CASE I # {}
  <2>1. RemoveFirst(q, r) = RemoveAt(q, Min(I))
    <3>1. SelectInSeq(q, LAMBDA v : v = r) = Min(I)
      BY <1>2 DEF SelectInSeq
    <3>2. QED BY <1>2, <3>1 DEF RemoveFirst
  <2>2. Min(I) \in I
    <3>1. I \subseteq Nat
      OBVIOUS
    <3> HIDE DEF I
    <3>2. QED BY <1>2, <3>1, MinIn
  <2>3. PICK i : i = Min(I)
    OBVIOUS
  <2>4. i \in 1..Len(q) /\ q[i] = r
    BY <2>2, <2>3
  <2> DEFINE t == RemoveAt(q, i)
  <2>5. /\ t \in Seq(P) /\ Len(t) = Len(q) - 1 /\ Len(q) \in Nat
        /\ \A k \in 1..Len(q) - 1 : t[k] = q[IF k < i THEN k ELSE k + 1]
    BY <2>4, RemoveAtAt
  <2> HIDE DEF t
  <2>6. ASSUME NEW u, u # r, Contains(q, u) PROVE Contains(t, u)
    <3>1. PICK k \in 1..Len(q) : q[k] = u
      BY <2>6 DEF Contains
    <3>2. CASE k < i
      <4>1. k \in 1..Len(t) /\ t[k] = u
        BY <2>4, <2>5, <3>1, <3>2
      <4>2. QED BY <4>1 DEF Contains
    <3>3. CASE k > i
      <4>1. k - 1 \in 1..Len(t) /\ t[k - 1] = q[k]
        BY <2>4, <2>5, <3>1, <3>3
      <4>2. QED BY <3>1, <4>1 DEF Contains
    <3>4. QED BY <2>4, <2>6, <3>1, <3>2, <3>3
  <2>7. RemoveFirst(q, r) = t
    BY <2>1, <2>3 DEF t
  <2>8. QED BY <2>5, <2>6, <2>7
<1>3. QED BY <1>1, <1>2
------------------------------------------------------------------------------
(* x % m, where the provers do not find it themselves.                           *)

LEMMA ModOf ==
  ASSUME NEW m \in Nat \ {0}, NEW q \in Int, NEW r \in 0..(m - 1)
  PROVE  (m * q + r) % m = r
OBVIOUS

LEMMA ModSmall ==
  ASSUME NEW m \in Nat \ {0}, NEW r \in 0..(m - 1)
  PROVE  r % m = r
OBVIOUS

LEMMA ModParts ==
  ASSUME NEW m \in Nat \ {0}, NEW a \in Nat
  PROVE  \E q \in Nat : \E r \in 0..(m - 1) : a = m * q + r /\ a % m = r
<1>1. a % m \in 0..(m - 1)
  OBVIOUS
<1>2. a \div m \in Int
  OBVIOUS
<1>3. a = m * (a \div m) + (a % m)
  OBVIOUS
<1>4. a \div m >= 0
  <2>1. CASE a \div m <= -1
    <3>1. m * (a \div m) <= -m
      BY <2>1, <1>2
    <3>2. QED BY <3>1, <1>3, <1>1
  <2>2. QED BY <2>1, <1>2
<1>5. QED BY <1>1, <1>2, <1>3, <1>4

LEMMA ModDistinct ==
  ASSUME NEW m \in Nat \ {0}, NEW a \in Nat, NEW b \in Nat, a < b, b < a + m
  PROVE  a % m # b % m
<1>1. PICK q \in Nat, r \in 0..(m - 1) : a = m * q + r /\ a % m = r
  BY ModParts
<1>2. CASE r + (b - a) < m
  <2> DEFINE t == r + (b - a)
  <2>1. b = m * q + t /\ t \in 0..(m - 1)
    BY <1>1, <1>2
  <2>2. b % m = t
    <3> HIDE DEF t
    <3>1. QED BY <2>1, ModOf
  <2>3. QED BY <1>1, <2>2
<1>3. CASE r + (b - a) >= m
  <2> DEFINE t == r + (b - a) - m
  <2>1. b = m * (q + 1) + t /\ t \in 0..(m - 1)
    BY <1>1, <1>3
  <2>2. b % m = t
    <3> HIDE DEF t
    <3>1. QED BY <2>1, ModOf
  <2>3. QED BY <1>1, <2>2
<1>4. QED BY <1>2, <1>3

LEMMA ModAdd ==
  ASSUME NEW m \in Nat \ {0}, NEW a \in Nat, NEW k \in Nat
  PROVE  ((a % m) + k) % m = (a + k) % m
<1>1. PICK q \in Nat, r \in 0..(m - 1) : a = m * q + r /\ a % m = r
  BY ModParts
<1>2. PICK c \in Nat : c = r + k
  BY <1>1
<1>3. PICK p \in Nat, t \in 0..(m - 1) : c = m * p + t /\ c % m = t
  BY ModParts
<1>4. a + k = m * (q + p) + t /\ q + p \in Int
  BY <1>1, <1>2, <1>3
<1>5. (a + k) % m = t
  <2> DEFINE u == q + p
  <2>1. a + k = m * u + t /\ u \in Int
    BY <1>4
  <2> HIDE DEF u
  <2>2. QED BY <2>1, ModOf
<1>6. (a % m) + k = c
  BY <1>1, <1>2
<1>7. QED BY <1>3, <1>5, <1>6

LEMMA ModDiff ==
  ASSUME NEW m \in Nat \ {0}, NEW a \in Nat, NEW b \in Nat, a <= b, b < a + m
  PROVE  ((b % m) - (a % m)) % m = b - a
<1>1. PICK q \in Nat, r \in 0..(m - 1) : a = m * q + r /\ a % m = r
  BY ModParts
<1>2. CASE r + (b - a) < m
  <2> DEFINE t == r + (b - a)
  <2>1. b = m * q + t /\ t \in 0..(m - 1)
    BY <1>1, <1>2
  <2>2. b % m = t
    <3> HIDE DEF t
    <3>1. QED BY <2>1, ModOf
  <2>3. (b % m) - (a % m) = b - a /\ b - a \in 0..(m - 1)
    BY <1>1, <2>2
  <2>4. QED BY <2>3
<1>3. CASE r + (b - a) >= m
  <2> DEFINE t == r + (b - a) - m
  <2>1. b = m * (q + 1) + t /\ t \in 0..(m - 1)
    BY <1>1, <1>3
  <2>2. b % m = t
    <3> HIDE DEF t
    <3>1. QED BY <2>1, ModOf
  <2>3. (b % m) - (a % m) = m * (-1) + (b - a) /\ b - a \in 0..(m - 1)
    BY <1>1, <2>2
  <2>4. QED BY <2>3, ModOf
<1>4. QED BY <1>2, <1>3

\* The neighbours of a place in a ring of n are other places, and going to the left
\* and to the right undo each other.
LEMMA Neighbours ==
  ASSUME NEW n \in Nat, n > 1, NEW i \in 0..(n - 1)
  PROVE  /\ (i + 1) % n = IF i = n - 1 THEN 0 ELSE i + 1
         /\ (i + n - 1) % n = IF i = 0 THEN n - 1 ELSE i - 1
<1>1. \A k \in Nat : k < n => k % n = k
  OBVIOUS
<1>2. \A k \in Nat : k < n => (k + n) % n = k
  OBVIOUS
<1>3. QED BY <1>1, <1>2
------------------------------------------------------------------------------
(* Up and Down of a semaphore, from the side of who waits.                       *)

\* up(): the value stays binary when it was 0, nobody joins the queue, and either
\* the value is set and nobody leaves, or only the first waiter leaves.
LEMMA UpFacts ==
  ASSUME NEW P, NEW s \in Binary(P), s.value = 0
  PROVE  /\ Up(s) \in Binary(P)
         /\ \A p : Waits(Up(s), p) => Waits(s, p)
         /\ Up(s).value = 1 => \A p : Waits(s, p) <=> Waits(Up(s), p)
         /\ Up(s).value = 1 => \A p : ~Waits(s, p)
         /\ Up(s).value = 0 =>
              \A p, q : Waits(s, p) /\ ~Waits(Up(s), p) /\ Waits(s, q) /\ ~Waits(Up(s), q)
                          => p = q
<1>1. CASE s.queue = <<>>
  BY <1>1 DEF Up, Waits, Binary
<1>2. CASE s.queue # <<>>
  <2>1. s.queue \in Seq(P) /\ Up(s) = [value |-> 0, queue |-> Tail(s.queue)]
    BY <1>2 DEF Up, Binary
  <2>2. /\ Tail(s.queue) \in Seq(P) /\ Len(Tail(s.queue)) = Len(s.queue) - 1
        /\ \A k \in 1..Len(Tail(s.queue)) : Tail(s.queue)[k] = s.queue[k + 1]
        /\ Len(s.queue) \in Nat
    BY <1>2, <2>1
  <2>3. Up(s).queue = Tail(s.queue) /\ Up(s).value = 0
    BY <2>1
  <2>4. \A p : Waits(Up(s), p) => Waits(s, p)
    BY <2>2, <2>3 DEF Waits
  <2>5. \A p : Waits(s, p) /\ ~Waits(Up(s), p) => p = s.queue[1]
    <3> SUFFICES ASSUME NEW p, Waits(s, p), ~Waits(Up(s), p)
                 PROVE  p = s.queue[1]
      OBVIOUS
    <3>1. PICK k \in 1..Len(s.queue) : s.queue[k] = p
      BY DEF Waits
    <3>2. CASE k # 1
      <4>1. k - 1 \in 1..Len(Tail(s.queue)) /\ Tail(s.queue)[k - 1] = p
        BY <2>2, <3>1, <3>2
      <4>2. Waits(Up(s), p)
        BY <4>1, <2>3 DEF Waits
      <4> QED
        BY <4>2
    <3> QED
      BY <3>1, <3>2
  <2>6. Up(s) \in Binary(P)
    BY <2>1, <2>2 DEF Binary
  <2> QED
    BY <2>3, <2>4, <2>5, <2>6
<1> QED
  BY <1>1, <1>2

\* down() by p: either the value is taken and the queue stays, or p joins the
\* queue.
LEMMA DownFacts ==
  ASSUME NEW P, NEW s \in Binary(P), NEW p \in P
  PROVE  /\ Down(s, p) \in Binary(P)
         /\ Down(s, p).value = 0 /\ s.value \in {0, 1}
         /\ s.value = 1 => \A q : Waits(Down(s, p), q) <=> Waits(s, q)
         /\ s.value = 0 => \A q : Waits(Down(s, p), q) <=> Waits(s, q) \/ q = p
<1>1. CASE s.value = 1
  BY <1>1 DEF Down, Waits, Binary
<1>2. CASE s.value = 0
  <2>1. s.queue \in Seq(P) /\ Down(s, p) = [value |-> 0, queue |-> Append(s.queue, p)]
    BY <1>2 DEF Down, Binary
  <2>2. /\ Append(s.queue, p) \in Seq(P) /\ Len(Append(s.queue, p)) = Len(s.queue) + 1
        /\ \A k \in 1..Len(s.queue) : Append(s.queue, p)[k] = s.queue[k]
        /\ Append(s.queue, p)[Len(s.queue) + 1] = p
        /\ Len(s.queue) \in Nat
    BY <2>1, AppendProperties
  <2>3. Down(s, p).queue = Append(s.queue, p) /\ Down(s, p).value = 0
    BY <2>1
  <2>4. \A q : Waits(Down(s, p), q) => Waits(s, q) \/ q = p
    <3> SUFFICES ASSUME NEW q, Waits(Down(s, p), q), q # p
                 PROVE  Waits(s, q)
      OBVIOUS
    <3>1. PICK k \in 1..(Len(s.queue) + 1) : Append(s.queue, p)[k] = q
      BY <2>2, <2>3 DEF Waits
    <3>2. k \in 1..Len(s.queue)
      BY <2>2, <3>1
    <3> QED
      BY <2>2, <3>1, <3>2 DEF Waits
  <2>5. \A q : Waits(s, q) => Waits(Down(s, p), q)
    BY <2>2, <2>3 DEF Waits
  <2>6. Waits(Down(s, p), p)
    BY <2>2, <2>3 DEF Waits
  <2>7. Down(s, p) \in Binary(P)
    BY <2>1, <2>2 DEF Binary
  <2> QED
    BY <1>2, <2>3, <2>4, <2>5, <2>6, <2>7
<1> QED
  BY <1>1, <1>2 DEF Binary

------------------------------------------------------------------------------
(* Circular lists of pages, linked both ways, with a head h that is above all pages.  *)

\* nx and pv link the pages F in their order, with the head h at both ends
Linked(h, nx, pv, F) ==
  \A x \in F \cup {h} :
    /\ nx[x] \in F \cup {h} /\ pv[x] \in F \cup {h}
    /\ pv[nx[x]] = x /\ nx[pv[x]] = x
    /\ x = h \/ x < nx[x]
    /\ \A p \in F : (x # h /\ p <= x) \/ nx[x] <= p

\* A page is put in where its address belongs.
LEMMA AddLinked ==
  ASSUME NEW h \in Nat, NEW F \in SUBSET (0..h-1), NEW nx, NEW pv, Linked(h, nx, pv, F),
         NEW e \in 0..h-1, e \notin F, NEW at \in F \cup {h}, NEW y, y = nx[at],
         at = h \/ at < e, e < y,
         NEW nx2, NEW pv2, nx2[at] = e, nx2[e] = y, pv2[y] = e, pv2[e] = at,
         \A x \in F \cup {h} : (x # at => nx2[x] = nx[x]) /\ (x # y => pv2[x] = pv[x])
  PROVE  Linked(h, nx2, pv2, F \cup {e})
<1> DEFINE N == F \cup {h}
           G == F \cup {e}
<1>0. /\ h \in N /\ at \in N /\ h \notin F /\ e \notin N /\ e # h
      /\ \A p \in N : p \in Int /\ p <= h
      /\ \A p \in F : p \in N
      /\ e \in Int /\ h \in Int
      /\ \A p \in N : p = h \/ p \in F
      /\ \A p \in G : p = e \/ p \in F
      /\ \A p \in G \cup {h} : p = e \/ p \in N
      /\ \A p \in N : p \in G \cup {h}
      /\ e \in G \cup {h}
  OBVIOUS
<1>a. /\ \A x \in N : nx[x] \in N /\ pv[x] \in N /\ pv[nx[x]] = x /\ nx[pv[x]] = x
      /\ \A x \in N : x = h \/ x < nx[x]
      /\ \A x \in N : \A p \in F : (x # h /\ p <= x) \/ nx[x] <= p
  BY DEF Linked
<1>b. \A x \in N : (x # at => nx2[x] = nx[x]) /\ (x # y => pv2[x] = pv[x])
  OBVIOUS
<1> HIDE DEF N, G
<1>1. y \in N /\ pv[y] = at /\ y # e /\ at # e
  BY <1>0, <1>a
<1>2. \A x \in N : (nx[x] = y => x = at) /\ (pv[x] = at => x = y)
  BY <1>0, <1>a
<1>3. ASSUME NEW x \in G \cup {h} 
      PROVE  /\ nx2[x] \in G \cup {h} /\ pv2[x] \in G \cup {h}
             /\ pv2[nx2[x]] = x /\ nx2[pv2[x]] = x
  <2>1. CASE x = e
    BY <1>0, <1>1, <2>1
  <2>2. CASE x # e
    <3>0. x \in N
      BY <1>0, <2>2
    <3>1. nx2[x] \in G \cup {h} /\ pv2[x] \in G \cup {h}
      BY <1>0, <1>1, <1>a, <1>b, <3>0
    <3>2. pv2[nx2[x]] = x
      BY <1>1, <1>2, <1>a, <1>b, <3>0
    <3>3. nx2[pv2[x]] = x
      BY <1>1, <1>2, <1>a, <1>b, <3>0
    <3>4. QED BY <3>1, <3>2, <3>3
  <2>3. QED BY <2>1, <2>2
<1>4. ASSUME NEW x \in N PROVE x = at \/ (x # h /\ e <= x) \/ nx[x] <= e
  <2> DEFINE z == nx[x]
  <2>0. z \in N /\ x \in Int /\ z \in Int /\ at \in Int /\ y \in Int
    BY <1>0, <1>1, <1>a
  <2>1. (x = h \/ x < z) /\ \A p \in F : (x # h /\ p <= x) \/ z <= p
    BY <1>a
  <2>2. \A p \in F : (at # h /\ p <= at) \/ y <= p
    BY <1>0, <1>a
  <2> HIDE DEF z
  <2>3. CASE x = h
    <3>1. CASE at = h
      BY <3>1, <2>3
    <3>2. CASE at \in F
      BY <1>0, <2>0, <2>1, <2>3, <3>2 DEF z
    <3>3. QED BY <1>0, <3>1, <3>2
  <2>4. CASE x \in F
    <3>1. (at # h /\ x <= at) \/ y <= x
      BY <2>2, <2>4
    <3>2. CASE y <= x
      BY <1>0, <2>0, <2>4, <3>2
    <3>3. CASE at # h /\ x <= at
      <4>1. at \in F 
        BY <1>0, <3>3
      <4>2. (x # h /\ at <= x) \/ z <= at
        BY <2>1, <4>1
      <4>3. QED BY <1>0, <2>0, <3>3, <4>2 DEF z
    <3>4. QED BY <3>1, <3>2, <3>3
  <2>5. QED BY <1>0, <2>3, <2>4
<1>5. ASSUME NEW x \in G \cup {h}
      PROVE  (x = h \/ x < nx2[x]) /\ \A p \in G : (x # h /\ p <= x) \/ nx2[x] <= p
  <2>1. CASE x = e
    <3>1. \A p \in F : (at # h /\ p <= at) \/ y <= p
      BY <1>0, <1>a
    <3>2. QED BY <1>0, <2>1, <3>1
  <2>2. CASE x = at
    <3>1. \A p \in F : (at # h /\ p <= at) \/ y <= p
      BY <1>0, <1>a
    <3>2. \A p \in G : (at # h /\ p <= at) \/ e <= p
      BY <1>0, <1>1, <3>1
    <3>3. QED BY <1>0, <2>2, <3>2
  <2>3. CASE x \in N /\ x # at
    <3>1. nx2[x] = nx[x]
      BY <1>b, <2>3
    <3>2. QED BY <1>0, <1>4, <1>a, <2>3, <3>1
  <2>4. QED BY <1>0, <2>1, <2>2, <2>3
<1>6. QED BY <1>3, <1>5 DEF Linked, G

\* A page is taken out, and the others stay in their order.
LEMMA DelLinked ==
  ASSUME NEW h \in Nat, NEW F \in SUBSET (0..h-1), NEW nx, NEW pv, Linked(h, nx, pv, F),
         NEW e \in F, NEW nx2, NEW pv2, nx2[pv[e]] = nx[e], pv2[nx[e]] = pv[e],
         \A x \in F \cup {h} : (x # pv[e] => nx2[x] = nx[x]) /\ (x # nx[e] => pv2[x] = pv[x])
  PROVE  Linked(h, nx2, pv2, F \ {e})
<1> DEFINE N == F \cup {h}
           G == F \ {e}
           M == G \cup {h}
<1>0. /\ h \in N /\ h \notin F /\ e # h /\ e \in N
      /\ \A p \in N : p \in Int /\ p <= h
      /\ \A p \in F : p \in N
      /\ e \in Int /\ h \in Int /\ h \in M
      /\ \A p \in N : p = h \/ p \in F
      /\ \A p \in G : p # e /\ p \in F
      /\ \A p \in N : p # e => p \in M
      /\ \A p \in M : p # e /\ p \in N
  OBVIOUS
<1>a. /\ \A x \in N : nx[x] \in N /\ pv[x] \in N /\ pv[nx[x]] = x /\ nx[pv[x]] = x
      /\ \A x \in N : x = h \/ x < nx[x]
      /\ \A x \in N : \A p \in F : (x # h /\ p <= x) \/ nx[x] <= p
  BY DEF Linked
<1>b. \A x \in N : (x # pv[e] => nx2[x] = nx[x]) /\ (x # nx[e] => pv2[x] = pv[x])
  OBVIOUS
<1>c. PICK x0, y0 : x0 = pv[e] /\ y0 = nx[e]
  OBVIOUS
<1> HIDE DEF N, G, M
<1>1. x0 \in N /\ y0 \in N /\ nx[x0] = e /\ pv[y0] = e /\ nx2[x0] = y0 /\ pv2[y0] = x0
  BY <1>0, <1>a, <1>c
<1>2. e < y0 /\ (x0 = h \/ x0 < e) /\ x0 # e /\ y0 # e
  BY <1>0, <1>1, <1>a, <1>c
<1>3. \A x \in M : /\ x # x0 => nx[x] # e /\ nx[x] \in M
                   /\ x # y0 => pv[x] # e /\ pv[x] \in M
  BY <1>0, <1>1, <1>a, <1>c
<1>4. ASSUME NEW x \in M 
      PROVE nx2[x] \in M /\ pv2[x] \in M /\ pv2[nx2[x]] = x /\ nx2[pv2[x]] = x
  <2>0. x \in N /\ x # e
    BY <1>0
  <2>1. nx2[x] \in M /\ pv2[nx2[x]] = x
    <3>1. CASE x = x0
      BY <1>0, <1>1, <1>2, <3>1
    <3>2. CASE x # x0
      <4>1. nx2[x] = nx[x] /\ nx[x] \in M /\ nx[x] \in N
        BY <1>b, <1>c, <1>3, <1>0, <2>0, <3>2
      <4>2. nx[x] # y0
        BY <1>a, <1>1, <2>0
      <4>3. pv2[nx[x]] = pv[nx[x]]
        BY <1>b, <1>c, <4>1, <4>2
      <4>4. QED BY <1>a, <2>0, <4>1, <4>3
    <3>3. QED BY <3>1, <3>2
  <2>2. pv2[x] \in M /\ nx2[pv2[x]] = x
    <3>1. CASE x = y0
      BY <1>0, <1>1, <1>2, <3>1
    <3>2. CASE x # y0
      <4>1. pv2[x] = pv[x] /\ pv[x] \in M /\ pv[x] \in N
        BY <1>b, <1>c, <1>3, <1>0, <2>0, <3>2
      <4>2. pv[x] # x0
        BY <1>a, <1>1, <2>0
      <4>3. nx2[pv[x]] = nx[pv[x]]
        BY <1>b, <1>c, <4>1, <4>2
      <4>4. QED BY <1>a, <2>0, <4>1, <4>3
    <3>3. QED BY <3>1, <3>2
  <2>3. QED BY <2>1, <2>2
<1>5. ASSUME NEW x \in M
      PROVE  (x = h \/ x < nx2[x]) /\ \A p \in G : (x # h /\ p <= x) \/ nx2[x] <= p
  <2>1. CASE x = x0
    <3>1. \A p \in F : (x0 # h /\ p <= x0) \/ e <= p
      BY <1>1, <1>a
    <3>2. \A p \in F : (e # h /\ p <= e) \/ y0 <= p
      BY <1>0, <1>a, <1>c
    <3>3. \A p \in G : (x0 # h /\ p <= x0) \/ y0 <= p
      <4>1. SUFFICES ASSUME NEW p \in G PROVE (x0 # h /\ p <= x0) \/ y0 <= p
        OBVIOUS
      <4>2. p \in F /\ p # e /\ p \in Int
        BY <1>0
      <4>3. QED BY <1>0, <3>1, <3>2, <4>2
    <3>4. x0 = h \/ x0 < y0
      BY <1>0, <1>1, <1>2
    <3>5. QED BY <1>1, <2>1, <3>3, <3>4
  <2>2. CASE x # x0
    <3>1. nx2[x] = nx[x] /\ x \in N
      BY <1>0, <1>b, <1>c, <2>2
    <3>2. QED BY <1>0, <1>a, <3>1
  <2>3. QED BY <2>1, <2>2
<1>6. QED BY <1>4, <1>5 DEF Linked, M, G

\* where a walk over S may stop
StopsAt(h, f, S) == {k \in 1..h+1 : f[k] \in S \cup {h}}

Walk(h, nx, f) == f[0] = h /\ \A k \in 1..h+1 : f[k] = nx[f[k - 1]]
\* the walk stops, at the lowest page of F in S or else at the head
Meets(h, F, f, S) ==
  /\ StopsAt(h, f, S) # {}
  /\ \/ f[Min(StopsAt(h, f, S))] = h /\ F \cap S = {}
     \/ /\ f[Min(StopsAt(h, f, S))] \in F \cap S
        /\ \A p \in F \cap S : f[Min(StopsAt(h, f, S))] <= p

\* A walk from the head stops, at the lowest page of S or else at the head.
LEMMA WalkMeets ==
  ASSUME NEW h \in Nat, NEW F \in SUBSET (0..h-1), NEW nx, NEW pv, Linked(h, nx, pv, F),
         NEW f, Walk(h, nx, f), NEW S
  PROVE  Meets(h, F, f, S)
<1> DEFINE N == F \cup {h}
           R == StopsAt(h, f, S)
           OnWay(k) == /\ f[k] \in N
                       /\ f[k] = h \/ k - 1 <= f[k]
                       /\ \A p \in F \cap S : f[k] <= p
           A == {k \in 0..h : (\A j \in R : j > k) => OnWay(k + 1)}
<1>0. /\ h \in N /\ h \notin F /\ h \in Int
      /\ \A p \in F : p \in N /\ p < h
      /\ \A p \in N : p \in Nat /\ p <= h
      /\ \A p \in N : p = h \/ p \in F
  OBVIOUS
<1>a. /\ \A x \in N : nx[x] \in N
      /\ \A x \in N : x = h \/ x < nx[x]
      /\ \A x \in N : \A p \in F : (x # h /\ p <= x) \/ nx[x] <= p
  BY DEF Linked
<1>d. f[0] = h /\ \A k \in 1..h+1 : f[k] = nx[f[k - 1]]
  BY DEF Walk
<1>b. \A k \in R : k \in 1..h+1 /\ f[k] \in S \cup {h}
  BY DEF StopsAt
<1>c. \A k \in 1..h+1 : f[k] \in S \cup {h} => k \in R
  BY DEF StopsAt
<1> HIDE DEF N, R
<1>1. 0 \in A
  <2>1. f[1] = nx[h] /\ nx[h] \in N
    BY <1>0, <1>a, <1>d
  <2>2. \A p \in F : nx[h] <= p
    BY <1>0, <1>a
  <2>3. PICK y : y = f[1]
    OBVIOUS
  <2>4. y \in Nat /\ y \in N /\ \A p \in F : y <= p
    BY <1>0, <2>1, <2>2, <2>3
  <2>5. OnWay(1)
    BY <2>3, <2>4
  <2>6. QED BY <2>5
<1>2. ASSUME NEW k \in 0..h-1, k \in A PROVE k + 1 \in A
  <2> SUFFICES ASSUME \A j \in R : j > k + 1 PROVE OnWay((k + 1) + 1)
    OBVIOUS
  <2>1. OnWay(k + 1)
    <3>1. \A j \in R : j > k
      BY <1>b
    <3>2. QED BY <3>1, <1>2
  <2>2. PICK x : x = f[k + 1]
    OBVIOUS
  <2>3. x \notin S \cup {h} /\ x \in F
    <3>1. k + 1 \notin R
      BY <1>b
    <3>2. x \notin S \cup {h}
      BY <1>c, <2>2, <3>1
    <3>3. QED BY <1>0, <2>1, <2>2, <3>2
  <2>4. f[(k + 1) + 1] = nx[x]
    <3>1. (k + 1) + 1 \in 1..h+1 /\ ((k + 1) + 1) - 1 = k + 1
      OBVIOUS
    <3>2. f[(k + 1) + 1] = nx[f[((k + 1) + 1) - 1]]
      BY <1>d, <3>1
    <3>3. QED BY <2>2, <3>1, <3>2
  <2>5. PICK y : y = nx[x]
    OBVIOUS
  <2>6. y \in N /\ x < y /\ x \in N
    BY <1>0, <1>a, <2>3, <2>5
  <2>7. y = h \/ (k + 1) + 1 - 1 <= y
    BY <1>0, <2>1, <2>2, <2>3, <2>6
  <2>8. ASSUME NEW p \in F \cap S PROVE y <= p
    <3>1. (x # h /\ p <= x) \/ y <= p
      BY <1>a, <2>5, <2>6
    <3>2. x <= p /\ x # p
      BY <2>1, <2>2, <2>3
    <3>3. QED BY <1>0, <2>6, <3>1, <3>2
  <2>9. QED BY <2>4, <2>5, <2>6, <2>7, <2>8
<1>3. \A k \in 0..h : k \in A
  <2>1. \A k \in 0..h-1 : k \in A => k + 1 \in A
    BY <1>2
  <2> HIDE DEF A
  <2>2. QED BY <1>1, <2>1, ReachesUpTo
<1>4. R # {}
  <2> SUFFICES ASSUME R = {} PROVE FALSE
    OBVIOUS
  <2>1. OnWay(h + 1)
    BY <1>3
  <2>2. PICK y : y = f[h + 1]
    OBVIOUS
  <2>3. y \in N /\ (y = h \/ h <= y)
    BY <2>1, <2>2
  <2>4. y = h
    BY <1>0, <2>3
  <2>5. h + 1 \in 1..h+1
    OBVIOUS
  <2>6. f[h + 1] \in S \cup {h}
    BY <2>2, <2>4
  <2>7. QED BY <1>c, <2>5, <2>6
<1>5. PICK m : m = Min(R)
  OBVIOUS
<1>6. m \in R /\ \A j \in R : m <= j
  <2>1. R \subseteq Nat
    BY <1>b
  <2>2. QED BY <1>4, <1>5, <2>1, MinIn
<1>7. OnWay(m)
  <2>1. m \in 1..h+1 /\ m - 1 \in 0..h /\ (m - 1) + 1 = m
    BY <1>6, <1>b
  <2>2. \A j \in R : j > m - 1
    BY <1>6, <1>b, <2>1
  <2>3. OnWay((m - 1) + 1)
    BY <1>3, <2>1, <2>2
  <2>4. QED BY <2>1, <2>3
<1>8. f[m] \in S \cup {h}
  BY <1>6, <1>b
<1>9. CASE f[m] = h
  <2>1. F \cap S = {}
    <3>1. \A p \in F \cap S : h <= p
      BY <1>7, <1>9
    <3>2. \A p \in F \cap S : p < h /\ p \in Int
      BY <1>0
    <3>3. \A p \in F \cap S : FALSE
      <4> TAKE p \in F \cap S
      <4>1. h <= p /\ p < h /\ p \in Int
        BY <3>1, <3>2
      <4>2. QED BY <1>0, <4>1
    <3>4. QED BY <3>3
  <2>2. QED BY <1>4, <1>5, <1>9, <2>1 DEF R, Meets
<1>10. CASE f[m] # h
  <2>1. f[m] \in F \cap S
    BY <1>0, <1>7, <1>8, <1>10
  <2>2. QED BY <1>4, <1>5, <1>7, <2>1 DEF R, Meets
<1>11. QED BY <1>9, <1>10

\* the page of F that comes after x
NextOf(h, F, x) ==
  IF {p \in F : x = h \/ p > x} = {} THEN h ELSE Min({p \in F : x = h \/ p > x})

LEMMA LinkedFollows ==
  ASSUME NEW h \in Nat, NEW F \in SUBSET (0..h-1), NEW nx, NEW pv, Linked(h, nx, pv, F),
         NEW x \in F \cup {h}
  PROVE  nx[x] = NextOf(h, F, x)
<1> DEFINE G == {p \in F : x = h \/ p > x}
<1>1. PICK y : y = nx[x]
  OBVIOUS
<1>2. /\ y \in F \cup {h} /\ (x = h \/ x < y)
      /\ \A p \in F : (x # h /\ p <= x) \/ y <= p
  BY <1>1 DEF Linked
<1>3. \A p \in F : p \in Nat /\ p < h
  OBVIOUS
<1>4. CASE y = h
  <2>1. \A p \in G : FALSE
    <3> TAKE p \in G
    <3>1. p \in F /\ (x = h \/ p > x) /\ p \in Nat /\ p < h /\ x \in Int
      BY <1>3
    <3>2. (x # h /\ p <= x) \/ h <= p
      BY <1>2, <1>4, <3>1
    <3>3. QED BY <3>1, <3>2
  <2>2. G = {}
    BY <2>1
  <2>3. QED BY <1>1, <1>4, <2>2 DEF NextOf
<1>5. CASE y \in F
  <2>1. y \in G /\ \A p \in G : y <= p
    <3>1. y \in G
      BY <1>2, <1>3, <1>5
    <3>2. ASSUME NEW p \in G PROVE y <= p
      <4>1. p \in F /\ (x = h \/ p > x) /\ p \in Nat /\ p < h /\ x \in Int
        BY <1>3
      <4>2. (x # h /\ p <= x) \/ y <= p
        BY <1>2, <4>1
      <4>3. QED BY <4>1, <4>2
    <3>3. QED BY <3>1, <3>2
  <2>2. G \subseteq Nat /\ G # {}
    BY <1>3, <2>1
  <2>3. PICK m : m = Min(G)
    OBVIOUS
  <2>4. m \in G /\ \A p \in G : m <= p
    BY <2>2, <2>3, MinIn
  <2>5. m = y
    BY <1>3, <2>1, <2>4
  <2>6. QED BY <1>1, <2>2, <2>3, <2>5 DEF NextOf
<1>6. QED BY <1>2, <1>4, <1>5

------------------------------------------------------------------------------
(* Blocks of pages below h: F holds their first pages, sz their lengths. *)

Sized(h, F, sz) == \A x \in F : x \in Nat /\ sz[x] \in Nat /\ 1 <= sz[x] /\ x + sz[x] <= h
Apart(F, sz) == \A x, y \in F : x < y => x + sz[x] <= y
\* no block begins where another ends
Gaps(F, sz) == \A x, y \in F : x + sz[x] # y
Pages(h, F, sz) == {p \in 0..h-1 : \E b \in F : b <= p /\ p < b + sz[b]}

Blocks(h, F, sz) == Sized(h, F, sz) /\ Apart(F, sz) /\ Gaps(F, sz)
\* the pages B are taken from the blocks F, and the blocks G stay
TakesOut(h, F, sz, B, G, sz2) ==
  Blocks(h, G, sz2) /\ Pages(h, G, sz2) = Pages(h, F, sz) \ B

\* The first n pages are taken from a block.
LEMMA TakeBlock ==
  ASSUME NEW h \in Nat, NEW F, NEW sz, Blocks(h, F, sz),
         NEW e \in F, NEW n \in Nat, 1 <= n, n < sz[e],
         NEW G, G = (F \cup {e + n}) \ {e},
         NEW sz2, sz2[e + n] = sz[e] - n, \A x \in F : x # e => sz2[x] = sz[x]
  PROVE  TakesOut(h, F, sz, e..e+n-1, G, sz2)
<1>0. Sized(h, F, sz) /\ Apart(F, sz) /\ Gaps(F, sz)
  BY DEF Blocks
<1>1. PICK r, s, t : r = e + n /\ s = sz[e] /\ t = sz2[r]
  OBVIOUS
<1>2. /\ e \in Nat /\ s \in Nat /\ e + s <= h /\ r \in Nat /\ e < r /\ r < e + s
      /\ t = s - n /\ r + t = e + s /\ t \in Nat /\ 1 <= t
  BY <1>0, <1>1 DEF Sized
<1>3. \A x \in F : /\ x \in Nat /\ sz[x] \in Nat /\ 1 <= sz[x] /\ x + sz[x] <= h
                   /\ x < e => x + sz[x] <= e /\ x + sz[x] # e
                   /\ e < x => e + s <= x /\ e + s # x
  BY <1>0, <1>1 DEF Sized, Apart, Gaps
<1>4. r \notin F
  BY <1>2, <1>3
<1>5. \A x \in G : x = r \/ (x \in F /\ x # e /\ sz2[x] = sz[x])
  BY <1>1
<1>6. \A x \in F : x # e => x \in G /\ sz2[x] = sz[x]
  BY <1>1
<1>6a. r \in G
  BY <1>1, <1>2
<1>7. Sized(h, G, sz2)
  <2> SUFFICES ASSUME NEW x \in G
               PROVE x \in Nat /\ sz2[x] \in Nat /\ 1 <= sz2[x] /\ x + sz2[x] <= h
    BY DEF Sized
  <2>1. CASE x = r
    BY <1>1, <1>2, <2>1
  <2>2. CASE x # r
    BY <1>3, <1>5, <2>2
  <2>3. QED BY <2>1, <2>2
<1>8. ASSUME NEW x \in G, NEW y \in G, x < y PROVE x + sz2[x] <= y /\ x + sz2[x] # y
  <2>1. CASE x = r
    <3>1. y \in F /\ y # e
      BY <1>2, <1>5, <1>8, <2>1
    <3>2. y \in Nat /\ e < y
      BY <1>2, <1>3, <1>8, <2>1, <3>1
    <3>3. QED BY <1>1, <1>2, <1>3, <2>1, <3>1, <3>2
  <2>2. CASE x # r /\ y = r
    <3>1. x \in F /\ x # e /\ sz2[x] = sz[x]
      BY <1>5, <2>2
    <3>2. PICK u : u = sz[x]
      OBVIOUS
    <3>3. x \in Nat /\ u \in Nat /\ (x < e => x + u <= e) /\ (e < x => e + s <= x)
      BY <1>3, <3>1, <3>2
    <3>4. x < e
      BY <1>2, <1>8, <2>2, <3>1, <3>3
    <3>5. QED BY <1>2, <2>2, <3>1, <3>2, <3>3, <3>4
  <2>3. CASE x # r /\ y # r
    <3>1. x \in F /\ y \in F /\ sz2[x] = sz[x]
      BY <1>5, <2>3
    <3>2. QED BY <1>0, <1>8, <3>1 DEF Apart, Gaps
  <2>4. QED BY <2>1, <2>2, <2>3
<1>9. Apart(G, sz2)
  BY <1>8 DEF Apart
<1>10. Gaps(G, sz2)
  <2> SUFFICES ASSUME NEW x \in G, NEW y \in G, x + sz2[x] = y PROVE FALSE
    BY DEF Gaps
  <2>1. PICK u : u = sz2[x]
    OBVIOUS
  <2>2. x \in Nat /\ u \in Nat /\ 1 <= u /\ y \in Nat /\ x + u = y
    BY <1>7, <2>1 DEF Sized
  <2>3. x < y
    BY <2>2
  <2>4. QED BY <1>8, <2>3
<1>11. ASSUME NEW p \in 0..h-1
       PROVE p \in Pages(h, G, sz2) <=> p \in Pages(h, F, sz) /\ p \notin e..e+n-1
  <2>0. p \in e..e+n-1 <=> e <= p /\ p < r
    BY <1>1, <1>2
  <2>1. ASSUME NEW b \in G, b <= p, p < b + sz2[b]
        PROVE  p \in Pages(h, F, sz) /\ ~(e <= p /\ p < r)
    <3>1. CASE b = r
      <4>1. e <= p /\ p < e + s
        BY <1>1, <1>2, <2>1, <3>1
      <4>2. QED BY <1>1, <1>2, <2>1, <3>1, <4>1 DEF Pages
    <3>2. CASE b # r
      <4>1. b \in F /\ b # e /\ sz2[b] = sz[b]
        BY <1>5, <3>2
      <4>2. p \in Pages(h, F, sz)
        BY <2>1, <4>1 DEF Pages
      <4>3. PICK u : u = sz[b]
        OBVIOUS
      <4>4. b \in Nat /\ u \in Nat /\ (b < e => b + u <= e) /\ (e < b => e + s <= b)
        BY <1>3, <4>1, <4>3
      <4>5. QED BY <1>2, <2>1, <4>1, <4>2, <4>3, <4>4
    <3>3. QED BY <3>1, <3>2
  <2>2. ASSUME NEW b \in F, b <= p, p < b + sz[b], ~(e <= p /\ p < r)
        PROVE  p \in Pages(h, G, sz2)
    <3>1. CASE b = e
      <4>1. r <= p /\ p < r + t
        BY <1>1, <1>2, <2>2, <3>1
      <4>2. QED BY <1>1, <1>6a, <4>1 DEF Pages
    <3>2. CASE b # e
      BY <1>6, <2>2, <3>2 DEF Pages
    <3>3. QED BY <3>1, <3>2
  <2>3. QED BY <2>0, <2>1, <2>2 DEF Pages
<1>12. Pages(h, G, sz2) = Pages(h, F, sz) \ (e..e+n-1)
  <2>1. Pages(h, G, sz2) \subseteq 0..h-1 /\ Pages(h, F, sz) \subseteq 0..h-1
    BY DEF Pages
  <2>2. QED BY <1>11, <2>1
<1>13. QED BY <1>7, <1>9, <1>10, <1>12 DEF TakesOut, Blocks

\* A whole block is taken.
LEMMA DropBlock ==
  ASSUME NEW h \in Nat, NEW F, NEW sz, Blocks(h, F, sz), NEW e \in F
  PROVE  TakesOut(h, F, sz, e..e+sz[e]-1, F \ {e}, sz)
<1>0. Sized(h, F, sz) /\ Apart(F, sz) /\ Gaps(F, sz)
  BY DEF Blocks
<1>1. Sized(h, F \ {e}, sz) /\ Apart(F \ {e}, sz) /\ Gaps(F \ {e}, sz)
  BY <1>0 DEF Sized, Apart, Gaps
<1>2. PICK s : s = sz[e]
  OBVIOUS
<1>3. \A x \in F : /\ x \in Nat /\ sz[x] \in Nat
                   /\ x < e => x + sz[x] <= e
                   /\ e < x => e + s <= x
  BY <1>0, <1>2 DEF Sized, Apart
<1>4. ASSUME NEW p \in 0..h-1
      PROVE p \in Pages(h, F \ {e}, sz) <=> p \in Pages(h, F, sz) /\ p \notin e..e+s-1
  <2>0. e \in Nat /\ s \in Nat /\ (p \in e..e+s-1 <=> e <= p /\ p < e + s)
    BY <1>2, <1>3
  <2>1. ASSUME NEW b \in F, b # e, b <= p, p < b + sz[b] PROVE ~(e <= p /\ p < e + s)
    <3>1. PICK u : u = sz[b]
      OBVIOUS
    <3>2. b \in Nat /\ u \in Nat /\ (b < e => b + u <= e) /\ (e < b => e + s <= b)
      BY <1>3, <3>1
    <3>3. QED BY <2>0, <2>1, <3>1, <3>2
  <2>2. QED BY <1>2, <2>0, <2>1 DEF Pages
<1>5. Pages(h, F \ {e}, sz) = Pages(h, F, sz) \ (e..e+s-1)
  <2>1. Pages(h, F \ {e}, sz) \subseteq 0..h-1 /\ Pages(h, F, sz) \subseteq 0..h-1
    BY DEF Pages
  <2>2. QED BY <1>4, <2>1
<1>6. QED BY <1>1, <1>2, <1>5 DEF TakesOut, Blocks


\* the block of n pages at e is put among the blocks F
PutsIn(h, F, sz, e, n, sz2) ==
  /\ e \notin F
  /\ Sized(h, F \cup {e}, sz2) /\ Apart(F \cup {e}, sz2)
  /\ Pages(h, F \cup {e}, sz2) = Pages(h, F, sz) \cup (e..e+n-1)
  /\ \A x, y \in F \cup {e} : x + sz2[x] = y => x = e \/ y = e

\* A block is put among the others.
LEMMA PutBlock ==
  ASSUME NEW h \in Nat, NEW F, NEW sz, Blocks(h, F, sz), NEW e \in Nat, NEW n \in Nat, 1 <= n, e + n <= h,
         \A p \in e..e+n-1 : p \notin Pages(h, F, sz),
         NEW sz2, sz2[e] = n, \A x \in F : x # e => sz2[x] = sz[x]
  PROVE  PutsIn(h, F, sz, e, n, sz2)
<1>0. Sized(h, F, sz) /\ Apart(F, sz) /\ Gaps(F, sz)
  BY DEF Blocks
<1>1. \A x \in F : x \in Nat /\ sz[x] \in Nat /\ 1 <= sz[x] /\ x + sz[x] <= h
  BY <1>0 DEF Sized
<1>2. ASSUME NEW x \in F PROVE x + sz[x] <= e \/ e + n <= x
  <2>1. PICK u : u = sz[x]
    OBVIOUS
  <2>2. x \in Nat /\ u \in Nat /\ 1 <= u /\ x + u <= h
    BY <1>1, <2>1
  <2> SUFFICES ASSUME ~(x + u <= e), ~(e + n <= x) PROVE FALSE
    BY <2>1
  <2>3. PICK m : m = IF x <= e THEN e ELSE x
    OBVIOUS
  <2>4. m \in Nat /\ e <= m /\ m < e + n /\ x <= m /\ m < x + u /\ m < h
    BY <2>2, <2>3
  <2>5. m \in 0..h-1 /\ m \in e..e+n-1
    BY <2>4
  <2>6. m \in Pages(h, F, sz)
    BY <2>1, <2>4, <2>5 DEF Pages
  <2>7. QED BY <2>5, <2>6
<1>3. e \notin F
  <2> SUFFICES ASSUME e \in F PROVE FALSE
    OBVIOUS
  <2>1. PICK u : u = sz[e]
    OBVIOUS
  <2>2. u \in Nat /\ 1 <= u /\ (e + u <= e \/ e + n <= e)
    BY <1>1, <1>2, <2>1
  <2>3. QED BY <2>2
<1>4. \A x \in F : x # e /\ sz2[x] = sz[x]
  BY <1>3
<1>5. Sized(h, F \cup {e}, sz2)
  BY <1>1, <1>4 DEF Sized
<1>6. ASSUME NEW x \in F \cup {e}, NEW y \in F \cup {e}, x < y PROVE x + sz2[x] <= y
  <2>1. CASE x = e
    <3>1. y \in F /\ y \in Nat
      BY <1>1, <1>6, <2>1
    <3>2. PICK u : u = sz[y]
      OBVIOUS
    <3>3. u \in Nat /\ 1 <= u /\ (y + u <= e \/ e + n <= y)
      BY <1>1, <1>2, <3>1, <3>2
    <3>4. QED BY <1>6, <2>1, <3>1, <3>3
  <2>2. CASE x # e /\ y = e
    <3>1. x \in F
      BY <2>2
    <3>2. PICK u : u = sz[x]
      OBVIOUS
    <3>3. x \in Nat /\ u \in Nat /\ 1 <= u /\ (x + u <= e \/ e + n <= x) /\ sz2[x] = u
      BY <1>1, <1>2, <1>4, <3>1, <3>2
    <3>4. QED BY <1>6, <2>2, <3>3
  <2>3. CASE x # e /\ y # e
    BY <1>0, <1>4, <1>6, <2>3 DEF Apart
  <2>4. QED BY <2>1, <2>2, <2>3
<1>7. ASSUME NEW x \in F \cup {e}, NEW y \in F \cup {e}, x + sz2[x] = y PROVE x = e \/ y = e
  BY <1>0, <1>4, <1>7 DEF Gaps
<1>8. ASSUME NEW p \in 0..h-1
      PROVE p \in Pages(h, F \cup {e}, sz2) <=> p \in Pages(h, F, sz) \/ p \in e..e+n-1
  <2>1. p \in e..e+n-1 <=> e <= p /\ p < e + n
    OBVIOUS
  <2>2. (\E b \in F \cup {e} : b <= p /\ p < b + sz2[b])
          <=> (\E b \in F : b <= p /\ p < b + sz[b]) \/ (e <= p /\ p < e + n)
    BY <1>4
  <2>3. QED BY <2>1, <2>2 DEF Pages
<1>9. Pages(h, F \cup {e}, sz2) = Pages(h, F, sz) \cup (e..e+n-1)
  <2>1. /\ Pages(h, F \cup {e}, sz2) \subseteq 0..h-1 /\ Pages(h, F, sz) \subseteq 0..h-1
        /\ e..e+n-1 \subseteq 0..h-1
    BY DEF Pages
  <2>2. QED BY <1>8, <2>1
<1>10. QED BY <1>3, <1>5, <1>6, <1>7, <1>9 DEF Apart, PutsIn

\* the block at p is joined to the one at e
Joins(h, F, sz, e, p, sz2) ==
  /\ e # p
  /\ Sized(h, F \ {p}, sz2) /\ Apart(F \ {p}, sz2)
  /\ Pages(h, F \ {p}, sz2) = Pages(h, F, sz)
  /\ \A x, y \in F \ {p} :
       x + sz2[x] = y => IF x = e THEN p + sz[p] = y ELSE x + sz[x] = y

\* The block at p is joined to the block at e in front of it.
LEMMA JoinBlocks ==
  ASSUME NEW h \in Nat, NEW F, NEW sz, Sized(h, F, sz), Apart(F, sz),
         NEW e \in F, NEW p \in F, e + sz[e] = p,
         NEW sz2, sz2[e] = sz[e] + sz[p], \A x \in F : x # e => sz2[x] = sz[x]
  PROVE  Joins(h, F, sz, e, p, sz2)
<1>1. PICK s, t : s = sz[e] /\ t = sz[p]
  OBVIOUS
<1>2. /\ e \in Nat /\ s \in Nat /\ 1 <= s /\ p \in Nat /\ p = e + s /\ e < p
      /\ t \in Nat /\ 1 <= t /\ p + t <= h /\ sz2[e] = s + t
  BY <1>1 DEF Sized
<1>3. \A x \in F : /\ x \in Nat /\ sz[x] \in Nat /\ 1 <= sz[x] /\ x + sz[x] <= h
                   /\ x < e => x + sz[x] <= e
                   /\ p < x => p + t <= x
                   /\ e < x => p <= x
  BY <1>1, <1>2 DEF Sized, Apart
<1>4. \A x \in F \ {p} : x \in F /\ x # p /\ (x # e => sz2[x] = sz[x])
  OBVIOUS
<1>5. Sized(h, F \ {p}, sz2)
  <2> SUFFICES ASSUME NEW x \in F \ {p}
               PROVE x \in Nat /\ sz2[x] \in Nat /\ 1 <= sz2[x] /\ x + sz2[x] <= h
    BY DEF Sized
  <2>1. CASE x = e
    BY <1>2, <2>1
  <2>2. CASE x # e
    BY <1>3, <1>4, <2>2
  <2>3. QED BY <2>1, <2>2
<1>6. ASSUME NEW x \in F \ {p}, NEW y \in F \ {p}, x < y PROVE x + sz2[x] <= y
  <2>1. CASE x = e
    BY <1>2, <1>3, <1>4, <1>6, <2>1
  <2>2. CASE x # e
    BY <1>4, <1>6, <2>2 DEF Apart
  <2>3. QED BY <2>1, <2>2
<1>7. ASSUME NEW q \in 0..h-1
      PROVE q \in Pages(h, F \ {p}, sz2) <=> q \in Pages(h, F, sz)
  <2>1. ASSUME NEW b \in F \ {p}, b <= q, q < b + sz2[b]
        PROVE  \E c \in F : c <= q /\ q < c + sz[c]
    <3>1. CASE b = e
      <4>1. CASE q < p
        BY <1>1, <1>2, <2>1, <3>1, <4>1
      <4>2. CASE ~(q < p)
        <5>1. p <= q /\ q < p + t
          BY <1>2, <2>1, <3>1, <4>2
        <5>2. QED BY <1>1, <5>1
      <4>3. QED BY <4>1, <4>2
    <3>2. CASE b # e
      BY <1>4, <2>1, <3>2
    <3>3. QED BY <3>1, <3>2
  <2>2. ASSUME NEW b \in F, b <= q, q < b + sz[b]
        PROVE  \E c \in F \ {p} : c <= q /\ q < c + sz2[c]
    <3>1. CASE b = e \/ b = p
      <4>1. e <= q /\ q < e + (s + t)
        BY <1>1, <1>2, <2>2, <3>1
      <4>2. e \in F \ {p}
        BY <1>2
      <4>3. QED BY <1>2, <4>1, <4>2
    <3>2. CASE b # e /\ b # p
      BY <1>4, <2>2, <3>2
    <3>3. QED BY <3>1, <3>2
  <2>3. QED BY <2>1, <2>2 DEF Pages
<1>8. Pages(h, F \ {p}, sz2) = Pages(h, F, sz)
  <2>1. Pages(h, F \ {p}, sz2) \subseteq 0..h-1 /\ Pages(h, F, sz) \subseteq 0..h-1
    BY DEF Pages
  <2>2. QED BY <1>7, <2>1
<1>9. ASSUME NEW x \in F \ {p}, NEW y \in F \ {p}, x + sz2[x] = y
      PROVE  IF x = e THEN p + sz[p] = y ELSE x + sz[x] = y
  BY <1>1, <1>2, <1>4, <1>9
<1>10. QED BY <1>2, <1>5, <1>6, <1>8, <1>9 DEF Apart, Joins

\* In the list, a block touches only the one next to it.
LEMMA TouchesNext ==
  ASSUME NEW h \in Nat, NEW F \in SUBSET (0..h-1), NEW nx, NEW pv, Linked(h, nx, pv, F),
         NEW sz, Sized(h, F, sz), Apart(F, sz), NEW e \in F, NEW y \in F
  PROVE  /\ e + sz[e] = y => nx[e] = y
         /\ y + sz[y] = e => pv[e] = y
<1>0. \A p \in F : p \in Nat /\ p < h /\ sz[p] \in Nat /\ 1 <= sz[p]
  BY DEF Sized
<1>1. \A x \in F \cup {h} :
        /\ nx[x] \in F \cup {h} /\ pv[x] \in F \cup {h} /\ pv[nx[x]] = x /\ nx[pv[x]] = x
        /\ x = h \/ x < nx[x]
        /\ \A p \in F : (x # h /\ p <= x) \/ nx[x] <= p
  BY DEF Linked
<1>2. ASSUME NEW x \in F, NEW z \in F, x + sz[x] = z PROVE nx[x] = z
  <2>1. PICK u, v : u = sz[x] /\ v = nx[x]
    OBVIOUS
  <2>2. u \in Nat /\ 1 <= u /\ x \in Nat /\ z \in Nat /\ x + u = z /\ z < h
    BY <1>0, <1>2, <2>1
  <2>3. v \in F \cup {h} /\ x < v
    BY <1>0, <1>1, <2>1
  <2>4. v <= z
    BY <1>1, <2>1, <2>2
  <2>5. v \in F
    BY <2>2, <2>3, <2>4
  <2>6. x + u <= v
    BY <2>1, <2>3, <2>5 DEF Apart
  <2>7. QED BY <1>0, <2>1, <2>2, <2>4, <2>5, <2>6
<1>3. ASSUME y + sz[y] = e PROVE pv[e] = y
  <2>1. nx[y] = e
    BY <1>2, <1>3
  <2>2. QED BY <1>1, <2>1
<1>4. QED BY <1>2, <1>3

------------------------------------------------------------------------------
(* Blocks that callers hold: pairs of a first page and a length. *)

HeldOk(h, m, held) ==
  /\ held \subseteq (0..h-1) \X (1..m)
  /\ \A g \in held : g[1] + g[2] <= h
  /\ \A g, k \in held : g # k => g[1] + g[2] <= k[1] \/ k[1] + k[2] <= g[1]
Used(h, held) == {p \in 0..h-1 : \E g \in held : g[1] <= p /\ p < g[1] + g[2]}

LEMMA HeldNumbers ==
  ASSUME NEW h \in Nat, NEW m \in Nat, NEW held, HeldOk(h, m, held), NEW g \in held
  PROVE  /\ g[1] \in Nat /\ g[1] < h /\ g[2] \in Nat /\ 1 <= g[2] /\ g[2] <= m
         /\ g[1] + g[2] <= h /\ g = <<g[1], g[2]>>
BY DEF HeldOk

Holds(h, m, held, e, n) ==
  /\ HeldOk(h, m, held \cup {<<e, n>>})
  /\ Used(h, held \cup {<<e, n>>}) = Used(h, held) \cup (e..e+n-1)

LEMMA HoldBlock ==
  ASSUME NEW h \in Nat, NEW m \in Nat, NEW held, HeldOk(h, m, held),
         NEW e \in Nat, NEW n \in 1..m, e + n <= h, 
         \A p \in e..e+n-1 : p \notin Used(h, held)
  PROVE  Holds(h, m, held, e, n)
<1> DEFINE k == <<e, n>>
<1>0. k[1] = e /\ k[2] = n /\ k \in (0..h-1) \X (1..m)
  OBVIOUS
<1> HIDE DEF k
<1>1. ASSUME NEW g \in held PROVE g[1] + g[2] <= e \/ e + n <= g[1]
  <2>1. PICK a, b : a = g[1] /\ b = g[2]
    OBVIOUS
  <2>2. a \in Nat /\ b \in Nat /\ 1 <= b /\ a + b <= h
    BY <2>1, HeldNumbers
  <2> SUFFICES ASSUME ~(a + b <= e), ~(e + n <= a) PROVE FALSE
    BY <2>1
  <2>3. PICK p : p = IF a <= e THEN e ELSE a
    OBVIOUS
  <2>4. p \in Nat /\ e <= p /\ p < e + n /\ a <= p /\ p < a + b /\ p < h
    BY <2>2, <2>3
  <2>5. p \in 0..h-1 /\ p \in e..e+n-1
    BY <2>4
  <2>6. p \in Used(h, held)
    BY <2>1, <2>4, <2>5 DEF Used
  <2>7. QED BY <2>5, <2>6
<1>2. HeldOk(h, m, held \cup {k})
  <2>1. held \cup {k} \subseteq (0..h-1) \X (1..m)
    BY <1>0 DEF HeldOk
  <2>2. \A g \in held \cup {k} : g[1] + g[2] <= h
    BY <1>0 DEF HeldOk
  <2>3. ASSUME NEW g \in held \cup {k}, NEW j \in held \cup {k}, g # j
        PROVE  g[1] + g[2] <= j[1] \/ j[1] + j[2] <= g[1]
    <3>1. CASE g = k
      BY <1>0, <1>1, <2>3, <3>1
    <3>2. CASE j = k
      BY <1>0, <1>1, <2>3, <3>2
    <3>3. CASE g # k /\ j # k
      BY <2>3, <3>3 DEF HeldOk
    <3>4. QED BY <3>1, <3>2, <3>3
  <2>4. QED BY <2>1, <2>2, <2>3 DEF HeldOk
<1>3. ASSUME NEW p \in 0..h-1
      PROVE p \in Used(h, held \cup {k}) <=> p \in Used(h, held) \/ p \in e..e+n-1
  <2>1. p \in e..e+n-1 <=> k[1] <= p /\ p < k[1] + k[2]
    BY <1>0
  <2>2. QED BY <2>1 DEF Used
<1>4. Used(h, held \cup {k}) = Used(h, held) \cup (e..e+n-1)
  <2>1. /\ Used(h, held \cup {k}) \subseteq 0..h-1 /\ Used(h, held) \subseteq 0..h-1
        /\ e..e+n-1 \subseteq 0..h-1
    BY DEF Used
  <2>2. QED BY <1>3, <2>1
<1>5. QED BY <1>2, <1>4 DEF k, Holds

GivesUp(h, m, held, e, n) ==
  /\ e..e+n-1 \subseteq Used(h, held)
  /\ HeldOk(h, m, held \ {<<e, n>>})
  /\ Used(h, held \ {<<e, n>>}) = Used(h, held) \ (e..e+n-1)

LEMMA GiveBlock ==
  ASSUME NEW h \in Nat, NEW m \in Nat, NEW held, HeldOk(h, m, held),
         NEW e, NEW n, <<e, n>> \in held
  PROVE  e \in Nat /\ n \in 1..m /\ e + n <= h /\ GivesUp(h, m, held, e, n)
<1> DEFINE k == <<e, n>>
<1>0. k[1] = e /\ k[2] = n /\ k \in held
  OBVIOUS
<1> HIDE DEF k
<1>1. e \in Nat /\ n \in 1..m /\ e + n <= h /\ n \in Nat
  BY <1>0, HeldNumbers
<1>2. HeldOk(h, m, held \ {k})
  BY DEF HeldOk
<1>3. ASSUME NEW p \in 0..h-1
      PROVE p \in Used(h, held \ {k}) <=> p \in Used(h, held) /\ ~(e <= p /\ p < e + n)
  <2>1. ASSUME NEW g \in held, g # k, g[1] <= p, p < g[1] + g[2] PROVE ~(e <= p /\ p < e + n)
    <3>1. PICK a, b : a = g[1] /\ b = g[2]
      OBVIOUS
    <3>2. a \in Nat /\ b \in Nat
      BY <3>1, HeldNumbers
    <3>3. a + b <= e \/ e + n <= a
      BY <1>0, <2>1, <3>1 DEF HeldOk
    <3>4. QED BY <1>1, <2>1, <3>1, <3>2, <3>3
  <2>2. QED BY <1>0, <2>1 DEF Used
<1>4. ASSUME NEW p \in e..e+n-1 PROVE p \in Used(h, held)
  <2>1. p \in 0..h-1 /\ e <= p /\ p < e + n
    BY <1>1
  <2>2. QED BY <1>0, <2>1 DEF Used
<1>5. Used(h, held \ {k}) = Used(h, held) \ (e..e+n-1)
  <2>1. Used(h, held \ {k}) \subseteq 0..h-1 /\ Used(h, held) \subseteq 0..h-1
    BY DEF Used
  <2>2. \A p \in 0..h-1 : p \in e..e+n-1 <=> e <= p /\ p < e + n
    BY <1>1
  <2>3. QED BY <1>3, <2>1, <2>2
<1>6. QED BY <1>1, <1>2, <1>4, <1>5 DEF k, GivesUp

\* A run of pages that nobody holds lies in one free block.
LEMMA RunInBlock ==
  ASSUME NEW h \in Nat, NEW F, NEW sz, Blocks(h, F, sz),
         NEW b \in Nat, NEW n \in Nat, 1 <= n, \A p \in b..b+n-1 : p \in Pages(h, F, sz)
  PROVE  \E c \in F : c <= b /\ n <= sz[c]
<1>0. \A x \in F : x \in Nat /\ sz[x] \in Nat /\ 1 <= sz[x] /\ x + sz[x] <= h
  BY DEF Blocks, Sized
<1>1. b \in b..b+n-1 /\ b \in Pages(h, F, sz)
  OBVIOUS
<1>2. PICK c \in F : c <= b /\ b < c + sz[c]
  BY <1>1 DEF Pages
<1>3. PICK s : s = sz[c]
  OBVIOUS
<1>4. c \in Nat /\ s \in Nat /\ 1 <= s /\ c <= b /\ b < c + s
  BY <1>0, <1>2, <1>3
<1>5. b + n <= c + s
  <2> SUFFICES ASSUME ~(b + n <= c + s) PROVE FALSE
    OBVIOUS
  <2>1. c + s \in b..b+n-1
    BY <1>4
  <2>2. PICK d \in F : d <= c + s /\ c + s < d + sz[d]
    BY <2>1 DEF Pages
  <2>3. PICK t : t = sz[d]
    OBVIOUS
  <2>4. d \in Nat /\ t \in Nat /\ d <= c + s /\ c + s < d + t
    BY <1>0, <2>2, <2>3
  <2>5. (c < d => c + s <= d /\ c + s # d) /\ (d < c => d + t <= c)
    BY <1>3, <2>3 DEF Blocks, Apart, Gaps
  <2>6. c # d
    BY <1>3, <2>3, <2>4, <1>4
  <2>7. QED BY <1>4, <2>4, <2>5, <2>6
<1>6. n <= s
  BY <1>4, <1>5
<1>7. QED BY <1>3, <1>4, <1>6

LEMMA CountWithout ==
  ASSUME NEW S, IsFiniteSet(S), NEW e \in Nat, NEW n \in Nat, 1 <= n, e..e+n-1 \subseteq S
  PROVE  /\ IsFiniteSet(S \ (e..e+n-1)) /\ n <= Cardinality(S)
         /\ Cardinality(S \ (e..e+n-1)) = Cardinality(S) - n
<1>1. e \in Int /\ e+n-1 \in Int /\ e <= e+n-1
  OBVIOUS
<1>2. IsFiniteSet(e..e+n-1) /\ Cardinality(e..e+n-1) = n
  BY <1>1, FS_Interval
<1>3. S \cap (e..e+n-1) = e..e+n-1
  OBVIOUS
<1>4. /\ IsFiniteSet(S \ (e..e+n-1))
      /\ Cardinality(S \ (e..e+n-1)) = Cardinality(S) - Cardinality(S \cap (e..e+n-1))
  BY FS_Difference
<1>5. Cardinality(e..e+n-1) <= Cardinality(S)
  BY FS_Subset
<1>6. QED BY <1>2, <1>3, <1>4, <1>5

LEMMA CountWith ==
  ASSUME NEW S, IsFiniteSet(S), NEW e \in Nat, NEW n \in Nat, 1 <= n,
         \A p \in e..e+n-1 : p \notin S
  PROVE  /\ IsFiniteSet(S \cup (e..e+n-1))
         /\ Cardinality(S \cup (e..e+n-1)) = Cardinality(S) + n
<1>1. e \in Int /\ e+n-1 \in Int /\ e <= e+n-1
  OBVIOUS
<1>2. IsFiniteSet(e..e+n-1) /\ Cardinality(e..e+n-1) = n
  BY <1>1, FS_Interval
<1>3. S \cap (e..e+n-1) = {}
  OBVIOUS
<1>4. /\ IsFiniteSet(S \cup (e..e+n-1))
      /\ Cardinality(S \cup (e..e+n-1))
           = Cardinality(S) + Cardinality(e..e+n-1) - Cardinality(S \cap (e..e+n-1))
  BY <1>2, FS_Union
<1>5. Cardinality(S \cap (e..e+n-1)) = 0 /\ Cardinality(S) \in Nat
  BY <1>3, FS_EmptySet, FS_CardinalityType
<1>6. QED BY <1>2, <1>4, <1>5

LEMMA CountBelow ==
  ASSUME NEW h \in Nat, NEW S \in SUBSET (0..h-1)
  PROVE  IsFiniteSet(S) /\ Cardinality(S) \in 0..h
<1>1. IsFiniteSet(0..h-1) /\ Cardinality(0..h-1) = h
  BY FS_Interval
<1>2. IsFiniteSet(S) /\ Cardinality(S) <= Cardinality(0..h-1)
  BY <1>1, FS_Subset
<1>3. QED BY <1>1, <1>2, FS_CardinalityType

LEMMA CountOne ==
  ASSUME NEW S, NEW s \in S, \A x \in S : x = s
  PROVE  Cardinality(S) = 1
<1>1. S = {s}
  OBVIOUS
<1>2. QED BY <1>1, FS_Singleton

OwnedOnce(held, F, sz, p) ==
  Cardinality({g \in held : p \in g[1]..g[1]+g[2]-1})
    + Cardinality({b \in F : p \in b..b+sz[b]-1}) = 1

\* Every page has one owner, when the free pages are those that nobody holds.
LEMMA OneOwner ==
  ASSUME NEW h \in Nat, NEW m \in Nat, NEW held, HeldOk(h, m, held),
         NEW F, NEW sz, Sized(h, F, sz), Apart(F, sz),
         Pages(h, F, sz) = (0..h-1) \ Used(h, held), NEW p \in 0..h-1
  PROVE  OwnedOnce(held, F, sz, p)
<1> DEFINE A == {g \in held : p \in g[1]..g[1]+g[2]-1}
           B == {b \in F : p \in b..b+sz[b]-1}
<1>1. \A g \in held : g \in A <=> g[1] <= p /\ p < g[1] + g[2]
  <2> TAKE g \in held
  <2>1. g[1] \in Nat /\ g[2] \in Nat
    BY HeldNumbers
  <2>2. QED BY <2>1
<1>2. \A b \in F : b \in B <=> b <= p /\ p < b + sz[b]
  BY DEF Sized
<1>3. p \in Used(h, held) <=> A # {}
  BY <1>1 DEF Used
<1>4. p \in Pages(h, F, sz) <=> B # {}
  BY <1>2 DEF Pages
<1>5. ASSUME NEW g \in A, NEW k \in A PROVE g = k
  <2>1. g \in held /\ k \in held /\ g[1] <= p /\ p < g[1] + g[2] /\ k[1] <= p /\ p < k[1] + k[2]
    BY <1>1
  <2>2. g # k => g[1] + g[2] <= k[1] \/ k[1] + k[2] <= g[1]
    BY <2>1 DEF HeldOk
  <2>3. PICK a, b, c, d : a = g[1] /\ b = g[2] /\ c = k[1] /\ d = k[2]
    OBVIOUS
  <2>4. a \in Nat /\ b \in Nat /\ c \in Nat /\ d \in Nat
    BY <2>1, <2>3, HeldNumbers
  <2>5. QED BY <2>1, <2>2, <2>3, <2>4
<1>6. ASSUME NEW g \in B, NEW k \in B PROVE g = k
  <2>1. g \in F /\ k \in F /\ g <= p /\ p < g + sz[g] /\ k <= p /\ p < k + sz[k]
    BY <1>2
  <2>2. (g < k => g + sz[g] <= k) /\ (k < g => k + sz[k] <= g)
    BY <2>1 DEF Apart
  <2>3. PICK b, d : b = sz[g] /\ d = sz[k]
    OBVIOUS
  <2>4. g \in Nat /\ b \in Nat /\ k \in Nat /\ d \in Nat
    BY <2>1, <2>3 DEF Sized
  <2>5. QED BY <2>1, <2>2, <2>3, <2>4
<1> HIDE DEF A, B
<1> SUFFICES Cardinality(A) + Cardinality(B) = 1
  BY DEF A, B, OwnedOnce
<1>7. Cardinality({}) = 0
  BY FS_EmptySet
<1>8. CASE p \in Used(h, held)
  <2>1. B = {} /\ A # {}
    BY <1>3, <1>4, <1>8
  <2>2. PICK g : g \in A
    BY <2>1
  <2>3. Cardinality(A) = 1
    BY <1>5, <2>2, CountOne
  <2>4. QED BY <1>7, <2>1, <2>3
<1>9. CASE p \notin Used(h, held)
  <2>1. A = {} /\ B # {}
    BY <1>3, <1>4, <1>9
  <2>2. PICK g : g \in B
    BY <2>1
  <2>3. Cardinality(B) = 1
    BY <1>6, <2>2, CountOne
  <2>4. QED BY <1>7, <2>1, <2>3
<1>10. QED BY <1>8, <1>9

LEMMA MaxIn ==
  ASSUME NEW n \in Nat, NEW S, S \subseteq 0..n, S # {}
  PROVE  Max(S) \in S /\ \A x \in S : x <= Max(S)
<1> DEFINE U == {k \in Nat : \A x \in S : x <= k}
<1>0. S \subseteq Nat
  OBVIOUS
<1>1. n \in U
  OBVIOUS
<1>2. PICK m : m = Min(U)
  OBVIOUS
<1>3. m \in U /\ \A k \in U : m <= k
  <2>1. U \subseteq Nat /\ U # {}
    BY <1>1
  <2> HIDE DEF U
  <2>2. QED BY <1>2, <2>1, MinIn
<1>4. m \in Nat /\ \A x \in S : x <= m
  BY <1>3
<1>5. m \in S
  <2> SUFFICES ASSUME m \notin S PROVE FALSE
    OBVIOUS
  <2>1. \A x \in S : x <= m - 1
    BY <1>0, <1>4
  <2>2. m # 0
    <3>1. PICK x \in S : TRUE
      OBVIOUS
    <3>2. x \in Nat /\ x <= m /\ x # m
      BY <1>0, <1>4
    <3>3. QED BY <1>4, <3>2
  <2>3. m - 1 \in U
    BY <1>4, <2>1, <2>2
  <2>4. m <= m - 1
    BY <1>3, <2>3
  <2>5. QED BY <1>4, <2>4
<1>6. \E x \in S : \A y \in S : x >= y
  BY <1>0, <1>4, <1>5
<1>7. Max(S) \in S /\ \A y \in S : Max(S) >= y
  BY <1>6 DEF Max
<1>8. QED BY <1>0, <1>7

\* A part of a sequence.
LEMMA SubSeqAt ==
  ASSUME NEW S, NEW s \in Seq(S), NEW m \in 1..Len(s)+1, NEW n \in m-1..Len(s)
  PROVE  /\ SubSeq(s, m, n) \in Seq(S)
         /\ Len(SubSeq(s, m, n)) = n - m + 1
         /\ \A k \in 1..n - m + 1 : SubSeq(s, m, n)[k] = s[m + k - 1]
<1>0. Len(s) \in Nat
  BY LenProperties
<1>1. m \in Int /\ n \in Int /\ \A i \in m..n : i \in 1..Len(s)
  BY <1>0
<1>2. \A i \in m..n : s[i] \in S
  BY <1>1, ElementOfSeq
<1>3. /\ SubSeq(s, m, n) \in Seq(S)
      /\ Len(SubSeq(s, m, n)) = IF m <= n THEN n - m + 1 ELSE 0
      /\ \A i \in 1..n - m + 1 : SubSeq(s, m, n)[i] = s[m + i - 1]
  BY <1>1, <1>2, SubSeqProperties
<1>4. (IF m <= n THEN n - m + 1 ELSE 0) = n - m + 1
  BY <1>0
<1>5. QED BY <1>3, <1>4

\* A sequence with x before its i-th element.
LEMMA InsertAtAt ==
  ASSUME NEW S, NEW s \in Seq(S), NEW x \in S, NEW i \in 1..Len(s)+1
  PROVE  /\ InsertAt(s, i, x) \in Seq(S)
         /\ Len(InsertAt(s, i, x)) = Len(s) + 1
         /\ \A k \in 1..Len(s)+1 :
              InsertAt(s, i, x)[k] = IF k < i THEN s[k] ELSE IF k = i THEN x ELSE s[k - 1]
<1> DEFINE a == SubSeq(s, 1, i - 1)
           b == SubSeq(s, i, Len(s))
<1>0. Len(s) \in Nat /\ i \in Nat /\ 1 <= i /\ i <= Len(s) + 1
  BY LenProperties
<1>1. /\ a \in Seq(S) /\ Len(a) = i - 1
      /\ \A k \in 1..i - 1 : a[k] = s[k]
  <2>1. 1 \in 1..Len(s)+1 /\ i - 1 \in 1-1..Len(s)
    BY <1>0
  <2>2. /\ a \in Seq(S) /\ Len(a) = (i - 1) - 1 + 1
        /\ \A k \in 1..(i - 1) - 1 + 1 : a[k] = s[1 + k - 1]
    BY <2>1, SubSeqAt
  <2> HIDE DEF a
  <2>3. QED BY <1>0, <2>2
<1>2. /\ b \in Seq(S) /\ Len(b) = Len(s) - i + 1
      /\ \A k \in 1..Len(s) - i + 1 : b[k] = s[i + k - 1]
  <2>1. Len(s) \in i-1..Len(s)
    BY <1>0
  <2>2. QED BY <2>1, SubSeqAt
<1>3. <<x>> \in Seq(S) /\ Len(<<x>>) = 1 /\ <<x>>[1] = x
  OBVIOUS
<1>4. InsertAt(s, i, x) = (a \o <<x>>) \o b
  BY DEF InsertAt
<1> HIDE DEF a, b
<1> DEFINE c == a \o <<x>>
<1>5. /\ c \in Seq(S) /\ Len(c) = i
      /\ \A k \in 1..i - 1 : c[k] = a[k]
      /\ c[i] = x
  <2>1. /\ c \in Seq(S) /\ Len(c) = Len(a) + Len(<<x>>)
        /\ \A k \in 1..Len(a) : c[k] = a[k]
        /\ \A k \in 1..Len(<<x>>) : c[Len(a) + k] = <<x>>[k]
    BY <1>1, <1>3, ConcatAt
  <2> HIDE DEF c
  <2>2. c[Len(a) + 1] = x
    BY <1>3, <2>1
  <2>3. QED BY <1>0, <1>1, <1>3, <2>1, <2>2
<1> HIDE DEF c
<1> DEFINE d == c \o b
<1>6. /\ d \in Seq(S) /\ Len(d) = Len(c) + Len(b)
      /\ \A k \in 1..Len(c) : d[k] = c[k]
      /\ \A k \in 1..Len(b) : d[Len(c) + k] = b[k]
  BY <1>2, <1>5, ConcatAt
<1> HIDE DEF d
<1>7. Len(d) = Len(s) + 1
  BY <1>0, <1>2, <1>5, <1>6
<1>8. ASSUME NEW k \in 1..Len(s)+1
      PROVE  d[k] = IF k < i THEN s[k] ELSE IF k = i THEN x ELSE s[k - 1]
  <2>1. CASE k < i
    <3>1. k \in 1..i - 1 /\ k \in 1..Len(c)
      BY <1>0, <1>5, <2>1
    <3>2. QED BY <1>1, <1>5, <1>6, <2>1, <3>1
  <2>2. CASE k = i
    <3>1. k \in 1..Len(c) /\ ~(k < i)
      BY <1>0, <1>5, <2>2
    <3>2. QED BY <1>5, <1>6, <2>2, <3>1
  <2>3. CASE k > i
    <3>1. PICK j : j = k - i
      OBVIOUS
    <3>2. j \in 1..Len(s) - i + 1 /\ j \in 1..Len(b) /\ Len(c) + j = k /\ i + j - 1 = k - 1
          /\ ~(k < i) /\ k # i
      BY <1>0, <1>2, <1>5, <2>3, <3>1
    <3>3. d[Len(c) + j] = b[j] /\ b[j] = s[i + j - 1]
      BY <1>2, <1>6, <3>2
    <3>4. QED BY <3>2, <3>3
  <2>4. QED BY <1>0, <2>1, <2>2, <2>3
<1>9. InsertAt(s, i, x) = d
  BY <1>4 DEF d, c
<1>10. QED BY <1>6, <1>7, <1>8, <1>9

------------------------------------------------------------------------------
(* Loops over the numbers below n that are in a set. *)

\* what holds of Z at the beginning of a loop holds after each of n steps
Along(n, g, Z) == \A k \in 0..n : <<k, g[k]>> \in Z
StaysIn(n, A, step, Z) ==
  \A k \in 0..n - 1 : \A x \in A : <<k, x>> \in Z => <<k + 1, step[<<k, x>>]>> \in Z

\* A property that each step keeps holds along the loop.
LEMMA LoopTo ==
  ASSUME NEW n \in Nat, NEW A, NEW a \in A, NEW step \in Steps(A), NEW Z,
         <<0, a>> \in Z, StaysIn(n, A, step, Z)
  PROVE  \E g : Follows(g, A, a, step) /\ Along(n, g, Z)
<1>1. PICK g : Follows(g, A, a, step)
  BY Recursion
<1>2. g \in [Nat -> A] /\ g[0] = a /\ \A k \in Nat : g[k + 1] = step[<<k, g[k]>>]
  BY <1>1 DEF Follows
<1> DEFINE Q == {k \in 0..n : <<k, g[k]>> \in Z}
<1>3. 0 \in Q
  BY <1>2
<1>4. ASSUME NEW k \in 0..n - 1, k \in Q PROVE k + 1 \in Q
  <2>1. k \in Nat /\ k + 1 \in 0..n /\ g[k] \in A /\ <<k, g[k]>> \in Z
    BY <1>2, <1>4
  <2>2. <<k + 1, step[<<k, g[k]>>]>> \in Z
    BY <2>1 DEF StaysIn
  <2>3. g[k + 1] = step[<<k, g[k]>>]
    BY <1>2, <2>1
  <2>4. QED BY <2>1, <2>2, <2>3
<1> HIDE DEF Q
<1>5. \A k \in 0..n : k \in Q
  BY <1>3, <1>4, ReachesUpTo
<1>6. Along(n, g, Z)
  BY <1>5 DEF Along, Q
<1>7. QED BY <1>1, <1>6

Below(U, k) == {v \in U : v < k}

\* Below begins with nothing and ends with everything.
LEMMA BelowEnds ==
  ASSUME NEW n \in Nat, NEW U, U \subseteq 0..n - 1
  PROVE  Below(U, 0) = {} /\ Below(U, n) = U
<1>1. \A v \in U : ~(v < 0) /\ v < n
  OBVIOUS
<1>2. QED BY <1>1, Zenon DEF Below

\* A step over a member adds it.
LEMMA BelowWith ==
  ASSUME NEW n \in Nat, NEW U, U \subseteq 0..n - 1, NEW k \in U
  PROVE  Below(U, k + 1) = Below(U, k) \cup {k}
<1>1. \A v \in U : v < k + 1 <=> v < k \/ v = k
  OBVIOUS
<1>2. QED BY <1>1, Zenon DEF Below

\* A step over another number adds nothing.
LEMMA BelowWithout ==
  ASSUME NEW n \in Nat, NEW U, U \subseteq 0..n - 1, NEW k \in Nat, k \notin U
  PROVE  Below(U, k + 1) = Below(U, k)
<1>1. \A v \in U : v < k + 1 <=> v < k
  OBVIOUS
<1>2. QED BY <1>1, Zenon DEF Below
===============================================================================
