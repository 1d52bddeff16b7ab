------------------------------ MODULE HeapProofs ------------------------------
(* The two heaps of run parts: the kernel heap, and the skew heap of the stride      *)
(* policy behind it.                                                                  *)
EXTENDS MCParts, Lemmas, FiniteSetTheorems

------------------------------------------------------------------------------
(* The kernel heap, for every size of a page, of a unit and of a node, any number   *)
(* of pages and any sizes that are asked for.  Every unit of the heap has one        *)
(* owner: a free block, an object, a large object or a page that is left.  A call    *)
(* takes a step or two in which owners exchange units; between them the block that   *)
(* is under way is an owner too, "taken".  The ring is read as a function of its     *)
(* addresses, which goes up and closes once; slob_free finds the gap of a block in   *)
(* it, so that joining it with the block in front and the one behind leaves no two   *)
(* free blocks that touch.                                                           *)

(* Rings of numbers. *)

\* the place behind k in a ring of n
AfterIn(n, k) == IF k = n THEN 1 ELSE k + 1

\* none of the numbers a is between x and y, or, where the ring closes, outside
NoneBetween(n, a, x, y) ==
  \/ x < y /\ \A j \in 1..n : a[j] <= x \/ y <= a[j]
  \/ y <= x /\ \A j \in 1..n : y <= a[j] /\ a[j] <= x

\* the numbers a are different, and go up around the ring
Cyclic(n, a) ==
  /\ \A j, k \in 1..n : a[j] = a[k] => j = k
  /\ \A k \in 1..n : NoneBetween(n, a, a[k], a[AfterIn(n, k)])

\* where c fits between x and y in the ring
InGap(x, y, c) == (x < c /\ c < y) \/ (y <= x /\ (x < c \/ c < y))

\* d is a without its second number
Skips(n, a, d) ==
  /\ n \in Nat /\ n >= 2 /\ a \in [1..n -> Nat] /\ d \in [1..n - 1 -> Nat]
  /\ d[1] = a[1] /\ \A j \in 2..n - 1 : d[j] = a[j + 1]

\* d is a with c as its second number
Takes(n, a, c, d) ==
  /\ n \in Nat /\ n >= 1 /\ a \in [1..n -> Nat] /\ d \in [1..n + 1 -> Nat] /\ c \in Nat
  /\ d[1] = a[1] /\ d[2] = c /\ \A j \in 2..n : d[j + 1] = a[j]
  /\ InGap(a[1], a[AfterIn(n, 1)], c) /\ \A j \in 1..n : a[j] # c

\* A ring without its second number, and what fits in its place.
LEMMA CyclicWithout ==
  ASSUME NEW n, NEW a, NEW d, Cyclic(n, a), Skips(n, a, d)
  PROVE  /\ Cyclic(n - 1, d)
         /\ \A c \in Nat : InGap(a[1], a[2], c) \/ c = a[2] \/ InGap(a[2], a[AfterIn(n, 2)], c)
                             => InGap(d[1], d[AfterIn(n - 1, 1)], c)
<1> USE DEF Skips
<1>1. /\ a[1] # a[2] /\ NoneBetween(n, a, a[1], a[2])
      /\ NoneBetween(n, a, a[2], a[AfterIn(n, 2)])
      /\ a[1] \in Nat /\ a[2] \in Nat /\ a[AfterIn(n, 2)] \in Nat
      /\ d[AfterIn(n - 1, 1)] = a[AfterIn(n, 2)] /\ a[AfterIn(n, 2)] # a[2]
      /\ \A j \in 1..n : a[j] \in Nat /\ (j = 2 \/ a[j] # a[2])
  <2>1. AfterIn(n, 1) = 2 /\ 1 \in 1..n /\ 2 \in 1..n /\ AfterIn(n, 2) \in 1..n /\ AfterIn(n, 2) # 2
    BY DEF AfterIn
  <2>2. d[AfterIn(n - 1, 1)] = a[AfterIn(n, 2)]
    <3>1. CASE n = 2
      BY <3>1 DEF AfterIn
    <3>2. CASE n > 2
      <4>1. 2 \in 2..n - 1
        BY <3>2
      <4>2. QED BY <3>2, <4>1 DEF AfterIn
    <3>3. QED BY <3>1, <3>2
  <2>3. QED BY <2>1, <2>2 DEF Cyclic
<1>2. PICK x \in Nat, y \in Nat, z \in Nat : x = a[1] /\ y = a[2] /\ z = a[AfterIn(n, 2)]
  BY <1>1
<1>3. \A j \in 1..n - 1 : \E i \in 1..n : i # 2 /\ d[j] = a[i] /\ i = IF j = 1 THEN 1 ELSE j + 1
  <2> SUFFICES ASSUME NEW j \in 1..n - 1
               PROVE \E i \in 1..n : i # 2 /\ d[j] = a[i] /\ i = IF j = 1 THEN 1 ELSE j + 1
    OBVIOUS
  <2>1. CASE j = 1
    BY <2>1
  <2>2. CASE j # 1
    <3>1. j \in 2..n - 1 /\ j + 1 \in 1..n /\ j + 1 # 2
      BY <2>2
    <3>2. QED BY <2>2, <3>1
  <2>3. QED BY <2>1, <2>2
<1>4. ASSUME NEW i \in 1..n, i # 2
      PROVE  \/ x < z /\ (a[i] <= x \/ z <= a[i])
             \/ z <= x /\ z <= a[i] /\ a[i] <= x
  <2>1. \/ x < y /\ (a[i] <= x \/ y <= a[i]) /\ (z <= x \/ y <= z)
        \/ y <= x /\ y <= a[i] /\ a[i] <= x /\ y <= z /\ z <= x
    <3>1. AfterIn(n, 2) \in 1..n
      BY DEF AfterIn
    <3>2. QED BY <1>1, <1>2, <3>1 DEF NoneBetween
  <2>2. \/ y < z /\ (a[i] <= y \/ z <= a[i]) /\ (x <= y \/ z <= x)
        \/ z <= y /\ z <= a[i] /\ a[i] <= y /\ z <= x /\ x <= y
    BY <1>1, <1>2 DEF NoneBetween
  <2>3. a[i] \in Nat /\ a[i] # y /\ x # y /\ z # y
    BY <1>1, <1>2, <1>4
  <2>4. PICK w \in Nat : w = a[i]
    BY <2>3
  <2>5. QED BY <2>1, <2>2, <2>3, <2>4
<1>5. \A j, k \in 1..n - 1 : d[j] = d[k] => j = k
  <2> SUFFICES ASSUME NEW j \in 1..n - 1, NEW k \in 1..n - 1, d[j] = d[k] PROVE j = k
    OBVIOUS
  <2>1. PICK i \in 1..n : d[j] = a[i] /\ i = IF j = 1 THEN 1 ELSE j + 1
    BY <1>3
  <2>2. PICK m \in 1..n : d[k] = a[m] /\ m = IF k = 1 THEN 1 ELSE k + 1
    BY <1>3
  <2>3. i = m
    BY <2>1, <2>2 DEF Cyclic
  <2>4. QED BY <2>1, <2>2, <2>3
<1>6. ASSUME NEW k \in 1..n - 1
      PROVE  NoneBetween(n - 1, d, d[k], d[AfterIn(n - 1, k)])
  <2>1. CASE k = 1
    <3>1. d[k] = x /\ d[AfterIn(n - 1, k)] = z
      BY <1>1, <1>2, <2>1
    <3>2. \A j \in 1..n - 1 : \/ x < z /\ (d[j] <= x \/ z <= d[j])
                              \/ z <= x /\ z <= d[j] /\ d[j] <= x
      BY <1>3, <1>4
    <3>3. QED BY <3>1, <3>2 DEF NoneBetween
  <2>2. CASE k # 1
    <3>1. k + 1 \in 1..n /\ d[k] = a[k + 1] /\ d[AfterIn(n - 1, k)] = a[AfterIn(n, k + 1)]
      <4>1. k \in 2..n - 1
        BY <2>2
      <4>2. CASE k = n - 1
        BY <4>1, <4>2 DEF AfterIn
      <4>3. CASE k # n - 1
        <5>1. k + 1 \in 2..n - 1
          BY <4>1, <4>3
        <5>2. QED BY <4>1, <4>3, <5>1 DEF AfterIn
      <4>4. QED BY <4>2, <4>3
    <3>2. NoneBetween(n, a, a[k + 1], a[AfterIn(n, k + 1)])
      BY <3>1 DEF Cyclic
    <3>3. QED BY <1>3, <3>1, <3>2 DEF NoneBetween
  <2>3. QED BY <2>1, <2>2
<1>7. ASSUME NEW c \in Nat, InGap(a[1], a[2], c) \/ c = a[2] \/ InGap(a[2], a[AfterIn(n, 2)], c)
      PROVE  InGap(d[1], d[AfterIn(n - 1, 1)], c)
  <2>1. InGap(x, y, c) \/ c = y \/ InGap(y, z, c)
    BY <1>2, <1>7
  <2>2. x # y /\ z # y
    BY <1>1, <1>2
  <2>3. \/ x < y /\ (z <= x \/ y <= z)
        \/ y <= x /\ y <= z /\ z <= x
    <3>1. AfterIn(n, 2) \in 1..n
      BY DEF AfterIn
    <3>2. QED BY <1>1, <1>2, <3>1 DEF NoneBetween
  <2>4. \/ y < z /\ (x <= y \/ z <= x)
        \/ z <= y /\ z <= x /\ x <= y
    BY <1>1, <1>2 DEF NoneBetween
  <2>5. InGap(x, z, c)
    BY <2>1, <2>2, <2>3, <2>4 DEF InGap
  <2>6. QED BY <1>1, <1>2, <2>5
<1>8. QED BY <1>5, <1>6, <1>7 DEF Cyclic

\* A ring with c as its second number.
LEMMA CyclicWith ==
  ASSUME NEW n, NEW a, NEW c, NEW d, Cyclic(n, a), Takes(n, a, c, d)
  PROVE  Cyclic(n + 1, d)
<1> USE DEF Takes
<1>0. AfterIn(n, 1) \in 1..n /\ 1 \in 1..n
  BY DEF AfterIn
<1>1. PICK x \in Nat, y \in Nat : x = a[1] /\ y = a[AfterIn(n, 1)]
  BY <1>0
<1>2. /\ NoneBetween(n, a, x, y) /\ InGap(x, y, c) /\ x # c /\ y # c
      /\ \A j \in 1..n : a[j] \in Nat /\ a[j] # c
  BY <1>0, <1>1 DEF Cyclic
<1>3. \A j \in 1..n + 1 : \/ j = 2 /\ d[j] = c
                          \/ \E i \in 1..n : d[j] = a[i] /\ i = IF j = 1 THEN 1 ELSE j - 1
  <2> SUFFICES ASSUME NEW j \in 1..n + 1, j # 2
               PROVE  \E i \in 1..n : d[j] = a[i] /\ i = IF j = 1 THEN 1 ELSE j - 1
    OBVIOUS
  <2>1. CASE j = 1
    BY <2>1
  <2>2. CASE j # 1
    <3>1. j - 1 \in 2..n /\ (j - 1) + 1 = j
      BY <2>2
    <3>2. QED BY <2>2, <3>1
  <2>3. QED BY <2>1, <2>2
<1>5. \A j, k \in 1..n + 1 : d[j] = d[k] => j = k
  <2> SUFFICES ASSUME NEW j \in 1..n + 1, NEW k \in 1..n + 1, d[j] = d[k] PROVE j = k
    OBVIOUS
  <2>1. CASE j = 2
    BY <1>2, <1>3, <2>1
  <2>2. CASE k = 2
    BY <1>2, <1>3, <2>2
  <2>3. CASE j # 2 /\ k # 2
    <3>1. PICK i \in 1..n : d[j] = a[i] /\ i = IF j = 1 THEN 1 ELSE j - 1
      BY <1>3, <2>3
    <3>2. PICK m \in 1..n : d[k] = a[m] /\ m = IF k = 1 THEN 1 ELSE k - 1
      BY <1>3, <2>3
    <3>3. i = m
      BY <3>1, <3>2 DEF Cyclic
    <3>4. QED BY <2>3, <3>1, <3>2, <3>3
  <2>4. QED BY <2>1, <2>2, <2>3
<1>6. \A j \in 1..n + 1 : d[j] = c \/ \E i \in 1..n : d[j] = a[i]
  BY <1>3
<1>7. d[AfterIn(n + 1, 2)] = y /\ AfterIn(n + 1, 1) = 2
  <2>1. CASE n = 1
    BY <1>1, <2>1 DEF AfterIn
  <2>2. CASE n > 1
    <3>1. 2 \in 2..n
      BY <2>2
    <3>2. d[2 + 1] = a[2]
      BY <3>1
    <3>3. QED BY <1>1, <2>2, <3>2 DEF AfterIn
  <2>3. QED BY <2>1, <2>2
<1>8. \A i \in 1..n : \/ x < y /\ (a[i] <= x \/ y <= a[i])
                      \/ y <= x /\ y <= a[i] /\ a[i] <= x
  BY <1>2 DEF NoneBetween
<1>9. ASSUME NEW k \in 1..n + 1
      PROVE  NoneBetween(n + 1, d, d[k], d[AfterIn(n + 1, k)])
  <2>1. CASE k = 1
    <3>1. d[k] = x /\ d[AfterIn(n + 1, k)] = c
      BY <1>1, <1>7, <2>1
    <3>2. \/ x < c /\ \A i \in 1..n : a[i] <= x \/ c <= a[i]
          \/ c < x /\ \A i \in 1..n : c <= a[i] /\ a[i] <= x
      BY <1>2, <1>8 DEF InGap
    <3>3. NoneBetween(n + 1, d, x, c)
      <4>1. CASE x < c /\ \A i \in 1..n : a[i] <= x \/ c <= a[i]
        <5>1. ASSUME NEW j \in 1..n + 1 PROVE d[j] <= x \/ c <= d[j]
          <6>1. CASE d[j] = c
            BY <1>2, <4>1, <6>1
          <6>2. ASSUME NEW i \in 1..n, d[j] = a[i] PROVE d[j] <= x \/ c <= d[j]
            <7>1. a[i] \in Nat
              BY <1>2
            <7>2. QED BY <4>1, <6>2, <7>1
          <6>3. QED BY <1>6, <6>1, <6>2
        <5>2. QED BY <4>1, <5>1 DEF NoneBetween
      <4>2. CASE c < x /\ \A i \in 1..n : c <= a[i] /\ a[i] <= x
        <5>1. ASSUME NEW j \in 1..n + 1 PROVE c <= d[j] /\ d[j] <= x
          <6>1. CASE d[j] = c
            BY <1>2, <4>2, <6>1
          <6>2. ASSUME NEW i \in 1..n, d[j] = a[i] PROVE c <= d[j] /\ d[j] <= x
            <7>1. a[i] \in Nat
              BY <1>2
            <7>2. QED BY <4>2, <6>2, <7>1
          <6>3. QED BY <1>6, <6>1, <6>2
        <5>2. c <= x
          BY <1>2, <4>2
        <5>3. QED BY <5>1, <5>2 DEF NoneBetween
      <4>3. QED BY <3>2, <4>1, <4>2
    <3>4. QED BY <3>1, <3>3
  <2>2. CASE k = 2
    <3>1. d[k] = c /\ d[AfterIn(n + 1, k)] = y
      BY <1>7, <2>2
    <3>2. \/ c < y /\ \A i \in 1..n : a[i] <= c \/ y <= a[i]
          \/ y < c /\ \A i \in 1..n : y <= a[i] /\ a[i] <= c
      BY <1>2, <1>8 DEF InGap
    <3>3. NoneBetween(n + 1, d, c, y)
      <4>1. CASE c < y /\ \A i \in 1..n : a[i] <= c \/ y <= a[i]
        <5>1. ASSUME NEW j \in 1..n + 1 PROVE d[j] <= c \/ y <= d[j]
          <6>1. CASE d[j] = c
            BY <1>2, <4>1, <6>1
          <6>2. ASSUME NEW i \in 1..n, d[j] = a[i] PROVE d[j] <= c \/ y <= d[j]
            <7>1. a[i] \in Nat
              BY <1>2
            <7>2. QED BY <4>1, <6>2, <7>1
          <6>3. QED BY <1>6, <6>1, <6>2
        <5>2. QED BY <4>1, <5>1 DEF NoneBetween
      <4>2. CASE y < c /\ \A i \in 1..n : y <= a[i] /\ a[i] <= c
        <5>1. ASSUME NEW j \in 1..n + 1 PROVE y <= d[j] /\ d[j] <= c
          <6>1. CASE d[j] = c
            BY <1>2, <4>2, <6>1
          <6>2. ASSUME NEW i \in 1..n, d[j] = a[i] PROVE y <= d[j] /\ d[j] <= c
            <7>1. a[i] \in Nat
              BY <1>2
            <7>2. QED BY <4>2, <6>2, <7>1
          <6>3. QED BY <1>6, <6>1, <6>2
        <5>2. y <= c
          BY <1>2, <4>2
        <5>3. QED BY <5>1, <5>2 DEF NoneBetween
      <4>3. QED BY <3>2, <4>1, <4>2
    <3>4. QED BY <3>1, <3>3
  <2>3. CASE k > 2
    <3>1. k - 1 \in 2..n /\ d[k] = a[k - 1] /\ d[AfterIn(n + 1, k)] = a[AfterIn(n, k - 1)]
      <4>1. k - 1 \in 2..n /\ (k - 1) + 1 = k
        BY <2>3
      <4>2. d[k] = a[k - 1]
        BY <4>1
      <4>3. CASE k = n + 1
        BY <4>1, <4>3 DEF AfterIn
      <4>4. CASE k # n + 1
        <5>1. k \in 2..n
          BY <2>3, <4>4
        <5>2. QED BY <4>1, <4>2, <4>4, <5>1 DEF AfterIn
      <4>5. QED BY <4>1, <4>2, <4>3, <4>4
    <3>2. NoneBetween(n, a, a[k - 1], a[AfterIn(n, k - 1)])
      BY <3>1 DEF Cyclic
    <3>3. PICK u \in Nat, v \in Nat : u = a[k - 1] /\ v = a[AfterIn(n, k - 1)]
      <4>1. AfterIn(n, k - 1) \in 1..n
        BY <3>1 DEF AfterIn
      <4>2. QED BY <3>1, <4>1
    <3>4. u # x /\ u # c /\ v # c
      <4>1. AfterIn(n, k - 1) \in 1..n
        BY <3>1 DEF AfterIn
      <4>2. k - 1 \in 1..n /\ k - 1 # 1
        BY <3>1
      <4>3. QED BY <1>0, <1>1, <1>2, <3>3, <4>1, <4>2 DEF Cyclic
    <3>5. \/ u < v /\ (x <= u \/ v <= x) /\ (y <= u \/ v <= y)
          \/ v <= u /\ v <= x /\ x <= u /\ v <= y /\ y <= u
      BY <1>0, <1>1, <3>2, <3>3 DEF NoneBetween
    <3>6. \/ x < y /\ (u <= x \/ y <= u)
          \/ y <= x /\ y <= u /\ u <= x
      BY <1>8, <3>1, <3>3
    <3>7. (u < v /\ (c <= u \/ v <= c)) \/ (v <= u /\ v <= c /\ c <= u)
      BY <1>2, <3>4, <3>5, <3>6 DEF InGap
    <3>8. \A i \in 1..n : \/ u < v /\ (a[i] <= u \/ v <= a[i])
                          \/ v <= u /\ v <= a[i] /\ a[i] <= u
      BY <3>2, <3>3 DEF NoneBetween
    <3>9. QED BY <1>6, <3>1, <3>3, <3>7, <3>8 DEF NoneBetween
  <2>4. QED BY <2>1, <2>2, <2>3
<1>10. QED BY <1>5, <1>9 DEF Cyclic

------------------------------------------------------------------------------
(* The units of the heap, its pages and its objects. *)

\* the first unit behind the heap
Top == (HeapPages + 1) * K!PageUnits
\* the units of the heap
Heaped == K!PageUnits..Top - 1

\* blocks, of at least one unit
Piece == [at : Nat, units : Nat \ {0}]
\* the block that the ring begins with
Arena == K!Block(0, 1)
\* the blocks that lie in the heap
Inside == {b \in Piece : K!PageUnits <= b.at /\ b.at + b.units <= Top}

\* What is assumed of the sizes, in units.
LEMMA HeapNumbers ==
  /\ K!PageUnits \in Nat /\ K!PageUnits >= 3 /\ Top \in Nat /\ HeapPages \in Nat
  /\ SLOB_UNIT \in Nat /\ SLOB_UNIT >= 1 /\ PAGE_SIZE \in Nat /\ BIGBLOCK \in Nat
  /\ PAGE_SIZE = SLOB_UNIT * K!PageUnits /\ BIGBLOCK + SLOB_UNIT < PAGE_SIZE /\ SLOB_UNIT < BIGBLOCK
  /\ \A size \in Size : size \in Nat /\ size >= 1
<1>1. /\ PAGE_SIZE \in Nat \ {0} /\ SLOB_UNIT \in Nat \ {0} /\ BIGBLOCK \in Nat \ {0}
      /\ HeapPages \in Nat \ {0} /\ PAGE_SIZE % SLOB_UNIT = 0 /\ Size \subseteq Nat \ {0}
      /\ BIGBLOCK + SLOB_UNIT < PAGE_SIZE /\ SLOB_UNIT < BIGBLOCK
  BY PartsAssumption DEF K!KmallocAssumption
<1>2. PICK s \in Nat, n \in Nat, d \in Int : s = SLOB_UNIT /\ n = PAGE_SIZE /\ d = n \div s
  BY <1>1
<1>3. n = s * d
  BY <1>1, <1>2
<1>4. d >= 3
  <2>1. n >= 2 * s + 2 /\ s >= 1
    BY <1>1, <1>2
  <2>2. s * d >= 2 * s + 2
    BY <1>3, <2>1
  <2>3. d > 2
    <3> SUFFICES ASSUME d <= 2 PROVE FALSE
      OBVIOUS
    <3>1. s * d <= s * 2
      BY <1>2, <2>1
    <3>2. QED BY <1>2, <2>2, <3>1
  <2>4. QED BY <2>3
<1>5. K!PageUnits = d
  BY <1>2 DEF K!PageUnits
<1>6. Top \in Nat
  <2>1. (HeapPages + 1) * d \in Nat
    BY <1>1, <1>4
  <2>2. QED BY <1>5, <2>1 DEF Top
<1>7. QED BY <1>1, <1>2, <1>3, <1>4, <1>5, <1>6

\* n units are so many bytes
LEMMA UnitsOfSize ==
  ASSUME NEW size \in Nat, size > SLOB_UNIT, size + SLOB_UNIT <= PAGE_SIZE + 1
  PROVE  K!SLOB_UNITS(size) \in 2..K!PageUnits
<1>0. PICK s \in Nat, n \in Nat, d \in Nat :
        s = SLOB_UNIT /\ n = size + SLOB_UNIT - 1 /\ d = K!PageUnits /\ s >= 1
        /\ PAGE_SIZE = s * d
  BY HeapNumbers
<1>1. n >= 2 * s /\ n <= s * d
  BY <1>0
<1>2. PICK q \in Int : q = n \div s
  BY <1>0
<1>3. s * q <= n /\ n < s * (q + 1)
  BY <1>0, <1>2
<1>4. q <= d
  <2> SUFFICES ASSUME q >= d + 1 PROVE FALSE
    BY <1>0, <1>2
  <2>1. s * q >= s * (d + 1)
    BY <1>0, <1>2
  <2>2. s * (d + 1) = s * d + s
    BY <1>0
  <2>3. QED BY <1>0, <1>1, <1>3, <2>1, <2>2
<1>5. q >= 2
  <2> SUFFICES ASSUME q + 1 <= 2 PROVE FALSE
    BY <1>0, <1>2
  <2>1. s * (q + 1) <= s * 2
    BY <1>0, <1>2
  <2>2. QED BY <1>0, <1>1, <1>3, <2>1
<1>6. QED BY <1>0, <1>2, <1>4, <1>5 DEF K!SLOB_UNITS

\* Objects take from two units to a page.
LEMMA UnitsForSize ==
  ASSUME NEW size \in Size, K!IsSmall(size) => K!Asserted(size)
  PROVE  K!UnitsFor(size) \in 2..K!PageUnits
<1>1. CASE K!IsSmall(size)
  <2>1. size + SLOB_UNIT \in Nat /\ size + SLOB_UNIT > SLOB_UNIT
        /\ (size + SLOB_UNIT) + SLOB_UNIT <= PAGE_SIZE + 1
    BY <1>1, HeapNumbers DEF K!Asserted
  <2>2. QED BY <1>1, <2>1, UnitsOfSize DEF K!UnitsFor
<1>2. CASE ~K!IsSmall(size)
  <2>1. BIGBLOCK \in Nat /\ BIGBLOCK > SLOB_UNIT /\ BIGBLOCK + SLOB_UNIT <= PAGE_SIZE + 1
    BY HeapNumbers
  <2>2. QED BY <1>2, <2>1, UnitsOfSize DEF K!UnitsFor
<1>3. QED BY <1>1, <1>2

\* The units of a page
LEMMA PageHas ==
  ASSUME NEW p \in 1..HeapPages
  PROVE  /\ K!Page(p) \in Inside
         /\ \A u \in Nat : u \in K!Units(K!Page(p)) <=> u \div K!PageUnits = p
<1>0. PICK d \in Nat, h \in Nat, t \in Nat :
        d = K!PageUnits /\ h = HeapPages /\ d >= 3 /\ t = Top /\ t = (h + 1) * d
  BY HeapNumbers DEF Top
<1>1. PICK a \in Nat : a = p * d
  <2>1. p * d \in Nat
    BY <1>0
  <2>2. QED BY <2>1
<1>2. a >= d /\ a + d <= t
  <2>1. 1 <= p /\ p + 1 <= h + 1 /\ p \in Nat
    BY <1>0
  <2>2. 1 * d <= p * d
    BY <1>0, <2>1
  <2>3. (p + 1) * d <= (h + 1) * d /\ (p + 1) * d = p * d + d
    BY <1>0, <2>1
  <2>4. QED BY <1>0, <1>1, <2>2, <2>3
<1>3. K!Page(p) = [at |-> a, units |-> d]
  BY <1>0, <1>1 DEF K!Page, K!Block
<1>4. K!Page(p) \in Inside
  BY <1>0, <1>2, <1>3 DEF Inside, Piece
<1>5. K!Units(K!Page(p)) = a..a + d - 1
  BY <1>3 DEF K!Units
<1>6. ASSUME NEW u \in Nat PROVE u \in a..a + d - 1 <=> u \div d = p
  <2>1. PICK q \in Int : q = u \div d
    BY <1>0
  <2>2. d * q <= u /\ u < d * (q + 1)
    BY <1>0, <2>1
  <2>3. p \in Nat
    OBVIOUS
  <2>4. q = p => u \in a..a + d - 1
    <3>1. d * p = a /\ d * (p + 1) = a + d
      BY <1>0, <1>1
    <3>2. QED BY <2>2, <3>1, <1>0
  <2>5. u \in a..a + d - 1 => q = p
    <3> SUFFICES ASSUME a <= u, u < a + d PROVE q = p
      BY <1>0
    <3>0. d * p = a /\ d * (p + 1) = a + d
      BY <1>0, <1>1
    <3>1. q <= p
      <4> SUFFICES ASSUME q >= p + 1 PROVE FALSE
        BY <2>3
      <4>1. d * q >= d * (p + 1)
        BY <1>0, <2>3
      <4>2. QED BY <1>0, <2>2, <3>0, <4>1
    <3>2. q >= p
      <4> SUFFICES ASSUME q + 1 <= p PROVE FALSE
        BY <2>3
      <4>1. d * (q + 1) <= d * p
        BY <1>0, <2>3
      <4>2. QED BY <1>0, <2>2, <3>0, <4>1
    <3>3. QED BY <3>1, <3>2, <2>3
  <2>6. QED BY <2>1, <2>4, <2>5
<1>7. QED BY <1>0, <1>4, <1>5, <1>6

------------------------------------------------------------------------------
(* The ring of free blocks: From, and a second block that goes or comes. *)

\* the blocks of the ring
FreeOf(l) == {l[i] : i \in 1..Len(l)}
\* where a block begins
Address(x) == x.at
\* the addresses of its blocks
AtsOf(l) == [k \in 1..Len(l) |-> Address(l[k])]
\* the lists whose addresses go around
Rings == {l \in Seq(Piece) : Len(l) >= 1 /\ Cyclic(Len(l), AtsOf(l))}

\* l has n elements, e(1) to e(n)
Lists(l, n, e) == l \in Seq(Piece) /\ n \in Nat /\ Len(l) = n /\ \A k \in 1..n : l[k] = e[k]

\* t is r without its second block
SecondGone(r, t) ==
  /\ r \in Rings /\ Len(r) >= 2 /\ t \in Seq(Piece) /\ Len(t) = Len(r) - 1
  /\ t[1] = r[1] /\ \A j \in 2..Len(r) - 1 : t[j] = r[j + 1]

\* t is r with b as its second block
SecondNew(r, b, t) ==
  /\ r \in Rings /\ b \in Piece /\ t \in Seq(Piece) /\ Len(t) = Len(r) + 1
  /\ t[1] = r[1] /\ t[2] = b /\ \A j \in 2..Len(r) : t[j + 1] = r[j]
  /\ InGap(Address(r[1]), Address(r[AfterIn(Len(r), 1)]), Address(b))
  /\ \A x \in FreeOf(r) : Address(x) # Address(b)

\* The addresses of a list of blocks
LEMMA AtsAre ==
  ASSUME NEW l \in Seq(Piece)
  PROVE  /\ Len(l) \in Nat /\ AtsOf(l) \in [1..Len(l) -> Nat]
         /\ \A k \in 1..Len(l) : l[k] \in Piece /\ AtsOf(l)[k] = Address(l[k]) /\ Address(l[k]) \in Nat
<1>1. Len(l) \in Nat /\ \A k \in 1..Len(l) : l[k] \in Piece
  BY LenProperties, ElementOfSeq
<1>2. \A x \in Piece : Address(x) \in Nat
  BY DEF Address, Piece
<1>3. QED BY <1>1, <1>2 DEF AtsOf

\* A ring as two functions
LEMMA RingIs ==
  ASSUME NEW l \in Rings
  PROVE  \E n, e, a :
           /\ n \in Nat /\ n >= 1 /\ Lists(l, n, e) /\ Cyclic(n, a) /\ a \in [1..n -> Nat]
           /\ \A k \in 1..n : a[k] = Address(e[k]) /\ e[k] \in Piece
           /\ FreeOf(l) = {e[k] : k \in 1..n} /\ a = AtsOf(l)
<1>1. l \in Seq(Piece) /\ Len(l) >= 1 /\ Cyclic(Len(l), AtsOf(l))
  BY DEF Rings
<1>2. /\ Len(l) \in Nat /\ AtsOf(l) \in [1..Len(l) -> Nat]
      /\ \A k \in 1..Len(l) : l[k] \in Piece /\ AtsOf(l)[k] = Address(l[k])
  BY <1>1, AtsAre
<1>3. Lists(l, Len(l), l)
  BY <1>1, <1>2 DEF Lists
<1>4. QED BY <1>1, <1>2, <1>3 DEF FreeOf

\* A list whose addresses go around is a ring.
LEMMA RingFrom ==
  ASSUME NEW l, NEW n, NEW e, NEW a, Lists(l, n, e), n >= 1,
         a \in [1..n -> Nat], Cyclic(n, a), \A k \in 1..n : a[k] = Address(e[k])
  PROVE  l \in Rings /\ FreeOf(l) = {e[k] : k \in 1..n}
<1>1. l \in Seq(Piece) /\ n \in Nat /\ Len(l) = n /\ \A k \in 1..n : l[k] = e[k]
  BY DEF Lists
<1>2. AtsOf(l) \in [1..n -> Nat] /\ \A k \in 1..n : AtsOf(l)[k] = Address(l[k])
  BY <1>1, AtsAre
<1>3. AtsOf(l) = a
  BY <1>1, <1>2
<1>4. l \in Rings
  BY <1>1, <1>3 DEF Rings
<1>5. FreeOf(l) = {e[k] : k \in 1..n}
  BY <1>1 DEF FreeOf
<1>6. QED BY <1>4, <1>5

\* slob_alloc and slob_free leave the ring at another block than they found it.
LEMMA FromList ==
  ASSUME NEW l, NEW n, NEW e, Lists(l, n, e), NEW k \in 1..n
  PROVE  Lists(K!From(l, k), n, [j \in 1..n |-> e[IF j <= n - k + 1 THEN k + j - 1 ELSE j - (n - k + 1)]])
<1> DEFINE a == SubSeq(l, k, Len(l))
           b == SubSeq(l, 1, k - 1)
           r == a \o b
<1>1. l \in Seq(Piece) /\ n \in Nat /\ Len(l) = n /\ k \in Nat /\ 1 <= k /\ k <= n
      /\ \A i \in 1..n : l[i] = e[i]
  BY DEF Lists
<1>2. /\ a \in Seq(Piece) /\ Len(a) = n - k + 1
      /\ \A j \in 1..n - k + 1 : a[j] = l[k + j - 1]
  <2>1. k \in 1..Len(l) + 1 /\ Len(l) \in k - 1..Len(l)
    BY <1>1
  <2>2. QED BY <1>1, <2>1, SubSeqAt
<1>3. /\ b \in Seq(Piece) /\ Len(b) = k - 1
      /\ \A j \in 1..k - 1 : b[j] = l[j]
  BY <1>1, PartsAt
<1> HIDE DEF a, b
<1>4. /\ r \in Seq(Piece) /\ Len(r) = Len(a) + Len(b)
      /\ \A j \in 1..Len(a) : r[j] = a[j]
      /\ \A j \in 1..Len(b) : r[Len(a) + j] = b[j]
  <2>1. a \in Seq(Piece) /\ b \in Seq(Piece)
    BY <1>2, <1>3
  <2> HIDE DEF r
  <2>2. /\ a \o b \in Seq(Piece) /\ Len(a \o b) = Len(a) + Len(b)
        /\ \A j \in 1..Len(a) : (a \o b)[j] = a[j]
        /\ \A j \in 1..Len(b) : (a \o b)[Len(a) + j] = b[j]
    BY <2>1, ConcatAt
  <2>3. r = a \o b
    BY DEF r
  <2>4. QED BY <2>2, <2>3
<1> HIDE DEF r
<1>5. PICK m \in Nat, p \in Nat : m = n - k + 1 /\ p = k - 1 /\ m + p = n
  BY <1>1
<1>6. /\ Len(a) = m /\ Len(b) = p
      /\ \A j \in 1..m : a[j] = l[k + j - 1]
      /\ \A j \in 1..p : b[j] = l[j]
  BY <1>2, <1>3, <1>5
<1>7. /\ r \in Seq(Piece) /\ Len(r) = n
      /\ \A j \in 1..m : r[j] = a[j]
      /\ \A j \in 1..p : r[m + j] = b[j]
  BY <1>4, <1>5, <1>6
<1>8. ASSUME NEW j \in 1..n
      PROVE  r[j] = e[IF j <= m THEN k + j - 1 ELSE j - m]
  <2>1. CASE j <= m
    <3>1. j \in 1..m /\ k + j - 1 \in 1..n
      BY <1>1, <1>5, <2>1
    <3>2. r[j] = l[k + j - 1]
      BY <1>6, <1>7, <3>1
    <3>3. QED BY <1>1, <2>1, <3>1, <3>2
  <2>2. CASE ~(j <= m)
    <3>1. j - m \in 1..p /\ m + (j - m) = j /\ j - m \in 1..n
      BY <1>1, <1>5, <2>2
    <3>2. r[m + (j - m)] = b[j - m] /\ b[j - m] = l[j - m]
      BY <1>6, <1>7, <3>1
    <3>3. r[j] = l[j - m]
      BY <3>1, <3>2
    <3>4. QED BY <1>1, <2>2, <3>1, <3>3
  <2>3. QED BY <2>1, <2>2
<1>9. K!From(l, k) = r
  BY DEF K!From, r, a, b
<1>10. QED BY <1>1, <1>5, <1>7, <1>8, <1>9 DEF Lists

\* The ring from another block on is the same ring.
LEMMA FromRing ==
  ASSUME NEW l \in Rings, NEW k \in 1..Len(l)
  PROVE  /\ K!From(l, k) \in Rings /\ Len(K!From(l, k)) = Len(l)
         /\ FreeOf(K!From(l, k)) = FreeOf(l)
         /\ K!From(l, k)[1] = l[k]
         /\ K!From(l, k)[AfterIn(Len(l), 1)] = K!Behind(l, k)
<1>1. PICK n, e, a :
        /\ n \in Nat /\ n >= 1 /\ Lists(l, n, e) /\ Cyclic(n, a) /\ a \in [1..n -> Nat]
        /\ \A i \in 1..n : a[i] = Address(e[i]) /\ e[i] \in Piece
        /\ FreeOf(l) = {e[i] : i \in 1..n} /\ a = AtsOf(l)
  BY RingIs
<1>2. Len(l) = n /\ k \in 1..n /\ k \in Nat /\ 1 <= k /\ k <= n /\ \A i \in 1..n : l[i] = e[i]
  BY <1>1 DEF Lists
<1> DEFINE g == [j \in 1..n |-> IF j <= n - k + 1 THEN k + j - 1 ELSE j - (n - k + 1)]
           e2 == [j \in 1..n |-> e[g[j]]]
           a2 == [j \in 1..n |-> a[g[j]]]
           r == K!From(l, k)
<1>3. \A j \in 1..n : g[j] = (IF j <= n - k + 1 THEN k + j - 1 ELSE j - (n - k + 1)) /\ g[j] \in 1..n
  BY <1>2
<1>4. Lists(r, n, e2)
  <2>1. Lists(r, n, [j \in 1..n |-> e[IF j <= n - k + 1 THEN k + j - 1 ELSE j - (n - k + 1)]])
    BY <1>1, <1>2, FromList
  <2>2. e2 = [j \in 1..n |-> e[IF j <= n - k + 1 THEN k + j - 1 ELSE j - (n - k + 1)]]
    BY <1>3
  <2>3. QED BY <2>1, <2>2
<1> HIDE DEF r
<1>5. \A j \in 1..n : AfterIn(n, j) \in 1..n /\ g[AfterIn(n, j)] = AfterIn(n, g[j])
  <2> SUFFICES ASSUME NEW j \in 1..n PROVE AfterIn(n, j) \in 1..n /\ g[AfterIn(n, j)] = AfterIn(n, g[j])
    OBVIOUS
  <2> HIDE DEF g
  <2>1. AfterIn(n, j) \in 1..n
    BY <1>1 DEF AfterIn
  <2>2. /\ g[j] = IF j <= n - k + 1 THEN k + j - 1 ELSE j - (n - k + 1)
        /\ g[AfterIn(n, j)] = IF AfterIn(n, j) <= n - k + 1 THEN k + AfterIn(n, j) - 1 ELSE AfterIn(n, j) - (n - k + 1)
    BY <1>3, <2>1
  <2>3. QED BY <1>2, <2>1, <2>2 DEF AfterIn
<1>6. \A j, m \in 1..n : g[j] = g[m] => j = m
  <2> HIDE DEF g
  <2>1. QED BY <1>2, <1>3
<1>7. \A i \in 1..n : \E j \in 1..n : g[j] = i
  <2> SUFFICES ASSUME NEW i \in 1..n PROVE \E j \in 1..n : g[j] = i
    OBVIOUS
  <2> HIDE DEF g
  <2>1. CASE i >= k
    <3>1. i - k + 1 \in 1..n /\ i - k + 1 <= n - k + 1 /\ k + (i - k + 1) - 1 = i
      BY <1>2, <2>1
    <3>2. g[i - k + 1] = i
      BY <1>3, <3>1
    <3>3. QED BY <3>1, <3>2
  <2>2. CASE i < k
    <3>1. i + (n - k + 1) \in 1..n /\ ~(i + (n - k + 1) <= n - k + 1) /\ (i + (n - k + 1)) - (n - k + 1) = i
      BY <1>2, <2>2
    <3>2. g[i + (n - k + 1)] = i
      BY <1>3, <3>1
    <3>3. QED BY <3>1, <3>2
  <2>3. QED BY <1>2, <2>1, <2>2
<1>8. 1 \in 1..n /\ g[1] = k /\ AfterIn(n, 1) \in 1..n /\ g[AfterIn(n, 1)] = AfterIn(n, k)
  <2> HIDE DEF g
  <2>1. 1 \in 1..n /\ g[1] = k
    BY <1>1, <1>2, <1>3
  <2>2. QED BY <1>5, <2>1
<1>9. (k % n) + 1 = AfterIn(n, k)
  <2>1. CASE k = n
    <3>1. n % n = 0
      BY <1>1
    <3>2. QED BY <2>1, <3>1 DEF AfterIn
  <2>2. CASE k < n
    <3>1. k % n = k
      BY <1>2, <2>2
    <3>2. QED BY <2>2, <3>1 DEF AfterIn
  <2>3. QED BY <1>2, <2>1, <2>2
<1> HIDE DEF g
<1>10. \A j \in 1..n : e2[j] = e[g[j]] /\ a2[j] = a[g[j]]
  OBVIOUS
<1>11. a2 \in [1..n -> Nat] /\ \A j \in 1..n : a2[j] = Address(e2[j])
  BY <1>1, <1>3
<1>12. {e2[j] : j \in 1..n} = {e[j] : j \in 1..n}
  BY <1>3, <1>7
<1> HIDE DEF a2, e2
<1>13. Cyclic(n, a2)
  <2>3. \A j, m \in 1..n : a2[j] = a2[m] => j = m
    <3> SUFFICES ASSUME NEW j \in 1..n, NEW m \in 1..n, a2[j] = a2[m] PROVE g[j] = g[m]
      BY <1>6
    <3>1. g[j] \in 1..n /\ g[m] \in 1..n /\ a[g[j]] = a[g[m]]
      BY <1>3, <1>10
    <3>2. \A x, y \in 1..n : a[x] = a[y] => x = y
      BY <1>1, Zenon DEF Cyclic
    <3>3. QED BY <3>1, <3>2
  <2>4. ASSUME NEW j \in 1..n PROVE NoneBetween(n, a2, a2[j], a2[AfterIn(n, j)])
    <3>1. NoneBetween(n, a, a[g[j]], a[AfterIn(n, g[j])])
      BY <1>1, <1>3 DEF Cyclic
    <3>2. a2[j] = a[g[j]] /\ a2[AfterIn(n, j)] = a[AfterIn(n, g[j])]
      BY <1>5, <1>10
    <3>3. \A m \in 1..n : a2[m] = a[g[m]] /\ g[m] \in 1..n
      BY <1>3, <1>10
    <3>4. QED BY <3>1, <3>2, <3>3 DEF NoneBetween
  <2>5. QED BY <2>3, <2>4 DEF Cyclic
<1>14. r \in Rings /\ FreeOf(r) = {e2[j] : j \in 1..n}
  BY <1>1, <1>4, <1>11, <1>13, RingFrom
<1>15. Len(r) = n /\ \A j \in 1..n : r[j] = e2[j]
  BY <1>4 DEF Lists
<1>16. r[1] = l[k]
  BY <1>2, <1>8, <1>10, <1>15
<1>17. r[AfterIn(n, 1)] = K!Behind(l, k)
  <2>1. K!Behind(l, k) = l[AfterIn(n, k)]
    BY <1>2, <1>9 DEF K!Behind
  <2>2. AfterIn(n, k) \in 1..n
    BY <1>2, <1>5
  <2>3. QED BY <1>2, <1>8, <1>10, <1>15, <2>1, <2>2
<1>18. FreeOf(r) = FreeOf(l)
  BY <1>1, <1>12, <1>14
<1>19. QED BY <1>2, <1>14, <1>15, <1>16, <1>17, <1>18, Zenon DEF r

\* A ring without its second block.
LEMMA RingWithout ==
  ASSUME NEW r, NEW t, SecondGone(r, t)
  PROVE  /\ t \in Rings /\ FreeOf(t) = FreeOf(r) \ {r[2]}
         /\ \A c \in Nat :
              \/ InGap(Address(r[1]), Address(r[2]), c) \/ c = Address(r[2])
              \/ InGap(Address(r[2]), Address(r[AfterIn(Len(r), 2)]), c)
              => InGap(Address(t[1]), Address(t[AfterIn(Len(t), 1)]), c)
<1>1. PICK n, e, a :
        /\ n \in Nat /\ n >= 1 /\ Lists(r, n, e) /\ Cyclic(n, a) /\ a \in [1..n -> Nat]
        /\ \A i \in 1..n : a[i] = Address(e[i]) /\ e[i] \in Piece
        /\ FreeOf(r) = {e[i] : i \in 1..n} /\ a = AtsOf(r)
  BY RingIs DEF SecondGone
<1> DEFINE g == [j \in 1..n - 1 |-> IF j = 1 THEN 1 ELSE j + 1]
           e2 == [j \in 1..n - 1 |-> e[g[j]]]
           d == [j \in 1..n - 1 |-> a[g[j]]]
<1>2. n >= 2 /\ Len(r) = n /\ \A i \in 1..n : r[i] = e[i]
  BY <1>1 DEF SecondGone, Lists
<1>3. \A j \in 1..n - 1 : g[j] \in 1..n /\ g[j] # 2 /\ g[j] = IF j = 1 THEN 1 ELSE j + 1
  BY <1>2
<1>4. \A i \in 1..n : i # 2 => \E j \in 1..n - 1 : g[j] = i
  <2> SUFFICES ASSUME NEW i \in 1..n, i # 2 PROVE \E j \in 1..n - 1 : g[j] = i
    OBVIOUS
  <2> HIDE DEF g
  <2>1. CASE i = 1
    <3>1. 1 \in 1..n - 1
      BY <1>2
    <3>2. QED BY <1>3, <2>1, <3>1
  <2>2. CASE i # 1
    <3>1. i - 1 \in 1..n - 1 /\ (i - 1) + 1 = i /\ i - 1 # 1
      BY <1>1, <2>2
    <3>2. QED BY <1>3, <3>1
  <2>3. QED BY <2>1, <2>2
<1>5. Lists(t, n - 1, e2)
  <2>1. t \in Seq(Piece) /\ Len(t) = n - 1 /\ t[1] = r[1] /\ \A j \in 2..n - 1 : t[j] = r[j + 1]
    BY <1>2 DEF SecondGone
  <2>2. ASSUME NEW j \in 1..n - 1 PROVE t[j] = e2[j]
    <3>1. e2[j] = e[g[j]]
      OBVIOUS
    <3> HIDE DEF g, e2
    <3>2. CASE j = 1
      <4>1. 1 \in 1..n /\ g[1] = 1
        BY <1>3, <3>2
      <4>2. QED BY <1>2, <2>1, <3>1, <3>2, <4>1
    <3>3. CASE j # 1
      <4>1. j \in 2..n - 1 /\ g[j] = j + 1 /\ j + 1 \in 1..n
        BY <1>3, <3>3
      <4>2. QED BY <1>2, <2>1, <3>1, <4>1
    <3>4. QED BY <3>2, <3>3
  <2>3. n - 1 \in Nat
    BY <1>2
  <2>4. QED BY <2>1, <2>2, <2>3 DEF Lists
<1>6. \A j \in 1..n - 1 : e2[j] = e[g[j]] /\ d[j] = a[g[j]]
  OBVIOUS
<1> HIDE DEF g
<1>7. d \in [1..n - 1 -> Nat]
  BY <1>1, <1>3
<1> HIDE DEF d, e2
<1>8. \A j \in 1..n - 1 : d[j] = Address(e2[j])
  BY <1>1, <1>3, <1>6
<1>9. Skips(n, a, d)
  <2>1. d[1] = a[1]
    <3>1. 1 \in 1..n - 1 /\ g[1] = 1
      BY <1>2, <1>3
    <3>2. QED BY <1>6, <3>1
  <2>2. ASSUME NEW j \in 2..n - 1 PROVE d[j] = a[j + 1]
    <3>1. j \in 1..n - 1 /\ g[j] = j + 1
      BY <1>3
    <3>2. QED BY <1>6, <3>1
  <2>3. QED BY <1>1, <1>2, <1>7, <2>1, <2>2 DEF Skips
<1>10. /\ Cyclic(n - 1, d)
       /\ \A c \in Nat : InGap(a[1], a[2], c) \/ c = a[2] \/ InGap(a[2], a[AfterIn(n, 2)], c)
                          => InGap(d[1], d[AfterIn(n - 1, 1)], c)
  BY <1>1, <1>9, CyclicWithout, Zenon
<1>11. t \in Rings /\ FreeOf(t) = {e2[j] : j \in 1..n - 1}
  <2>1. n \in Nat /\ n - 1 >= 1
    BY <1>1, <1>2
  <2>2. PICK m : m = n - 1
    OBVIOUS
  <2>3. m \in Nat /\ Lists(t, m, e2) /\ m >= 1 /\ d \in [1..m -> Nat] /\ Cyclic(m, d)
        /\ \A k \in 1..m : d[k] = Address(e2[k])
    BY <1>5, <1>7, <1>8, <1>10, <2>1, <2>2
  <2>4. t \in Rings /\ FreeOf(t) = {e2[j] : j \in 1..m}
    BY <2>3, RingFrom
  <2>5. QED BY <2>2, <2>4
<1>12. \A i \in 1..n : i # 2 => e[i] # e[2]
  <2>1. 2 \in 1..n
    BY <1>2
  <2>2. \A i \in 1..n : a[i] = a[2] => i = 2
    BY <1>1, <2>1 DEF Cyclic
  <2>3. QED BY <1>1, <2>1, <2>2
<1>13. {e2[j] : j \in 1..n - 1} = {e[i] : i \in 1..n} \ {e[2]}
  <2>1. \A j \in 1..n - 1 : e2[j] = e[g[j]] /\ g[j] \in 1..n /\ g[j] # 2
    BY <1>3, <1>6
  <2>2. \A i \in 1..n : i # 2 => \E j \in 1..n - 1 : e2[j] = e[i]
    BY <1>4, <1>6
  <2>3. QED BY <1>12, <2>1, <2>2
<1>14. 2 \in 1..n /\ 1 \in 1..n /\ AfterIn(n, 2) \in 1..n /\ 1 \in 1..n - 1 /\ AfterIn(n - 1, 1) \in 1..n - 1
  BY <1>2 DEF AfterIn
<1>15. /\ a[1] = Address(r[1]) /\ a[2] = Address(r[2]) /\ a[AfterIn(n, 2)] = Address(r[AfterIn(n, 2)])
  BY <1>1, <1>2, <1>14
<1>16. /\ d[1] = Address(t[1]) /\ d[AfterIn(n - 1, 1)] = Address(t[AfterIn(n - 1, 1)]) /\ Len(t) = n - 1
  BY <1>5, <1>8, <1>14 DEF Lists
<1>17. r[2] = e[2]
  BY <1>2, <1>14
<1>18. FreeOf(t) = FreeOf(r) \ {r[2]}
  BY <1>1, <1>11, <1>13, <1>17
<1>19. ASSUME NEW c \in Nat,
              \/ InGap(Address(r[1]), Address(r[2]), c) \/ c = Address(r[2])
              \/ InGap(Address(r[2]), Address(r[AfterIn(Len(r), 2)]), c)
       PROVE  InGap(Address(t[1]), Address(t[AfterIn(Len(t), 1)]), c)
  <2>1. InGap(a[1], a[2], c) \/ c = a[2] \/ InGap(a[2], a[AfterIn(n, 2)], c)
    BY <1>2, <1>15, <1>19
  <2>2. InGap(d[1], d[AfterIn(n - 1, 1)], c)
    BY <1>10, <2>1
  <2>3. QED BY <1>16, <2>2
<1>20. QED BY <1>11, <1>18, <1>19

\* A ring with b as its second block.
LEMMA RingWith ==
  ASSUME NEW r, NEW b, NEW t, SecondNew(r, b, t)
  PROVE  t \in Rings /\ FreeOf(t) = FreeOf(r) \cup {b}
<1>1. PICK n, e, a :
        /\ n \in Nat /\ n >= 1 /\ Lists(r, n, e) /\ Cyclic(n, a) /\ a \in [1..n -> Nat]
        /\ \A i \in 1..n : a[i] = Address(e[i]) /\ e[i] \in Piece
        /\ FreeOf(r) = {e[i] : i \in 1..n} /\ a = AtsOf(r)
  BY RingIs DEF SecondNew
<1> DEFINE e2 == [j \in 1..n + 1 |-> IF j = 1 THEN e[1] ELSE IF j = 2 THEN b ELSE e[j - 1]]
           d == [j \in 1..n + 1 |-> Address(e2[j])]
<1>2. n >= 1 /\ Len(r) = n /\ \A i \in 1..n : r[i] = e[i]
  BY <1>1 DEF Lists
<1>3. /\ t \in Seq(Piece) /\ Len(t) = n + 1 /\ t[1] = r[1] /\ t[2] = b
      /\ \A j \in 2..n : t[j + 1] = r[j]
  BY <1>2 DEF SecondNew
<1>4. /\ \A j \in 1..n + 1 : d[j] = Address(e2[j])
      /\ e2[1] = e[1] /\ e2[2] = b /\ \A j \in 2..n : e2[j + 1] = e[j]
  <2>1. 1 \in 1..n + 1 /\ 2 \in 1..n + 1
    BY <1>1
  <2>2. e2[1] = e[1] /\ e2[2] = b
    BY <2>1
  <2>3. ASSUME NEW j \in 2..n PROVE e2[j + 1] = e[j]
    <3>1. j + 1 \in 1..n + 1 /\ j + 1 # 1 /\ j + 1 # 2 /\ (j + 1) - 1 = j
      BY <1>1
    <3>2. QED BY <3>1
  <2>4. QED BY <2>2, <2>3
<1>5. d = [j \in 1..n + 1 |-> Address(e2[j])]
  OBVIOUS
<1> HIDE DEF e2, d
<1>6. \A j \in 1..n + 1 : j = 1 \/ j = 2 \/ (j - 1 \in 2..n /\ (j - 1) + 1 = j)
  BY <1>1
<1>7. \A j \in 1..n + 1 : e2[j] = b \/ \E i \in 1..n : e2[j] = e[i]
  <2>1. 1 \in 1..n /\ \A i \in 2..n : i \in 1..n
    BY <1>1
  <2>2. QED BY <1>4, <1>6, <2>1
<1>8. \A i \in 1..n : \E j \in 1..n + 1 : e2[j] = e[i]
  <2>1. \A i \in 1..n : (i = 1 /\ 1 \in 1..n + 1) \/ (i \in 2..n /\ i + 1 \in 1..n + 1)
    BY <1>1
  <2>2. QED BY <1>4, <2>1
<1>9. Lists(t, n + 1, e2)
  <2>1. ASSUME NEW j \in 1..n + 1 PROVE t[j] = e2[j]
    <3>1. 1 \in 1..n /\ \A i \in 2..n : i \in 1..n
      BY <1>1
    <3>2. CASE j = 1 \/ j = 2
      BY <1>2, <1>3, <1>4, <3>1, <3>2
    <3>3. CASE j - 1 \in 2..n /\ (j - 1) + 1 = j
      <4>1. t[(j - 1) + 1] = r[j - 1] /\ e2[(j - 1) + 1] = e[j - 1]
        BY <1>3, <1>4, <3>3
      <4>2. r[j - 1] = e[j - 1]
        BY <1>2, <3>1, <3>3
      <4>3. QED BY <3>3, <4>1, <4>2
    <3>4. QED BY <1>6, <3>2, <3>3
  <2>2. n + 1 \in Nat
    BY <1>1
  <2>3. QED BY <1>3, <2>1, <2>2 DEF Lists
<1>10. \A x \in Piece : Address(x) \in Nat
  BY DEF Address, Piece
<1>11. b \in Piece
  BY DEF SecondNew
<1>12. d \in [1..n + 1 -> Nat]
  <2>1. \A j \in 1..n + 1 : e2[j] \in Piece
    BY <1>1, <1>7, <1>11
  <2>2. QED BY <1>5, <1>10, <2>1
<1>13. Takes(n, a, Address(b), d)
  <2>1. 1 \in 1..n + 1 /\ 2 \in 1..n + 1 /\ 1 \in 1..n /\ AfterIn(n, 1) \in 1..n
    BY <1>1 DEF AfterIn
  <2>2. d[1] = a[1] /\ d[2] = Address(b)
    BY <1>1, <1>4, <2>1
  <2>3. ASSUME NEW j \in 2..n PROVE d[j + 1] = a[j]
    <3>1. j \in 1..n /\ j + 1 \in 1..n + 1
      BY <1>1
    <3>2. QED BY <1>1, <1>4, <3>1
  <2>4. InGap(a[1], a[AfterIn(n, 1)], Address(b))
    <3>1. InGap(Address(r[1]), Address(r[AfterIn(Len(r), 1)]), Address(b))
      BY DEF SecondNew
    <3>2. a[1] = Address(r[1]) /\ a[AfterIn(n, 1)] = Address(r[AfterIn(n, 1)])
      BY <1>1, <1>2, <2>1
    <3>3. QED BY <1>2, <3>1, <3>2
  <2>5. \A j \in 1..n : a[j] # Address(b)
    BY <1>1 DEF SecondNew
  <2>6. QED BY <1>1, <1>10, <1>11, <1>12, <2>2, <2>3, <2>4, <2>5 DEF Takes
<1>14. Cyclic(n + 1, d)
  BY <1>1, <1>13, CyclicWith, Zenon
<1>15. t \in Rings /\ FreeOf(t) = {e2[j] : j \in 1..n + 1}
  <2>1. n \in Nat /\ n + 1 >= 1
    BY <1>1
  <2>2. PICK m : m = n + 1
    OBVIOUS
  <2>3. m \in Nat /\ Lists(t, m, e2) /\ m >= 1 /\ d \in [1..m -> Nat] /\ Cyclic(m, d)
        /\ \A k \in 1..m : d[k] = Address(e2[k])
    BY <1>4, <1>9, <1>12, <1>14, <2>1, <2>2
  <2>4. t \in Rings /\ FreeOf(t) = {e2[j] : j \in 1..m}
    BY <2>3, RingFrom
  <2>5. QED BY <2>2, <2>4
<1>16. {e2[j] : j \in 1..n + 1} = {e[i] : i \in 1..n} \cup {b}
  <2>1. 2 \in 1..n + 1
    BY <1>1
  <2>2. QED BY <1>4, <1>7, <1>8, <2>1
<1>17. QED BY <1>1, <1>15, <1>16

\* t is r but for the length of its first block
FirstAs(r, t) ==
  /\ r \in Rings /\ t \in Seq(Piece) /\ Len(t) = Len(r)
  /\ Address(t[1]) = Address(r[1]) /\ \A j \in 2..Len(r) : t[j] = r[j]

\* The length of a block does not matter to the order of the ring.
LEMMA RingFirst ==
  ASSUME NEW r, NEW t, FirstAs(r, t)
  PROVE  t \in Rings /\ FreeOf(t) = (FreeOf(r) \ {r[1]}) \cup {t[1]}
<1>1. PICK n, e, a :
        /\ n \in Nat /\ n >= 1 /\ Lists(r, n, e) /\ Cyclic(n, a) /\ a \in [1..n -> Nat]
        /\ \A i \in 1..n : a[i] = Address(e[i]) /\ e[i] \in Piece
        /\ FreeOf(r) = {e[i] : i \in 1..n} /\ a = AtsOf(r)
  BY RingIs DEF FirstAs
<1> DEFINE e2 == [j \in 1..n |-> IF j = 1 THEN t[1] ELSE e[j]]
<1>2. 1 \in 1..n /\ Len(r) = n /\ \A i \in 1..n : r[i] = e[i]
  BY <1>1 DEF Lists
<1>3. /\ t \in Seq(Piece) /\ Len(t) = n /\ Address(t[1]) = a[1] /\ \A j \in 2..n : t[j] = r[j]
  BY <1>1, <1>2 DEF FirstAs
<1>4. e2[1] = t[1] /\ \A j \in 2..n : e2[j] = e[j]
  BY <1>2
<1> HIDE DEF e2
<1>5. \A j \in 1..n : j = 1 \/ j \in 2..n
  BY <1>1
<1>6. \A j \in 2..n : j \in 1..n /\ j # 1
  OBVIOUS
<1>7. Lists(t, n, e2)
  BY <1>2, <1>3, <1>4, <1>5, <1>6 DEF Lists
<1>8. \A j \in 1..n : a[j] = Address(e2[j])
  BY <1>1, <1>3, <1>4, <1>5, <1>6
<1>9. t \in Rings /\ FreeOf(t) = {e2[j] : j \in 1..n}
  BY <1>1, <1>7, <1>8, RingFrom
<1>10. \A i \in 2..n : e[i] # e[1]
  <2>1. \A i \in 1..n : a[i] = a[1] => i = 1
    BY <1>1, <1>2, Zenon DEF Cyclic
  <2>2. QED BY <1>1, <1>2, <1>6, <2>1
<1>11. {e2[j] : j \in 1..n} = ({e[i] : i \in 1..n} \ {e[1]}) \cup {t[1]}
  BY <1>2, <1>4, <1>5, <1>6, <1>10
<1>12. QED BY <1>1, <1>2, <1>9, <1>11

\* A list with a block in front of it
LEMMA HeadAt ==
  ASSUME NEW x \in Piece, NEW s \in Seq(Piece)
  PROVE  /\ <<x>> \o s \in Seq(Piece) /\ Len(<<x>> \o s) = Len(s) + 1
         /\ (<<x>> \o s)[1] = x /\ \A j \in 1..Len(s) : (<<x>> \o s)[j + 1] = s[j]
<1>1. /\ <<x>> \in Seq(Piece) /\ Len(<<x>>) = 1 /\ <<x>>[1] = x
  OBVIOUS
<1>2. PICK h : h = <<x>>
  OBVIOUS
<1>3. h \in Seq(Piece) /\ Len(h) = 1 /\ h[1] = x
  BY <1>1, <1>2
<1>4. /\ h \o s \in Seq(Piece) /\ Len(h \o s) = Len(h) + Len(s)
      /\ \A k \in 1..Len(h) : (h \o s)[k] = h[k]
      /\ \A k \in 1..Len(s) : (h \o s)[Len(h) + k] = s[k]
  <2>1. h \in Seq(Piece)
    BY <1>3
  <2>2. QED BY <2>1, ConcatAt
<1>5a. PICK n \in Nat : n = Len(s)
  BY LenProperties
<1>5b. PICK r : r = h \o s
  OBVIOUS
<1>5. r = h \o s /\ n = Len(s)
  BY <1>5a, <1>5b
<1>6. /\ r \in Seq(Piece) /\ Len(r) = 1 + n /\ r[1] = x
      /\ \A k \in 1..n : r[1 + k] = s[k]
  <2>1. 1 \in 1..Len(h)
    BY <1>3
  <2>2. QED BY <1>3, <1>4, <1>5, <2>1
<1>7. \A k \in 1..n : r[k + 1] = s[k]
  BY <1>6
<1>8. QED BY <1>2, <1>5, <1>6, <1>7

\* A list with two blocks in front of it
LEMMA TwoAt ==
  ASSUME NEW x \in Piece, NEW y \in Piece, NEW s \in Seq(Piece)
  PROVE  /\ <<x, y>> \o s \in Seq(Piece) /\ Len(<<x, y>> \o s) = Len(s) + 2
         /\ (<<x, y>> \o s)[1] = x /\ (<<x, y>> \o s)[2] = y
         /\ \A j \in 1..Len(s) : (<<x, y>> \o s)[j + 2] = s[j]
<1>1. /\ <<x, y>> \in Seq(Piece) /\ Len(<<x, y>>) = 2 /\ <<x, y>>[1] = x /\ <<x, y>>[2] = y
  OBVIOUS
<1>2. PICK h : h = <<x, y>>
  OBVIOUS
<1>3. h \in Seq(Piece) /\ Len(h) = 2 /\ h[1] = x /\ h[2] = y
  BY <1>1, <1>2
<1>4. /\ h \o s \in Seq(Piece) /\ Len(h \o s) = Len(h) + Len(s)
      /\ \A k \in 1..Len(h) : (h \o s)[k] = h[k]
      /\ \A k \in 1..Len(s) : (h \o s)[Len(h) + k] = s[k]
  <2>1. h \in Seq(Piece)
    BY <1>3
  <2>2. QED BY <2>1, ConcatAt
<1>5a. PICK n \in Nat : n = Len(s)
  BY LenProperties
<1>5b. PICK r : r = h \o s
  OBVIOUS
<1>5. r = h \o s /\ n = Len(s)
  BY <1>5a, <1>5b
<1>6. /\ r \in Seq(Piece) /\ Len(r) = 2 + n /\ r[1] = x /\ r[2] = y
      /\ \A k \in 1..n : r[2 + k] = s[k]
  <2>1. 1 \in 1..Len(h) /\ 2 \in 1..Len(h)
    BY <1>3
  <2>2. QED BY <1>3, <1>4, <1>5, <2>1
<1>7. \A k \in 1..n : r[k + 2] = s[k]
  BY <1>6
<1>8. QED BY <1>2, <1>5, <1>6, <1>7

\* b and cur as one
Merged(cur, b) == K!Block(cur.at, cur.units + b.units)
\* b begins where cur ends
Touch(cur, b) == cur.at + cur.units = b.at
\* the free blocks after Join
JoinedTo(F, cur, b) ==
  IF Touch(cur, b) THEN (F \ {cur}) \cup {Merged(cur, b)} ELSE F \cup {b}

\* Two blocks as one begin where the first does.
LEMMA MergedIs ==
  ASSUME NEW x \in Piece, NEW y \in Piece
  PROVE  Merged(x, y) \in Piece /\ Address(Merged(x, y)) = Address(x)
         /\ Merged(x, y).at = x.at /\ Merged(x, y).units = x.units + y.units
<1>1. x.at \in Nat /\ x.units \in Nat \ {0} /\ y.units \in Nat \ {0}
  BY DEF Piece
<1>2. x.units + y.units \in Nat \ {0}
  BY <1>1
<1>3. Merged(x, y) = [at |-> x.at, units |-> x.units + y.units]
  BY DEF Merged, K!Block
<1>4. QED BY <1>1, <1>2, <1>3 DEF Piece, Address

\* the end of slob_free, in front of the blocks rest
LEMMA JoinRing ==
  ASSUME NEW cur \in Piece, NEW rest \in Seq(Piece), NEW r \in Rings, r = <<cur>> \o rest,
         NEW b \in Piece, InGap(Address(cur), Address(r[AfterIn(Len(r), 1)]), Address(b)),
         \A x \in FreeOf(r) : Address(x) # Address(b)
  PROVE  /\ K!Join(cur, b, rest) \in Rings
         /\ FreeOf(K!Join(cur, b, rest)) = JoinedTo(FreeOf(r), cur, b)
<1>1. /\ Len(r) = Len(rest) + 1 /\ r[1] = cur /\ \A j \in 1..Len(rest) : r[j + 1] = rest[j]
  BY HeadAt
<1>2. PICK n \in Nat : n = Len(rest)
  BY LenProperties
<1>3. \A j \in 2..n + 1 : r[j] = rest[j - 1]
  <2> SUFFICES ASSUME NEW j \in 2..n + 1 PROVE r[j] = rest[j - 1]
    OBVIOUS
  <2>1. j - 1 \in 1..n /\ (j - 1) + 1 = j
    BY <1>2
  <2>2. r[(j - 1) + 1] = rest[j - 1]
    BY <1>1, <1>2, <2>1
  <2>3. QED BY <2>1, <2>2
<1>4. CASE Touch(cur, b)
  <2>1. PICK m \in Piece : m = Merged(cur, b) /\ Address(m) = Address(cur)
    BY MergedIs
  <2>2. PICK t : t = <<m>> \o rest
    OBVIOUS
  <2>3. /\ t \in Seq(Piece) /\ Len(t) = n + 1 /\ t[1] = m /\ \A j \in 1..n : t[j + 1] = rest[j]
    BY <1>2, <2>2, HeadAt
  <2>4. \A j \in 2..n + 1 : t[j] = rest[j - 1]
    <3> SUFFICES ASSUME NEW j \in 2..n + 1 PROVE t[j] = rest[j - 1]
      OBVIOUS
    <3>1. j - 1 \in 1..n /\ (j - 1) + 1 = j
      BY <1>2
    <3>2. t[(j - 1) + 1] = rest[j - 1]
      BY <2>3, <3>1
    <3>3. QED BY <3>1, <3>2
  <2>5. FirstAs(r, t)
    BY <1>1, <1>2, <1>3, <2>1, <2>3, <2>4 DEF FirstAs
  <2>6. t \in Rings /\ FreeOf(t) = (FreeOf(r) \ {cur}) \cup {m}
    <3>1. t \in Rings /\ FreeOf(t) = (FreeOf(r) \ {r[1]}) \cup {t[1]}
      BY <2>5, RingFirst
    <3>2. r[1] = cur /\ t[1] = m
      BY <1>1, <2>3
    <3>3. QED BY <3>1, <3>2
  <2>7. K!Join(cur, b, rest) = t
    BY <1>4, <2>1, <2>2 DEF K!Join, Touch, Merged
  <2>8. QED BY <1>4, <2>1, <2>6, <2>7 DEF JoinedTo
<1>5. CASE ~Touch(cur, b)
  <2>2. PICK t : t = <<cur, b>> \o rest
    OBVIOUS
  <2>3. /\ t \in Seq(Piece) /\ Len(t) = n + 2 /\ t[1] = cur /\ t[2] = b /\ \A j \in 1..n : t[j + 2] = rest[j]
    BY <1>2, <2>2, TwoAt
  <2>4. ASSUME NEW j \in 2..n + 1 PROVE t[j + 1] = r[j]
    <3>1. j - 1 \in 1..n /\ (j - 1) + 2 = j + 1
      BY <1>2
    <3>2. t[(j - 1) + 2] = rest[j - 1]
      BY <2>3, <3>1
    <3>3. QED BY <1>3, <3>1, <3>2
  <2>5. SecondNew(r, b, t)
    <3>1. Len(r) = n + 1 /\ Len(t) = (n + 1) + 1
      BY <1>1, <1>2, <2>3
    <3>2. QED BY <1>1, <2>3, <2>4, <3>1 DEF SecondNew
  <2>6. t \in Rings /\ FreeOf(t) = FreeOf(r) \cup {b}
    BY <2>5, RingWith
  <2>7. K!Join(cur, b, rest) = t
    BY <1>5, <2>2 DEF K!Join, Touch
  <2>8. QED BY <1>5, <2>6, <2>7 DEF JoinedTo
<1>6. QED BY <1>4, <1>5

------------------------------------------------------------------------------
(* slob_free on the ring. *)

\* the numbers are finitely many, so one that is not the least of a ring has a place
LEMMA GapFor ==
  ASSUME NEW n \in Nat, NEW a \in [1..n -> Nat], Cyclic(n, a), NEW c \in Nat,
         \A j \in 1..n : a[j] # c, NEW i \in 1..n, a[i] < c
  PROVE  \E k \in 1..n : InGap(a[k], a[AfterIn(n, k)], c)
<1> DEFINE S == {x \in 0..c : \E k \in 1..n : a[k] = x /\ a[k] < c}
<1>1. S \subseteq 0..c /\ a[i] \in S
  OBVIOUS
<1>2. Max(S) \in S /\ \A x \in S : x <= Max(S)
  BY <1>1, MaxIn
<1>3. PICK k \in 1..n : a[k] = Max(S) /\ a[k] < c
  BY <1>2
<1>4. ASSUME NEW j \in 1..n, a[j] < c PROVE a[j] <= a[k]
  BY <1>2, <1>3, <1>4
<1> HIDE DEF S
<1>5. AfterIn(n, k) \in 1..n
  BY DEF AfterIn
<1>6. NoneBetween(n, a, a[k], a[AfterIn(n, k)])
  BY DEF Cyclic
<1>7. PICK x \in Nat, z \in Nat : x = a[k] /\ z = a[AfterIn(n, k)]
  BY <1>5
<1>8. x < c /\ z # c /\ (z < c => z <= x)
  BY <1>3, <1>4, <1>5, <1>7
<1>9. InGap(x, z, c)
  BY <1>8 DEF InGap
<1>10. QED BY <1>7, <1>9

\* where a block is put: none of the others is between the two that it comes between
GapIn(F, cur, nx, b) ==
  /\ cur \in F /\ nx \in F /\ InGap(Address(cur), Address(nx), Address(b))
  /\ \/ /\ Address(cur) < Address(nx)
        /\ \A x \in F : Address(x) <= Address(cur) \/ Address(nx) <= Address(x)
     \/ /\ Address(nx) <= Address(cur)
        /\ \A x \in F : Address(nx) <= Address(x) /\ Address(x) <= Address(cur)

\* the free blocks after slob_free
AfterPut(F, cur, nx, b) ==
  IF Touch(b, nx) THEN JoinedTo(F \ {nx}, cur, Merged(b, nx)) ELSE JoinedTo(F, cur, b)

\* the search of slob_free ends at such a place
LEMMA PutPlace ==
  ASSUME NEW l \in Rings, NEW b \in Piece, \A x \in FreeOf(l) : Address(x) # Address(b),
         NEW y \in FreeOf(l), Address(y) < Address(b)
  PROVE  \E k \in 1..Len(l) :
           /\ k = Min({i \in DOMAIN l : K!Between(l, i, b)})
           /\ GapIn(FreeOf(l), l[k], K!Behind(l, k), b)
<1>1. PICK n, e, a :
        /\ n \in Nat /\ n >= 1 /\ Lists(l, n, e) /\ Cyclic(n, a) /\ a \in [1..n -> Nat]
        /\ \A i \in 1..n : a[i] = Address(e[i]) /\ e[i] \in Piece
        /\ FreeOf(l) = {e[i] : i \in 1..n} /\ a = AtsOf(l)
  BY RingIs
<1>2. Len(l) = n /\ DOMAIN l = 1..n /\ \A i \in 1..n : l[i] = e[i]
  <2>1. l \in Seq(Piece) /\ Len(l) = n /\ \A i \in 1..n : l[i] = e[i]
    BY <1>1 DEF Lists
  <2>2. QED BY <2>1, LenProperties
<1>3. PICK c \in Nat : c = Address(b)
  BY DEF Address, Piece
<1>4. \A j \in 1..n : a[j] # c
  BY <1>1, <1>3
<1>5. PICK i \in 1..n : y = e[i]
  BY <1>1
<1>6. a[i] < c
  BY <1>1, <1>3, <1>5
<1>7. ASSUME NEW j \in 1..n
      PROVE  /\ l[j] = e[j] /\ AfterIn(n, j) \in 1..n /\ K!Behind(l, j) = e[AfterIn(n, j)]
             /\ K!Between(l, j, b) <=> InGap(a[j], a[AfterIn(n, j)], c)
  <2>1. AfterIn(n, j) \in 1..n /\ (j % n) + 1 = AfterIn(n, j)
    <3>1. CASE j = n
      <4>1. n \in Nat \ {0} /\ n = n * 1 + 0 /\ 0 \in 0..(n - 1) /\ 1 \in Int
        BY <1>1
      <4>2. (n * 1 + 0) % n = 0
        BY <4>1, ModOf
      <4>3. QED BY <3>1, <4>1, <4>2 DEF AfterIn
    <3>2. CASE j # n
      <4>1. n \in Nat \ {0} /\ j \in 0..(n - 1)
        BY <1>1, <3>2
      <4>2. j % n = j
        BY <4>1, ModSmall
      <4>3. QED BY <3>2, <4>1, <4>2 DEF AfterIn
    <3>3. QED BY <3>1, <3>2
  <2>2. K!Behind(l, j) = e[AfterIn(n, j)]
    BY <1>2, <2>1 DEF K!Behind
  <2>3. /\ l[j].at = a[j] /\ K!Behind(l, j).at = a[AfterIn(n, j)] /\ b.at = c
        /\ a[j] \in Nat /\ a[AfterIn(n, j)] \in Nat
    BY <1>1, <1>2, <1>3, <2>1, <2>2 DEF Address
  <2>4. PICK x \in Nat, z \in Nat : x = a[j] /\ z = a[AfterIn(n, j)]
    BY <2>3
  <2>5. K!Between(l, j, b) <=> (x < c /\ c < z) \/ (x >= z /\ (x < c \/ c < z))
    BY <2>3, <2>4 DEF K!Between
  <2>6. InGap(a[j], a[AfterIn(n, j)], c) <=> (x < c /\ c < z) \/ (z <= x /\ (x < c \/ c < z))
    BY <2>4 DEF InGap
  <2>7. K!Between(l, j, b) <=> InGap(a[j], a[AfterIn(n, j)], c)
    BY <2>5, <2>6
  <2>8. QED BY <1>2, <2>1, <2>2, <2>7
<1>8. \E k \in 1..n : InGap(a[k], a[AfterIn(n, k)], c)
  BY <1>1, <1>4, <1>6, GapFor
<1> DEFINE S == {k \in DOMAIN l : K!Between(l, k, b)}
<1>9. S \subseteq Nat /\ S # {} /\ S \subseteq 1..n
  <2>1. S \subseteq 1..n
    BY <1>2
  <2>2. PICK k \in 1..n : InGap(a[k], a[AfterIn(n, k)], c)
    BY <1>8
  <2>3. K!Between(l, k, b)
    BY <1>7, <2>2
  <2>4. k \in S
    BY <1>2, <2>3
  <2>5. QED BY <2>1, <2>4
<1> HIDE DEF S
<1>9a. S = {k \in DOMAIN l : K!Between(l, k, b)}
  BY DEF S
<1>10. Min(S) \in S
  BY <1>9, MinIn
<1>11. PICK k \in 1..n : k = Min(S) /\ K!Between(l, k, b)
  BY <1>9, <1>9a, <1>10
<1>12. GapIn(FreeOf(l), l[k], K!Behind(l, k), b)
  <2>1. NoneBetween(n, a, a[k], a[AfterIn(n, k)])
    BY <1>1 DEF Cyclic
  <2>2. l[k] = e[k] /\ K!Behind(l, k) = e[AfterIn(n, k)] /\ AfterIn(n, k) \in 1..n
        /\ InGap(a[k], a[AfterIn(n, k)], c)
    BY <1>7, <1>11
  <2>3. a[k] = Address(l[k]) /\ a[AfterIn(n, k)] = Address(K!Behind(l, k))
    BY <1>1, <2>2
  <2>4. l[k] \in FreeOf(l) /\ K!Behind(l, k) \in FreeOf(l)
    BY <1>1, <2>2
  <2>5. \A x \in FreeOf(l) : \E j \in 1..n : Address(x) = a[j]
    BY <1>1
  <2>6. PICK p, q : p = l[k] /\ q = K!Behind(l, k)
    OBVIOUS
  <2>7. \/ /\ Address(p) < Address(q)
           /\ \A j \in 1..n : a[j] <= Address(p) \/ Address(q) <= a[j]
        \/ /\ Address(q) <= Address(p)
           /\ \A j \in 1..n : Address(q) <= a[j] /\ a[j] <= Address(p)
    BY <2>1, <2>3, <2>6 DEF NoneBetween
  <2>8. \/ /\ Address(p) < Address(q)
           /\ \A x \in FreeOf(l) : Address(x) <= Address(p) \/ Address(q) <= Address(x)
        \/ /\ Address(q) <= Address(p)
           /\ \A x \in FreeOf(l) : Address(q) <= Address(x) /\ Address(x) <= Address(p)
    BY <2>5, <2>7
  <2>9. InGap(Address(p), Address(q), Address(b))
    BY <1>3, <2>2, <2>3, <2>6
  <2>10. GapIn(FreeOf(l), p, q, b)
    BY <2>4, <2>6, <2>8, <2>9 DEF GapIn
  <2>11. QED BY <2>6, <2>10
<1>13. QED BY <1>2, <1>9a, <1>11, <1>12

\* What SubSeq leaves of a list without its first block, or its first two
LEMMA HeadAndRest ==
  ASSUME NEW r \in Seq(Piece), NEW n \in Nat, n = Len(r), NEW m \in 2..3, m - 1 <= n
  PROVE  /\ SubSeq(r, m, Len(r)) \in Seq(Piece) /\ Len(SubSeq(r, m, Len(r))) = n - m + 1
         /\ \A j \in 1..n - m + 1 : SubSeq(r, m, Len(r))[j] = r[m + j - 1]
<1>1. m \in 1..Len(r)+1 /\ Len(r) \in m-1..Len(r)
  OBVIOUS
<1>2. QED BY <1>1, SubSeqAt

\* slob_free keeps the ring in order, and joins b with the blocks that it touches.
LEMMA PutRing ==
  ASSUME NEW l \in Rings, NEW b \in Piece, \A x \in FreeOf(l) : Address(x) # Address(b),
         NEW y \in FreeOf(l), Address(y) < Address(b)
  PROVE  \E cur, nx :
           /\ GapIn(FreeOf(l), cur, nx, b) /\ K!Put(l, b) \in Rings
           /\ FreeOf(K!Put(l, b)) = AfterPut(FreeOf(l), cur, nx, b)
           /\ Touch(b, nx) => cur # nx
<1>1. PICK k \in 1..Len(l) :
           /\ k = Min({i \in DOMAIN l : K!Between(l, i, b)})
           /\ GapIn(FreeOf(l), l[k], K!Behind(l, k), b)
  BY PutPlace
<1>2. PICK r : r = K!From(l, k)
  OBVIOUS
<1>3. /\ r \in Rings /\ Len(r) = Len(l) /\ FreeOf(r) = FreeOf(l)
      /\ r[1] = l[k] /\ r[AfterIn(Len(l), 1)] = K!Behind(l, k)
  BY <1>2, FromRing
<1>4. r \in Seq(Piece) /\ Len(r) >= 1
  BY <1>3 DEF Rings
<1>5. PICK n \in Nat : n = Len(r) /\ n >= 1
  BY <1>4, LenProperties
<1>6. PICK cur, nx : cur = r[1] /\ nx = r[AfterIn(n, 1)]
  OBVIOUS
<1>7. GapIn(FreeOf(l), cur, nx, b) /\ cur \in FreeOf(l) /\ nx \in FreeOf(l)
      /\ InGap(Address(cur), Address(nx), Address(b))
  BY <1>1, <1>3, <1>5, <1>6 DEF GapIn
<1>8. FreeOf(l) \subseteq Piece
  <2>1. \A j \in 1..n : r[j] \in Piece
    BY <1>4, <1>5, ElementOfSeq
  <2>2. QED BY <1>3, <1>5, <2>1 DEF FreeOf
<1>9. cur \in Piece /\ nx \in Piece
  BY <1>7, <1>8
<1>10. K!Put(l, b) = IF Len(r) > 1 /\ b.at + b.units = r[2].at
                     THEN K!Join(r[1], K!Block(b.at, b.units + r[2].units), SubSeq(r, 3, Len(r)))
                     ELSE K!Join(r[1], b, SubSeq(r, 2, Len(r)))
  <2>1. K!Min({i \in DOMAIN l : K!Between(l, i, b)}) = k
    BY <1>1 DEF K!Min, Min
  <2>2. QED BY <1>2, <2>1 DEF K!Put
<1>11. CASE n = 1
  <2>1. cur = nx /\ \A x \in FreeOf(l) : x = cur
    <3>1. AfterIn(n, 1) = 1
      BY <1>11 DEF AfterIn
    <3>2. FreeOf(r) = {r[j] : j \in 1..1}
      BY <1>5, <1>11 DEF FreeOf
    <3>3. QED BY <1>3, <1>6, <3>1, <3>2
  <2>2. ~Touch(b, nx)
    <3>1. Address(nx) < Address(b)
      BY <2>1
    <3>2. PICK p \in Nat, q \in Nat, s \in Nat : p = nx.at /\ q = b.at /\ s = b.units
      BY <1>9 DEF Piece
    <3>3. p < q
      BY <3>1, <3>2 DEF Address
    <3>4. q + s # p
      BY <3>3
    <3>5. QED BY <3>2, <3>4 DEF Touch
  <2>3. PICK rest : rest = SubSeq(r, 2, Len(r))
    OBVIOUS
  <2>4. rest \in Seq(Piece) /\ Len(rest) = 0
    <3>1. 2 \in 2..3 /\ 2 - 1 <= n /\ n - 2 + 1 = 0
      BY <1>11
    <3>2. QED BY <1>4, <1>5, <2>3, <3>1, HeadAndRest
  <2>5. r = <<cur>> \o rest
    <3>1. PICK t : t = <<cur>> \o rest
      OBVIOUS
    <3>2. t \in Seq(Piece) /\ Len(t) = 1 /\ t[1] = cur
      BY <1>9, <2>4, <3>1, HeadAt
    <3>3. \A j \in 1..1 : j = 1
      OBVIOUS
    <3>4. \A j \in 1..Len(r) : r[j] = t[j]
      BY <1>5, <1>6, <1>11, <3>2, <3>3
    <3>5. QED BY <1>4, <1>5, <1>11, <3>1, <3>2, <3>4, SeqEqual
  <2>6. K!Put(l, b) = K!Join(cur, b, rest)
    <3>1. ~(Len(r) > 1)
      BY <1>5, <1>11
    <3>2. K!Put(l, b) = K!Join(r[1], b, SubSeq(r, 2, Len(r)))
      BY <1>10, <3>1, Zenon
    <3>3. QED BY <1>6, <2>3, <3>2
  <2>7. K!Join(cur, b, rest) \in Rings /\ FreeOf(K!Join(cur, b, rest)) = JoinedTo(FreeOf(l), cur, b)
    <3>1. InGap(Address(cur), Address(r[AfterIn(Len(r), 1)]), Address(b))
      BY <1>5, <1>6, <1>7
    <3>2. \A x \in FreeOf(r) : Address(x) # Address(b)
      BY <1>3
    <3>3. /\ K!Join(cur, b, rest) \in Rings
          /\ FreeOf(K!Join(cur, b, rest)) = JoinedTo(FreeOf(r), cur, b)
      BY <1>3, <1>9, <2>4, <2>5, <3>1, <3>2, JoinRing
    <3>4. QED BY <1>3, <3>3
  <2>8. QED BY <1>7, <2>2, <2>6, <2>7 DEF AfterPut
<1>12. CASE n > 1
  <2>1. nx = r[2] /\ Len(r) > 1 /\ AfterIn(n, 1) = 2
    BY <1>5, <1>6, <1>12 DEF AfterIn
  <2>2. (b.at + b.units = r[2].at) <=> Touch(b, nx)
    BY <2>1 DEF Touch
  <2>3. cur # nx
    <3>1. PICK e, a :
            /\ Lists(r, n, e) /\ Cyclic(n, a) /\ \A i \in 1..n : a[i] = Address(e[i])
      <4>1. PICK n2, e, a :
               /\ n2 \in Nat /\ n2 >= 1 /\ Lists(r, n2, e) /\ Cyclic(n2, a) /\ a \in [1..n2 -> Nat]
               /\ \A i \in 1..n2 : a[i] = Address(e[i]) /\ e[i] \in Piece
               /\ FreeOf(r) = {e[i] : i \in 1..n2} /\ a = AtsOf(r)
        BY <1>3, RingIs
      <4>2. n2 = n
        BY <1>5, <4>1 DEF Lists
      <4>3. QED BY <4>1, <4>2
    <3>2. 1 \in 1..n /\ 2 \in 1..n /\ 1 # 2
      BY <1>12
    <3>3. e[1] = cur /\ e[2] = nx
      BY <1>6, <2>1, <3>1, <3>2 DEF Lists
    <3>4. a[1] # a[2]
      BY <3>1, <3>2 DEF Cyclic
    <3>5. QED BY <3>1, <3>2, <3>3, <3>4
  <2>4. CASE Touch(b, nx)
    <3>1. PICK rest, t : rest = SubSeq(r, 3, Len(r)) /\ t = <<cur>> \o rest
      OBVIOUS
    <3>2. /\ rest \in Seq(Piece) /\ Len(rest) = n - 2
          /\ \A j \in 1..n - 2 : rest[j] = r[3 + j - 1]
      <4>1. 3 \in 2..3 /\ 3 - 1 <= n /\ n - 3 + 1 = n - 2
        BY <1>12
      <4>2. QED BY <1>4, <1>5, <3>1, <4>1, HeadAndRest
    <3>3. /\ t \in Seq(Piece) /\ Len(t) = Len(rest) + 1 /\ t[1] = cur
          /\ \A j \in 1..Len(rest) : t[j + 1] = rest[j]
      BY <1>9, <3>1, <3>2, HeadAt
    <3>4. ASSUME NEW j \in 2..n - 1 PROVE t[j] = r[j + 1]
      <4>1. j - 1 \in 1..n - 2 /\ (j - 1) + 1 = j /\ 3 + (j - 1) - 1 = j + 1
        BY <1>12
      <4>2. t[(j - 1) + 1] = rest[j - 1]
        BY <3>2, <3>3, <4>1
      <4>3. rest[j - 1] = r[3 + (j - 1) - 1]
        BY <3>2, <4>1
      <4>4. QED BY <4>1, <4>2, <4>3
    <3>5. SecondGone(r, t)
      <4>1. Len(t) = n - 1 /\ n >= 2
        BY <1>12, <3>2, <3>3
      <4>2. QED BY <1>3, <1>5, <1>6, <3>3, <3>4, <4>1 DEF SecondGone
    <3>6. PICK c \in Nat : c = Address(b)
      BY DEF Piece, Address
    <3>7. InGap(Address(r[1]), Address(r[2]), c)
      BY <1>6, <1>7, <2>1, <3>6
    <3>8. /\ t \in Rings /\ FreeOf(t) = FreeOf(l) \ {nx}
          /\ InGap(Address(t[1]), Address(t[AfterIn(Len(t), 1)]), c)
      BY <1>3, <2>1, <3>5, <3>7, RingWithout
    <3>9. PICK m : m = Merged(b, nx)
      OBVIOUS
    <3>10. m \in Piece /\ Address(m) = c
      BY <1>9, <3>6, <3>9, MergedIs
    <3>11. K!Join(cur, m, rest) \in Rings /\ FreeOf(K!Join(cur, m, rest)) = JoinedTo(FreeOf(l) \ {nx}, cur, m)
      <4>1. InGap(Address(cur), Address(t[AfterIn(Len(t), 1)]), Address(m))
        BY <3>3, <3>8, <3>10
      <4>2. \A x \in FreeOf(t) : Address(x) # Address(m)
        BY <3>6, <3>8, <3>10
      <4>3. /\ K!Join(cur, m, rest) \in Rings
            /\ FreeOf(K!Join(cur, m, rest)) = JoinedTo(FreeOf(t), cur, m)
        <5>1. cur \in Piece /\ m \in Piece /\ rest \in Seq(Piece) /\ t \in Rings /\ t = <<cur>> \o rest
          BY <1>9, <3>1, <3>2, <3>8, <3>10
        <5>2. QED BY <4>1, <4>2, <5>1, JoinRing
      <4>4. QED BY <3>8, <4>3
    <3>12. K!Put(l, b) = K!Join(cur, m, rest)
      BY <1>6, <1>10, <2>1, <2>2, <2>4, <3>1, <3>9 DEF Merged
    <3>13. QED BY <1>7, <2>3, <2>4, <3>9, <3>11, <3>12 DEF AfterPut
  <2>5. CASE ~Touch(b, nx)
    <3>1. PICK rest : rest = SubSeq(r, 2, Len(r))
      OBVIOUS
    <3>2. /\ rest \in Seq(Piece) /\ Len(rest) = n - 1
          /\ \A j \in 1..n - 1 : rest[j] = r[2 + j - 1]
      <4>1. 2 \in 2..3 /\ 2 - 1 <= n /\ n - 2 + 1 = n - 1
        BY <1>12
      <4>2. QED BY <1>4, <1>5, <3>1, <4>1, HeadAndRest
    <3>3. r = <<cur>> \o rest
      <4>1. PICK t : t = <<cur>> \o rest
        OBVIOUS
      <4>2. /\ t \in Seq(Piece) /\ Len(t) = Len(rest) + 1 /\ t[1] = cur
            /\ \A j \in 1..Len(rest) : t[j + 1] = rest[j]
        BY <1>9, <3>2, <4>1, HeadAt
      <4>3. ASSUME NEW j \in 1..n PROVE r[j] = t[j]
        <5>1. CASE j = 1
          BY <1>6, <4>2, <5>1
        <5>2. CASE j # 1
          <6>1. j - 1 \in 1..n - 1 /\ (j - 1) + 1 = j /\ 2 + (j - 1) - 1 = j
            BY <5>2
          <6>2. t[(j - 1) + 1] = rest[j - 1]
            BY <3>2, <4>2, <6>1
          <6>3. rest[j - 1] = r[2 + (j - 1) - 1]
            BY <3>2, <6>1
          <6>4. QED BY <6>1, <6>2, <6>3
        <5>3. QED BY <5>1, <5>2
      <4>4. Len(t) = n
        BY <1>12, <3>2, <4>2
      <4>5. QED BY <1>4, <1>5, <4>1, <4>2, <4>3, <4>4, SeqEqual
    <3>4. K!Join(cur, b, rest) \in Rings /\ FreeOf(K!Join(cur, b, rest)) = JoinedTo(FreeOf(l), cur, b)
      <4>1. InGap(Address(cur), Address(r[AfterIn(Len(r), 1)]), Address(b))
        BY <1>5, <1>6, <1>7
      <4>2. \A x \in FreeOf(r) : Address(x) # Address(b)
        BY <1>3
      <4>3. /\ K!Join(cur, b, rest) \in Rings
            /\ FreeOf(K!Join(cur, b, rest)) = JoinedTo(FreeOf(r), cur, b)
        BY <1>3, <1>9, <3>2, <3>3, <4>1, <4>2, JoinRing
      <4>4. QED BY <1>3, <4>3
    <3>5. K!Put(l, b) = K!Join(cur, b, rest)
      BY <1>6, <1>10, <2>2, <2>5, <3>1
    <3>6. QED BY <1>7, <2>3, <2>5, <3>4, <3>5 DEF AfterPut
  <2>6. QED BY <2>4, <2>5
<1>13. QED BY <1>5, <1>11, <1>12

------------------------------------------------------------------------------
(* slob_alloc on the ring. *)

\* Every free block is behind some place of the ring.
LEMMA PlaceOf ==
  ASSUME NEW l \in Rings, NEW x \in FreeOf(l)
  PROVE  \E k \in 1..Len(l) : K!Behind(l, k) = x
<1>1. PICK n \in Nat : n = Len(l) /\ n >= 1
  BY LenProperties DEF Rings
<1>2. PICK j \in 1..n : x = l[j]
  BY <1>1 DEF FreeOf
<1>3. CASE j = 1
  <2>1. n \in Nat \ {0} /\ n = n * 1 + 0 /\ 0 \in 0..(n - 1) /\ 1 \in Int
    BY <1>1
  <2>2. n % n = 0
    BY <2>1, ModOf
  <2>3. K!Behind(l, n) = x
    BY <1>1, <1>2, <1>3, <2>2 DEF K!Behind
  <2>4. QED BY <1>1, <2>3
<1>4. CASE j # 1
  <2>1. n \in Nat \ {0} /\ j - 1 \in 0..(n - 1) /\ j - 1 \in 1..n /\ (j - 1) + 1 = j
    BY <1>2, <1>4
  <2>2. (j - 1) % n = j - 1
    BY <2>1, ModSmall
  <2>3. K!Behind(l, j - 1) = x
    BY <1>1, <1>2, <2>1, <2>2 DEF K!Behind
  <2>4. QED BY <1>1, <2>1, <2>3
<1>5. QED BY <1>3, <1>4

\* What slob_alloc finds.
LEMMA FoundIs ==
  ASSUME NEW l \in Rings, NEW units \in Nat, NEW x \in FreeOf(l), x.units >= units
  PROVE  /\ K!Fits(l, units) /\ K!Found(l, units) \in 1..Len(l)
         /\ K!Behind(l, K!Found(l, units)).units >= units
<1>1. l \in Seq(Piece) /\ DOMAIN l = 1..Len(l) /\ Len(l) \in Nat
  BY LenProperties DEF Rings
<1>2. PICK k \in 1..Len(l) : K!Behind(l, k) = x
  BY PlaceOf
<1>3. K!Fits(l, units)
  BY <1>1, <1>2 DEF K!Fits
<1>4. PICK S : S = {i \in DOMAIN l : K!Behind(l, i).units >= units}
  OBVIOUS
<1>5. k \in S /\ S \subseteq Nat
  BY <1>1, <1>2, <1>4
<1>6. Min(S) \in S
  BY <1>5, MinIn
<1>7. K!Found(l, units) = Min(S)
  BY <1>4 DEF K!Found, K!Min, Min
<1>8. QED BY <1>1, <1>3, <1>4, <1>6, <1>7

\* two blocks that do not overlap
Clear(x, y) == x.at + x.units <= y.at \/ y.at + y.units <= x.at
\* what is left of c
RestOf(c, n) == K!Block(c.at + n, c.units - n)
\* the free blocks after slob_alloc
AfterCut(F, c, n) == IF c.units = n THEN F \ {c} ELSE (F \ {c}) \cup {RestOf(c, n)}

\* What is left of a block that is larger than the object
LEMMA RestIs ==
  ASSUME NEW c \in Piece, NEW n \in Nat, n >= 1, n < c.units
  PROVE  /\ RestOf(c, n) \in Piece /\ Address(RestOf(c, n)) = c.at + n
         /\ RestOf(c, n).at = c.at + n /\ RestOf(c, n).units = c.units - n
<1>1. c.at \in Nat /\ c.units \in Nat \ {0}
  BY DEF Piece
<1>2. c.units - n \in Nat \ {0} /\ c.at + n \in Nat
  BY <1>1
<1>3. RestOf(c, n) = [at |-> c.at + n, units |-> c.units - n]
  BY DEF RestOf, K!Block
<1>4. QED BY <1>2, <1>3 DEF Piece, Address

\* A list with another second block
LEMMA InPlace ==
  ASSUME NEW r \in Seq(Piece), Len(r) >= 2, NEW x \in Piece
  PROVE  /\ K!ReplaceAt(r, 2, x) \in Seq(Piece) /\ Len(K!ReplaceAt(r, 2, x)) = Len(r)
         /\ \A j \in 1..Len(r) : K!ReplaceAt(r, 2, x)[j] = IF j = 2 THEN x ELSE r[j]
<1>1. K!ReplaceAt(r, 2, x) = [r EXCEPT ![2] = x]
  BY DEF K!ReplaceAt
<1>2. 2 \in 1..Len(r)
  BY LenProperties
<1>3. QED BY <1>1, <1>2, ExceptSeq

\* slob_alloc keeps the ring in order, and takes the object from the front of a block.
LEMMA CutRing ==
  ASSUME NEW l \in Rings, NEW n \in Nat, n >= 2, NEW x \in FreeOf(l), x.units >= n,
         Arena \in FreeOf(l), \A y, z \in FreeOf(l) : y = z \/ Clear(y, z)
  PROVE  \E c \in FreeOf(l) :
           /\ c.units >= n /\ K!Object(l, n) = K!Block(c.at, n)
           /\ K!Cut(l, n) \in Rings /\ FreeOf(K!Cut(l, n)) = AfterCut(FreeOf(l), c, n)
<1>1. PICK k \in 1..Len(l) : k = K!Found(l, n) /\ K!Behind(l, k).units >= n
  BY FoundIs
<1>2. PICK r : r = K!From(l, k)
  OBVIOUS
<1>3. PICK c : c = K!Behind(l, k)
  OBVIOUS
<1>4. /\ r \in Rings /\ Len(r) = Len(l) /\ FreeOf(r) = FreeOf(l)
      /\ r[1] = l[k] /\ r[AfterIn(Len(l), 1)] = c
  BY <1>2, <1>3, FromRing
<1>5. r \in Seq(Piece) /\ Len(r) >= 1
  BY <1>4 DEF Rings
<1>6. PICK m \in Nat : m = Len(r) /\ m >= 1
  BY <1>5, LenProperties
<1>7. \A j \in 1..m : r[j] \in Piece /\ r[j] \in FreeOf(l)
  <2>1. \A j \in 1..m : r[j] \in Piece
    BY <1>5, <1>6, ElementOfSeq
  <2>2. QED BY <1>4, <1>6, <2>1 DEF FreeOf
<1>8. AfterIn(m, 1) \in 1..m
  BY <1>6 DEF AfterIn
<1>9. c \in FreeOf(l) /\ c \in Piece /\ c.units >= n
  BY <1>1, <1>3, <1>4, <1>6, <1>7, <1>8
<1>10. m >= 2
  <2> SUFFICES ASSUME m = 1 PROVE FALSE
    BY <1>6
  <2>1. FreeOf(r) = {r[j] : j \in 1..1}
    BY <1>6 DEF FreeOf
  <2>2. Arena = c
    BY <1>4, <1>9, <2>1
  <2>3. Arena.units = 1
    BY DEF Arena, K!Block
  <2>4. QED BY <1>9, <2>2, <2>3
<1>11. c = r[2] /\ 2 \in 1..Len(r)
  BY <1>4, <1>6, <1>10 DEF AfterIn
<1>12. K!Object(l, n) = K!Block(c.at, n)
  BY <1>1, <1>3 DEF K!Object
<1>13. K!Cut(l, n) = IF c.units = n THEN K!RemoveAt(r, 2)
                     ELSE K!ReplaceAt(r, 2, K!Block(c.at + n, c.units - n))
  BY <1>1, <1>2, <1>3 DEF K!Cut
<1>14. PICK t : t = RemoveAt(r, 2)
  OBVIOUS
<1>15. K!RemoveAt(r, 2) = t
  BY <1>14 DEF K!RemoveAt, RemoveAt
<1>16. SecondGone(r, t)
  <2>1. /\ t \in Seq(Piece) /\ Len(t) = Len(r) - 1
        /\ \A j \in 1..Len(r) - 1 : t[j] = r[IF j < 2 THEN j ELSE j + 1]
    BY <1>5, <1>11, <1>14, RemoveAtAt
  <2>2. 1 \in 1..Len(r) - 1 /\ \A j \in 2..Len(r) - 1 : j \in 1..Len(r) - 1 /\ ~(j < 2)
    BY <1>6, <1>10
  <2>3. t[1] = r[1] /\ \A j \in 2..Len(r) - 1 : t[j] = r[j + 1]
    BY <2>1, <2>2
  <2>4. QED BY <1>4, <1>6, <1>10, <2>1, <2>3 DEF SecondGone
<1>17. /\ t \in Rings /\ FreeOf(t) = FreeOf(r) \ {r[2]}
       /\ \A a \in Nat : InGap(Address(r[2]), Address(r[AfterIn(Len(r), 2)]), a)
                           => InGap(Address(t[1]), Address(t[AfterIn(Len(t), 1)]), a)
  BY <1>16, RingWithout
<1>18. CASE c.units = n
  <2>1. K!Cut(l, n) = t
    BY <1>13, <1>15, <1>18
  <2>2. FreeOf(t) = AfterCut(FreeOf(l), c, n)
    BY <1>4, <1>11, <1>17, <1>18 DEF AfterCut
  <2>3. QED BY <1>9, <1>12, <1>17, <2>1, <2>2
<1>19. CASE c.units # n
  <2>1. PICK rest : rest = RestOf(c, n)
    OBVIOUS
  <2>2. c.at \in Nat /\ c.units \in Nat /\ n < c.units
    BY <1>9, <1>19 DEF Piece
  <2>3. rest \in Piece /\ Address(rest) = c.at + n
    BY <1>9, <2>1, <2>2, RestIs
  <2>4. PICK t2 : t2 = K!ReplaceAt(r, 2, rest)
    OBVIOUS
  <2>5. K!Cut(l, n) = t2
    BY <1>13, <1>19, <2>1, <2>4 DEF RestOf
  <2>6. /\ t2 \in Seq(Piece) /\ Len(t2) = Len(r)
        /\ \A j \in 1..Len(r) : t2[j] = IF j = 2 THEN rest ELSE r[j]
    <3>1. r \in Seq(Piece) /\ Len(r) >= 2 /\ rest \in Piece
      BY <1>5, <1>6, <1>10, <2>3
    <3>2. /\ K!ReplaceAt(r, 2, rest) \in Seq(Piece) /\ Len(K!ReplaceAt(r, 2, rest)) = Len(r)
          /\ \A j \in 1..Len(r) : K!ReplaceAt(r, 2, rest)[j] = IF j = 2 THEN rest ELSE r[j]
      BY <3>1, InPlace
    <3>3. QED BY <2>4, <3>2
  <2>7. PICK a \in Nat, p \in Nat : a = c.at + n /\ p = c.at
    BY <2>2
  <2>8. \A y \in FreeOf(l) : y # c => Address(y) # a /\ (p < Address(y) => a < Address(y))
    <3> SUFFICES ASSUME NEW y \in FreeOf(l), y # c
                 PROVE  Address(y) # a /\ (p < Address(y) => a < Address(y))
      OBVIOUS
    <3>1. Clear(y, c)
      BY <1>9
    <3>2. y \in Piece
      <4>1. \E j \in 1..m : y = r[j]
        BY <1>4, <1>6 DEF FreeOf
      <4>2. QED BY <1>7, <4>1
    <3>3. PICK ya \in Nat, yu \in Nat, cu \in Nat : ya = y.at /\ yu = y.units /\ cu = c.units /\ yu > 0
      BY <2>2, <3>2 DEF Piece
    <3>4. ya + yu <= p \/ p + cu <= ya
      BY <2>7, <3>1, <3>3 DEF Clear
    <3>5. a = p + n /\ n < cu
      BY <2>2, <2>7, <3>3
    <3>6. ya # a /\ (p < ya => a < ya)
      BY <3>3, <3>4, <3>5
    <3>7. QED BY <3>3, <3>6 DEF Address
  <2>9. InGap(Address(r[2]), Address(r[AfterIn(Len(r), 2)]), a)
    <3>1. PICK z : z = r[AfterIn(m, 2)]
      OBVIOUS
    <3>2. AfterIn(m, 2) \in 1..m
      BY <1>10 DEF AfterIn
    <3>3. z \in FreeOf(l) /\ z \in Piece
      BY <1>7, <3>1, <3>2
    <3>4. PICK za \in Nat : za = Address(z)
      BY <3>3 DEF Address, Piece
    <3>5. p < za => a < za
      <4>1. z = c => za = p
        BY <2>7, <3>4 DEF Address
      <4>2. QED BY <2>8, <3>3, <3>4, <4>1, <2>7
    <3>6. p < a
      BY <2>7, <2>2
    <3>7. InGap(p, za, a)
      BY <3>5, <3>6 DEF InGap
    <3>8. Address(r[2]) = p
      BY <1>11, <2>7 DEF Address
    <3>9. QED BY <1>6, <3>1, <3>4, <3>7, <3>8
  <2>10. SecondNew(t, rest, t2)
    <3>1. t \in Rings /\ rest \in Piece /\ t2 \in Seq(Piece) /\ Len(t2) = Len(t) + 1
      <4>1. Len(t) = m - 1
        BY <1>6, <1>16 DEF SecondGone
      <4>2. QED BY <1>6, <1>17, <2>3, <2>6, <4>1
    <3>2. t[1] = r[1] /\ Len(t) = m - 1 /\ \A j \in 2..m - 1 : t[j] = r[j + 1]
      BY <1>6, <1>16 DEF SecondGone
    <3>3. t2[1] = t[1] /\ t2[2] = rest
      <4>1. 1 \in 1..Len(r) /\ 2 \in 1..Len(r) /\ 1 # 2
        BY <1>6, <1>10
      <4>2. QED BY <2>6, <3>2, <4>1
    <3>4. ASSUME NEW j \in 2..Len(t) PROVE t2[j + 1] = t[j]
      <4>1. j \in 2..m - 1 /\ j + 1 \in 1..Len(r) /\ j + 1 # 2
        BY <1>6, <3>2
      <4>2. QED BY <2>6, <3>2, <4>1
    <3>5. InGap(Address(t[1]), Address(t[AfterIn(Len(t), 1)]), Address(rest))
      BY <1>17, <2>3, <2>7, <2>9
    <3>6. \A y \in FreeOf(t) : Address(y) # Address(rest)
      BY <1>4, <1>11, <1>17, <2>3, <2>7, <2>8
    <3>7. QED BY <3>1, <3>3, <3>4, <3>5, <3>6 DEF SecondNew
  <2>11. t2 \in Rings /\ FreeOf(t2) = FreeOf(t) \cup {rest}
    BY <2>10, RingWith
  <2>12. FreeOf(t2) = AfterCut(FreeOf(l), c, n)
    BY <1>4, <1>11, <1>17, <1>19, <2>1, <2>11 DEF AfterCut
  <2>13. QED BY <1>9, <1>12, <2>5, <2>11, <2>12
<1>20. QED BY <1>18, <1>19

------------------------------------------------------------------------------
(* Who has which unit. *)

\* the unit u is the owner's
HasUnit(o, u) ==
  \/ o[1] \in {"free", "object", "taken"} /\ u \in K!Units(o[2])
  \/ o[1] = "large" /\ (u \in K!Units(o[2].bb) \/ u \div K!PageUnits \in K!BigPages(o[2]))
  \/ o[1] = "page" /\ u \in K!Units(K!Page(o[2]))

\* one of the owners has the unit
OneHas(O, u) == \E o \in O : HasUnit(o, u) /\ \A q \in O : HasUnit(q, u) => q = o

\* the free blocks as owners
FreeOwners(F) == {<<"free", b>> : b \in F}
\* none of R is a free block
NoFree(R) == \A o \in R : o[1] # "free"

\* the free blocks F and the other owners R share out the heap
SharedOut(F, R) == NoFree(R) /\ \A u \in Heaped : OneHas(FreeOwners(F) \cup R, u)

\* the blocks are the arena and some of the heap, and none touches another
Spaced(F) ==
  /\ Arena \in F /\ \A x \in F : x = Arena \/ x \in Inside
  /\ \A x, y \in F : ~Touch(x, y)

\* What the owners have, by their kinds
LEMMA HasIs ==
  ASSUME NEW b, NEW u
  PROVE  /\ HasUnit(<<"free", b>>, u) <=> u \in K!Units(b)
         /\ HasUnit(<<"object", b>>, u) <=> u \in K!Units(b)
         /\ HasUnit(<<"taken", b>>, u) <=> u \in K!Units(b)
         /\ HasUnit(<<"page", b>>, u) <=> u \in K!Units(K!Page(b))
         /\ HasUnit(<<"large", b>>, u) <=> u \in K!Units(b.bb) \/ u \div K!PageUnits \in K!BigPages(b)
BY DEF HasUnit

\* Owners that exchange what they have leave every unit with one owner.
LEMMA ExchangeOne ==
  ASSUME NEW O, NEW out, NEW in, NEW Q, NEW u, OneHas(O, u), Q = (O \ out) \cup in, out \subseteq O,
         (\E o \in out : HasUnit(o, u)) <=> (\E o \in in : HasUnit(o, u)),
         \A o, q \in in : HasUnit(o, u) /\ HasUnit(q, u) => o = q
  PROVE  OneHas(Q, u)
<1>1. PICK o \in O : HasUnit(o, u) /\ \A q \in O : HasUnit(q, u) => q = o
  BY DEF OneHas
<1>2. CASE o \in out
  <2>1. PICK i \in in : HasUnit(i, u)
    BY <1>1, <1>2
  <2>2. \A q \in Q : HasUnit(q, u) => q = i
    BY <1>1, <1>2, <2>1
  <2>3. QED BY <2>1, <2>2 DEF OneHas
<1>3. CASE o \notin out
  <2>1. \A q \in in : ~HasUnit(q, u)
    BY <1>1, <1>3
  <2>2. \A q \in Q : HasUnit(q, u) => q = o
    BY <1>1, <2>1
  <2>3. QED BY <1>1, <1>3, <2>2 DEF OneHas
<1>4. QED BY <1>2, <1>3

\* The units of a block
LEMMA UnitsIs ==
  ASSUME NEW b \in Piece, NEW u \in Nat
  PROVE  u \in K!Units(b) <=> b.at <= u /\ u < b.at + b.units
<1>1. PICK a \in Nat, n \in Nat : a = b.at /\ n = b.units
  BY DEF Piece
<1>2. u \in a..(a + n - 1) <=> a <= u /\ u < a + n
  OBVIOUS
<1>3. QED BY <1>1, <1>2 DEF K!Units

\* A block of the heap lies in the heap.
LEMMA InsideIs ==
  ASSUME NEW b \in Inside
  PROVE  /\ b \in Piece /\ b.at \in Nat /\ b.units \in Nat \ {0} /\ K!PageUnits <= b.at
         /\ b.at + b.units <= Top /\ b # Arena
         /\ \A u \in Nat : u \in K!Units(b) => u \in Heaped
<1>1. b \in Piece /\ K!PageUnits <= b.at /\ b.at + b.units <= Top
  BY DEF Inside
<1>2. PICK a \in Nat, n \in Nat : a = b.at /\ n = b.units /\ n > 0
  BY <1>1 DEF Piece
<1>3. PICK d \in Nat, t \in Nat : d = K!PageUnits /\ t = Top /\ d >= 3
  BY HeapNumbers
<1>4. \A u \in Nat : a <= u /\ u < a + n => u \in d..(t - 1)
  BY <1>1, <1>2, <1>3
<1>5. b # Arena
  <2>1. Arena.at = 0
    BY DEF Arena, K!Block
  <2>2. QED BY <1>1, <1>2, <1>3, <2>1
<1>6. QED BY <1>1, <1>2, <1>3, <1>4, <1>5, UnitsIs DEF Heaped

\* Owners of different pieces
LEMMA ClearOf ==
  ASSUME NEW O, \A u \in Heaped : OneHas(O, u), NEW o \in O, NEW q \in O, o # q,
         NEW x \in Inside, \A u \in Heaped : u \in K!Units(x) => HasUnit(o, u),
         NEW y \in Inside, \A u \in Heaped : u \in K!Units(y) => HasUnit(q, u)
  PROVE  Clear(x, y)
<1>1. PICK a \in Nat, n \in Nat : a = x.at /\ n = x.units /\ n > 0
  BY InsideIs
<1>2. PICK b \in Nat, m \in Nat : b = y.at /\ m = y.units /\ m > 0
  BY InsideIs
<1>3. \A u \in Heaped : ~(u \in K!Units(x) /\ u \in K!Units(y))
  BY DEF OneHas
<1>4. \A u \in Nat : ~(u \in K!Units(x) /\ u \in K!Units(y))
  BY <1>3, InsideIs
<1>5. x \in Piece /\ y \in Piece
  BY InsideIs
<1>6. \A u \in Nat : ~(a <= u /\ u < a + n /\ b <= u /\ u < b + m)
  BY <1>1, <1>2, <1>4, <1>5, UnitsIs
<1>7. a + n <= b \/ b + m <= a
  <2>1. a <= b => a + n <= b
    BY <1>6, <1>2
  <2>2. b <= a => b + m <= a
    BY <1>6, <1>1
  <2>3. QED BY <2>1, <2>2
<1>8. QED BY <1>1, <1>2, <1>7 DEF Clear

\* The arena is apart from the heap.
LEMMA ArenaClear ==
  ASSUME NEW y \in Inside
  PROVE  Clear(Arena, y) /\ Clear(y, Arena)
<1>1. Arena.at = 0 /\ Arena.units = 1
  BY DEF Arena, K!Block
<1>2. PICK b \in Nat, d \in Nat : b = y.at /\ d = K!PageUnits /\ d >= 3 /\ d <= b
  BY HeapNumbers, InsideIs
<1>3. 0 + 1 <= b
  BY <1>2
<1>4. QED BY <1>1, <1>2, <1>3 DEF Clear

\* Free blocks do not overlap.
LEMMA FreeClear ==
  ASSUME NEW F, NEW R, SharedOut(F, R), Spaced(F), NEW x \in F, NEW y \in F
  PROVE  x = y \/ Clear(x, y)
<1>1. (x = Arena \/ x \in Inside) /\ (y = Arena \/ y \in Inside)
  BY DEF Spaced
<1>2. CASE x \in Inside /\ y \in Inside /\ x # y
  <2>1. <<"free", x>> \in FreeOwners(F) \cup R /\ <<"free", y>> \in FreeOwners(F) \cup R
    BY DEF FreeOwners
  <2>2. <<"free", x>> # <<"free", y>>
    BY <1>2
  <2>3. \A u \in Heaped : OneHas(FreeOwners(F) \cup R, u)
    BY DEF SharedOut
  <2>4. PICK O, p, q : O = FreeOwners(F) \cup R /\ p = <<"free", x>> /\ q = <<"free", y>>
    OBVIOUS
  <2>5. p \in O /\ q \in O /\ p # q /\ \A u \in Heaped : OneHas(O, u)
    BY <2>1, <2>2, <2>3, <2>4
  <2>6. \A u \in Heaped : u \in K!Units(x) => HasUnit(p, u)
    BY <2>4, HasIs
  <2>7. \A u \in Heaped : u \in K!Units(y) => HasUnit(q, u)
    BY <2>4, HasIs
  <2>8. Clear(x, y)
    BY <1>2, <2>5, <2>6, <2>7, ClearOf
  <2>9. QED BY <2>8
<1>3. QED BY <1>1, <1>2, ArenaClear

\* A free block does not overlap what another owner has.
LEMMA OtherClear ==
  ASSUME NEW F, NEW R, SharedOut(F, R), Spaced(F), NEW x \in F, NEW o \in R, NEW b \in Inside,
         \A u \in Heaped : HasUnit(o, u) <=> u \in K!Units(b)
  PROVE  Clear(x, b)
<1>1. x = Arena \/ x \in Inside
  BY DEF Spaced
<1>2. CASE x \in Inside
  <2>1. <<"free", x>> \in FreeOwners(F) \cup R /\ o \in FreeOwners(F) \cup R
    BY DEF FreeOwners
  <2>2. <<"free", x>> # o
    BY DEF SharedOut, NoFree
  <2>3. \A u \in Heaped : OneHas(FreeOwners(F) \cup R, u)
    BY DEF SharedOut
  <2>4. PICK O, p : O = FreeOwners(F) \cup R /\ p = <<"free", x>>
    OBVIOUS
  <2>5. p \in O /\ o \in O /\ p # o /\ \A u \in Heaped : OneHas(O, u)
    BY <2>1, <2>2, <2>3, <2>4
  <2>6. \A u \in Heaped : u \in K!Units(x) => HasUnit(p, u)
    BY <2>4, HasIs
  <2>7. QED BY <1>2, <2>5, <2>6, ClearOf
<1>3. QED BY <1>1, <1>2, ArenaClear

\* The block m takes the units of the owner o and of the free blocks G.
LEMMA TakesUnits ==
  ASSUME NEW F, NEW R, SharedOut(F, R), NEW o \in R, NEW G, G \subseteq F, NEW m,
         \A u \in Heaped : u \in K!Units(m) <=> HasUnit(o, u) \/ \E g \in G : u \in K!Units(g)
  PROVE  SharedOut((F \ G) \cup {m}, R \ {o})
<1>1. PICK O, out, in, Q :
        /\ O = FreeOwners(F) \cup R /\ out = {o} \cup FreeOwners(G)
        /\ in = {<<"free", m>>} /\ Q = FreeOwners((F \ G) \cup {m}) \cup (R \ {o})
  OBVIOUS
<1>2. NoFree(R) /\ \A u \in Heaped : OneHas(O, u)
  BY <1>1 DEF SharedOut
<1>3. out \subseteq O
  BY <1>1 DEF FreeOwners
<1>4. Q = (O \ out) \cup in
  <2>1. FreeOwners((F \ G) \cup {m}) = (FreeOwners(F) \ FreeOwners(G)) \cup {<<"free", m>>}
    BY DEF FreeOwners
  <2>2. \A p \in FreeOwners(F) \cup FreeOwners(G) : p[1] = "free"
    BY DEF FreeOwners
  <2>3. \A p \in R : p \notin FreeOwners(F) /\ p \notin FreeOwners(G)
    BY <1>2, <2>2 DEF NoFree
  <2>4. QED BY <1>1, <2>1, <2>3
<1>5. ASSUME NEW u \in Heaped PROVE OneHas(Q, u)
  <2>1. (\E p \in in : HasUnit(p, u)) <=> u \in K!Units(m)
    BY <1>1, HasIs
  <2>2. (\E p \in out : HasUnit(p, u)) <=> HasUnit(o, u) \/ \E g \in G : u \in K!Units(g)
    <3>1. (\E p \in FreeOwners(G) : HasUnit(p, u)) <=> \E g \in G : u \in K!Units(g)
      BY HasIs DEF FreeOwners
    <3>2. QED BY <1>1, <3>1
  <2>3. \A p, q \in in : p = q
    BY <1>1
  <2>4. (\E p \in out : HasUnit(p, u)) <=> (\E p \in in : HasUnit(p, u))
    BY <2>1, <2>2
  <2>5. OneHas(O, u)
    BY <1>2
  <2>6. QED BY <1>3, <1>4, <2>3, <2>4, <2>5, ExchangeOne
<1>6. NoFree(R \ {o})
  BY <1>2 DEF NoFree
<1>7. QED BY <1>1, <1>5, <1>6 DEF SharedOut

\* Only the owners that are not free blocks change.
LEMMA ChangesHands ==
  ASSUME NEW F, NEW R, SharedOut(F, R), NEW out, out \subseteq R, NEW in, NoFree(in),
         NEW Q, Q = (R \ out) \cup in,
         \A u \in Heaped : (\E o \in out : HasUnit(o, u)) <=> (\E o \in in : HasUnit(o, u)),
         \A u \in Heaped : \A o, q \in in : HasUnit(o, u) /\ HasUnit(q, u) => o = q
  PROVE  SharedOut(F, Q)
<1>1. PICK O, P2 : O = FreeOwners(F) \cup R /\ P2 = FreeOwners(F) \cup Q
  OBVIOUS
<1>2. NoFree(R) /\ \A u \in Heaped : OneHas(O, u)
  BY <1>1 DEF SharedOut
<1>3. out \subseteq O /\ P2 = (O \ out) \cup in
  <2>1. \A p \in FreeOwners(F) : p[1] = "free"
    BY DEF FreeOwners
  <2>2. \A p \in out : p \notin FreeOwners(F)
    BY <1>2, <2>1 DEF NoFree
  <2>3. QED BY <1>1, <2>2
<1>4. ASSUME NEW u \in Heaped PROVE OneHas(P2, u)
  <2>1. OneHas(O, u)
    BY <1>2
  <2>2. (\E o \in out : HasUnit(o, u)) <=> (\E o \in in : HasUnit(o, u))
    OBVIOUS
  <2>3. \A o, q \in in : HasUnit(o, u) /\ HasUnit(q, u) => o = q
    OBVIOUS
  <2>4. QED BY <1>3, <2>1, <2>2, <2>3, ExchangeOne
<1>5. NoFree(Q)
  BY <1>2 DEF NoFree
<1>6. QED BY <1>1, <1>4, <1>5 DEF SharedOut

\* Blocks that do not touch and one more that touches none of them
LEMMA SpacedWith ==
  ASSUME NEW F, Spaced(F), NEW G, G \subseteq F, Arena \notin G, NEW m \in Inside,
         \A x \in F \ G : ~Touch(x, m) /\ ~Touch(m, x)
  PROVE  Spaced((F \ G) \cup {m})
<1>1. ~Touch(m, m)
  <2>1. PICK a \in Nat, n \in Nat : a = m.at /\ n = m.units /\ n > 0
    BY InsideIs
  <2>2. a + n # a
    BY <2>1
  <2>3. QED BY <2>1, <2>2 DEF Touch
<1>2. QED BY <1>1 DEF Spaced

\* Two blocks as one have the units of both, and touch what they touch at the ends.
LEMMA MergedUnits ==
  ASSUME NEW x \in Inside, NEW y \in Inside, Touch(x, y)
  PROVE  /\ Merged(x, y) \in Inside /\ Merged(x, y).at = x.at
         /\ Merged(x, y).units >= x.units /\ Merged(x, y).units >= y.units
         /\ \A u \in Nat : u \in K!Units(Merged(x, y)) <=> u \in K!Units(x) \/ u \in K!Units(y)
         /\ \A z : Touch(z, Merged(x, y)) <=> Touch(z, x)
         /\ \A z : Touch(Merged(x, y), z) <=> Touch(y, z)
<1>1. /\ x \in Piece /\ x.at \in Nat /\ x.units \in Nat \ {0} /\ K!PageUnits <= x.at
      /\ x.at + x.units <= Top
  BY InsideIs
<1>2. /\ y \in Piece /\ y.at \in Nat /\ y.units \in Nat \ {0} /\ K!PageUnits <= y.at
      /\ y.at + y.units <= Top
  BY InsideIs
<1>3. PICK a \in Nat, n \in Nat, m \in Nat : a = x.at /\ n = x.units /\ m = y.units /\ n > 0 /\ m > 0
  BY <1>1, <1>2
<1>4. y.at = a + n
  BY <1>3 DEF Touch
<1>5. PICK w : w = Merged(x, y)
  OBVIOUS
<1>6. w \in Piece /\ w.at = a /\ w.units = n + m
  BY <1>1, <1>2, <1>3, <1>5, MergedIs
<1>7. w \in Inside
  <2>1. a + (n + m) = (a + n) + m
    OBVIOUS
  <2>2. QED BY <1>1, <1>2, <1>3, <1>4, <1>6, <2>1 DEF Inside
<1>8. ASSUME NEW u \in Nat PROVE u \in K!Units(w) <=> u \in K!Units(x) \/ u \in K!Units(y)
  <2>1. u \in K!Units(w) <=> a <= u /\ u < a + (n + m)
    BY <1>6, UnitsIs
  <2>2. u \in K!Units(x) <=> a <= u /\ u < a + n
    BY <1>1, <1>3, UnitsIs
  <2>3. u \in K!Units(y) <=> a + n <= u /\ u < (a + n) + m
    BY <1>2, <1>3, <1>4, UnitsIs
  <2>4. QED BY <2>1, <2>2, <2>3
<1>9. \A z : Touch(z, w) <=> Touch(z, x)
  BY <1>3, <1>6 DEF Touch
<1>10. \A z : Touch(w, z) <=> Touch(y, z)
  <2>1. a + (n + m) = (a + n) + m
    OBVIOUS
  <2>2. QED BY <1>3, <1>4, <1>6, <2>1 DEF Touch
<1>11. n + m >= n /\ n + m >= m
  OBVIOUS
<1>12. QED BY <1>3, <1>5, <1>6, <1>7, <1>8, <1>9, <1>10, <1>11

------------------------------------------------------------------------------
(* Both calls on the owners. *)

\* Only the two blocks that b comes between can touch it.
LEMMA TouchesPlace ==
  ASSUME NEW F, F \subseteq Piece, \A x, y \in F : x = y \/ Clear(x, y),
         NEW b \in Piece, \A x \in F : Clear(x, b), NEW cur, NEW nx, GapIn(F, cur, nx, b)
  PROVE  /\ \A x \in F : Touch(x, b) => x = cur
         /\ \A x \in F : Touch(b, x) => x = nx
<1>1. cur \in F /\ nx \in F
  BY DEF GapIn
<1>2. PICK p \in Nat, pn \in Nat : p = cur.at /\ pn = cur.units /\ pn > 0
  BY <1>1 DEF Piece
<1>3. PICK q \in Nat, qn \in Nat : q = nx.at /\ qn = nx.units /\ qn > 0
  BY <1>1 DEF Piece
<1>4. PICK a \in Nat, n \in Nat : a = b.at /\ n = b.units /\ n > 0
  BY DEF Piece
<1>5. InGap(p, q, a)
  BY <1>2, <1>3, <1>4 DEF GapIn, Address
<1>6. q + qn <= a \/ a + n <= q
  BY <1>1, <1>3, <1>4 DEF Clear
<1>7. ASSUME NEW x \in F
      PROVE  (Touch(x, b) => x = cur) /\ (Touch(b, x) => x = nx)
  <2>1. PICK y \in Nat, yn \in Nat : y = x.at /\ yn = x.units /\ yn > 0
    BY DEF Piece
  <2>2. (p < q /\ (y <= p \/ q <= y)) \/ (q <= p /\ q <= y /\ y <= p)
    BY <1>2, <1>3, <2>1 DEF GapIn, Address
  <2>3. x = cur \/ y + yn <= p \/ p + pn <= y
    BY <1>1, <1>2, <2>1 DEF Clear
  <2>4. x = nx \/ y + yn <= q \/ q + qn <= y
    BY <1>1, <1>3, <2>1 DEF Clear
  <2>5. y + yn = a => x = cur
    BY <1>2, <1>5, <2>1, <2>2, <2>3 DEF InGap
  <2>6. a + n = y => x = nx
    BY <1>3, <1>4, <1>5, <1>6, <2>1, <2>2, <2>4 DEF InGap
  <2>7. QED BY <1>4, <2>1, <2>5, <2>6 DEF Touch
<1>8. QED BY <1>7

\* what slob_free does to the free blocks, when b is the owner o's
LEMMA PutSet ==
  ASSUME NEW F, NEW R, SharedOut(F, R), Spaced(F), NEW o \in R, NEW b \in Inside,
         \A u \in Heaped : HasUnit(o, u) <=> u \in K!Units(b),
         NEW cur, NEW nx, GapIn(F, cur, nx, b), Touch(b, nx) => cur # nx
  PROVE  /\ SharedOut(AfterPut(F, cur, nx, b), R \ {o}) /\ Spaced(AfterPut(F, cur, nx, b))
         /\ \E m \in AfterPut(F, cur, nx, b) : m.units >= b.units
<1>1. \A x, y \in F : x = y \/ Clear(x, y)
  BY FreeClear
<1>2. \A x \in F : Clear(x, b)
  BY OtherClear
<1>3. F \subseteq Piece
  <2>1. Arena \in Piece
    BY DEF Arena, K!Block, Piece
  <2>2. QED BY <2>1, InsideIs DEF Spaced
<1>4. /\ \A x \in F : Touch(x, b) => x = cur
      /\ \A x \in F : Touch(b, x) => x = nx
  BY <1>1, <1>2, <1>3, InsideIs, TouchesPlace
<1>5. cur \in F /\ nx \in F
  BY DEF GapIn
<1>6. b.at \in Nat /\ b.units \in Nat \ {0} /\ K!PageUnits <= b.at /\ K!PageUnits \in Nat /\ K!PageUnits >= 3
  BY HeapNumbers, InsideIs
<1>7. Touch(cur, b) => cur \in Inside
  <2>1. ~Touch(Arena, b)
    <3>1. Arena.at = 0 /\ Arena.units = 1
      BY DEF Arena, K!Block
    <3>2. QED BY <1>6, <3>1 DEF Touch
  <2>2. QED BY <1>5, <2>1 DEF Spaced
<1>8. Touch(b, nx) => nx \in Inside
  <2>1. ~Touch(b, Arena)
    <3>1. Arena.at = 0
      BY DEF Arena, K!Block
    <3>2. QED BY <1>6, <3>1 DEF Touch
  <2>2. QED BY <1>5, <2>1 DEF Spaced
<1>9. \A x, y \in F : ~Touch(x, y)
  BY DEF Spaced
<1>10. ASSUME NEW G, G \subseteq F, Arena \notin G, NEW m \in Inside, m.units >= b.units,
              AfterPut(F, cur, nx, b) = (F \ G) \cup {m},
              \A u \in Nat : u \in K!Units(m) <=> u \in K!Units(b) \/ \E g \in G : u \in K!Units(g),
              \A x \in F \ G : ~Touch(x, m) /\ ~Touch(m, x)
       PROVE  /\ SharedOut(AfterPut(F, cur, nx, b), R \ {o}) /\ Spaced(AfterPut(F, cur, nx, b))
              /\ \E w \in AfterPut(F, cur, nx, b) : w.units >= b.units
  <2>1. Heaped \subseteq Nat
    BY <1>6 DEF Heaped
  <2>2. \A u \in Heaped : u \in K!Units(m) <=> HasUnit(o, u) \/ \E g \in G : u \in K!Units(g)
    BY <1>10, <2>1
  <2>3. SharedOut((F \ G) \cup {m}, R \ {o})
    BY <1>10, <2>2, TakesUnits
  <2>4. Spaced((F \ G) \cup {m})
    BY <1>10, SpacedWith
  <2>5. QED BY <1>10, <2>3, <2>4
<1>11. CASE ~Touch(b, nx) /\ ~Touch(cur, b)
  <2>0. PICK G : G = {}
    OBVIOUS
  <2>1. AfterPut(F, cur, nx, b) = (F \ G) \cup {b}
    BY <1>11, <2>0 DEF AfterPut, JoinedTo
  <2>2. \A x \in F \ G : ~Touch(x, b) /\ ~Touch(b, x)
    BY <1>4, <1>11
  <2>3. b.units >= b.units
    BY <1>6
  <2>4. G \subseteq F /\ Arena \notin G
    BY <2>0
  <2>5. \A u \in Nat : u \in K!Units(b) <=> u \in K!Units(b) \/ \E g \in G : u \in K!Units(g)
    BY <2>0
  <2>6. QED BY <1>10, <2>1, <2>2, <2>3, <2>4, <2>5
<1>12. CASE Touch(b, nx) /\ ~Touch(cur, b)
  <2>1. PICK m, G : m = Merged(b, nx) /\ G = {nx}
    OBVIOUS
  <2>2. /\ m \in Inside /\ m.units >= b.units
        /\ \A u \in Nat : u \in K!Units(m) <=> u \in K!Units(b) \/ u \in K!Units(nx)
        /\ \A z : Touch(z, m) <=> Touch(z, b)
        /\ \A z : Touch(m, z) <=> Touch(nx, z)
    BY <1>8, <1>12, <2>1, MergedUnits
  <2>3. AfterPut(F, cur, nx, b) = (F \ G) \cup {m}
    BY <1>12, <2>1, <2>2 DEF AfterPut, JoinedTo
  <2>4. \A x \in F \ G : ~Touch(x, m) /\ ~Touch(m, x)
    BY <1>4, <1>5, <1>9, <1>12, <2>2
  <2>5. G \subseteq F /\ Arena \notin G
    BY <1>5, <1>8, <1>12, <2>1, InsideIs
  <2>6. \A u \in Nat : u \in K!Units(m) <=> u \in K!Units(b) \/ \E g \in G : u \in K!Units(g)
    BY <2>1, <2>2
  <2>7. QED BY <1>10, <2>2, <2>3, <2>4, <2>5, <2>6
<1>13. CASE ~Touch(b, nx) /\ Touch(cur, b)
  <2>1. PICK m, G : m = Merged(cur, b) /\ G = {cur}
    OBVIOUS
  <2>2. /\ m \in Inside /\ m.units >= b.units
        /\ \A u \in Nat : u \in K!Units(m) <=> u \in K!Units(cur) \/ u \in K!Units(b)
        /\ \A z : Touch(z, m) <=> Touch(z, cur)
        /\ \A z : Touch(m, z) <=> Touch(b, z)
    BY <1>7, <1>13, <2>1, MergedUnits
  <2>3. AfterPut(F, cur, nx, b) = (F \ G) \cup {m}
    BY <1>13, <2>1 DEF AfterPut, JoinedTo
  <2>4. \A x \in F \ G : ~Touch(x, m) /\ ~Touch(m, x)
    BY <1>4, <1>5, <1>9, <1>13, <2>2
  <2>5. G \subseteq F /\ Arena \notin G
    BY <1>5, <1>7, <1>13, <2>1, InsideIs
  <2>6. \A u \in Nat : u \in K!Units(m) <=> u \in K!Units(b) \/ \E g \in G : u \in K!Units(g)
    BY <2>1, <2>2
  <2>7. QED BY <1>10, <2>2, <2>3, <2>4, <2>5, <2>6
<1>14. CASE Touch(b, nx) /\ Touch(cur, b)
  <2>1. PICK w : w = Merged(b, nx)
    OBVIOUS
  <2>2. /\ w \in Inside /\ w.units >= b.units
        /\ \A u \in Nat : u \in K!Units(w) <=> u \in K!Units(b) \/ u \in K!Units(nx)
        /\ \A z : Touch(z, w) <=> Touch(z, b)
        /\ \A z : Touch(w, z) <=> Touch(nx, z)
    BY <1>8, <1>14, <2>1, MergedUnits
  <2>3. PICK m, G : m = Merged(cur, w) /\ G = {cur, nx}
    OBVIOUS
  <2>4. Touch(cur, w)
    BY <1>14, <2>2
  <2>5. /\ m \in Inside /\ m.units >= w.units
        /\ \A u \in Nat : u \in K!Units(m) <=> u \in K!Units(cur) \/ u \in K!Units(w)
        /\ \A z : Touch(z, m) <=> Touch(z, cur)
        /\ \A z : Touch(m, z) <=> Touch(w, z)
    BY <1>7, <1>14, <2>2, <2>3, <2>4, MergedUnits
  <2>6. AfterPut(F, cur, nx, b) = (F \ G) \cup {m}
    BY <1>14, <2>1, <2>3, <2>4 DEF AfterPut, JoinedTo
  <2>7. \A x \in F \ G : ~Touch(x, m) /\ ~Touch(m, x)
    BY <1>5, <1>9, <2>2, <2>5
  <2>8. G \subseteq F /\ Arena \notin G
    BY <1>5, <1>7, <1>8, <1>14, <2>3, InsideIs
  <2>9. \A u \in Nat : u \in K!Units(m) <=> u \in K!Units(b) \/ \E g \in G : u \in K!Units(g)
    BY <2>2, <2>3, <2>5
  <2>10. m.units >= b.units
    <3>1. m.units \in Nat /\ w.units \in Nat
      BY <2>2, <2>5, InsideIs
    <3>2. QED BY <1>6, <2>2, <2>5, <3>1
  <2>11. QED BY <1>10, <2>5, <2>6, <2>7, <2>8, <2>9, <2>10
<1>15. QED BY <1>11, <1>12, <1>13, <1>14

\* what slob_alloc does to the free blocks: the object is taken from the block c
LEMMA CutSet ==
  ASSUME NEW F, NEW R, SharedOut(F, R), Spaced(F), NEW c \in F, NEW n \in Nat, n >= 2, c.units >= n,
         NEW t, t = K!Block(c.at, n)
  PROVE  /\ t \in Inside /\ Spaced(AfterCut(F, c, n))
         /\ SharedOut(AfterCut(F, c, n), R \cup {<<"taken", t>>})
<1>1. c \in Inside
  <2>1. Arena.units = 1
    BY DEF Arena, K!Block
  <2>2. c # Arena
    BY <2>1
  <2>3. QED BY <2>2 DEF Spaced
<1>2. PICK a \in Nat, m \in Nat : a = c.at /\ m = c.units /\ m >= n
  BY <1>1, InsideIs
<1>3. t = [at |-> a, units |-> n]
  BY <1>2 DEF K!Block
<1>4. t \in Piece /\ t.at = a /\ t.units = n
  BY <1>3 DEF Piece
<1>5. PICK d \in Nat, top \in Nat : d = K!PageUnits /\ top = Top
  BY HeapNumbers
<1>6. d <= a /\ a + m <= top
  BY <1>1, <1>2, <1>5, InsideIs
<1>7. t \in Inside
  <2>1. a + n <= top
    BY <1>2, <1>5, <1>6
  <2>2. QED BY <1>4, <1>5, <1>6, <2>1 DEF Inside
<1>8. c \in Piece
  BY <1>1, InsideIs
<1>9. Heaped \subseteq Nat
  BY HeapNumbers DEF Heaped
<1>10. NoFree(R) /\ \A u \in Heaped : OneHas(FreeOwners(F) \cup R, u)
  BY DEF SharedOut
<1>11. \A x \in F : \A y \in F : ~Touch(x, y)
  BY DEF Spaced
<1>12. CASE c.units = n
  <2>1. t = c
    <3>1. c = [at |-> c.at, units |-> c.units]
      BY <1>8 DEF Piece
    <3>2. QED BY <1>2, <1>3, <1>12, <3>1
  <2>2. AfterCut(F, c, n) = F \ {c}
    BY <1>12 DEF AfterCut
  <2>3. Spaced(F \ {c})
    BY <1>1, InsideIs DEF Spaced
  <2>4. PICK O, out, in, Q :
          /\ O = FreeOwners(F) \cup R /\ out = {<<"free", c>>} /\ in = {<<"taken", t>>}
          /\ Q = FreeOwners(F \ {c}) \cup (R \cup {<<"taken", t>>})
    OBVIOUS
  <2>5. out \subseteq O /\ Q = (O \ out) \cup in
    <3>1. FreeOwners(F \ {c}) = FreeOwners(F) \ {<<"free", c>>}
      BY DEF FreeOwners
    <3>2. <<"free", c>> \notin R /\ <<"free", c>> \in FreeOwners(F)
      BY <1>10 DEF NoFree, FreeOwners
    <3>3. QED BY <2>4, <3>1, <3>2
  <2>6. ASSUME NEW u \in Heaped PROVE OneHas(Q, u)
    <3>1. (\E p \in out : HasUnit(p, u)) <=> (\E p \in in : HasUnit(p, u))
      BY <2>1, <2>4, HasIs
    <3>2. \A p, q \in in : p = q
      BY <2>4
    <3>3. OneHas(O, u)
      BY <1>10, <2>4
    <3>4. QED BY <2>5, <3>1, <3>2, <3>3, ExchangeOne
  <2>7. NoFree(R \cup {<<"taken", t>>})
    BY <1>10 DEF NoFree
  <2>8. QED BY <1>7, <2>2, <2>3, <2>4, <2>6, <2>7 DEF SharedOut
<1>13. CASE c.units # n
  <2>1. PICK w : w = RestOf(c, n)
    OBVIOUS
  <2>2. w \in Piece /\ w.at = a + n /\ w.units = m - n /\ n < m
    <3>1. n < m
      BY <1>2, <1>13
    <3>2. QED BY <1>2, <1>8, <2>1, <3>1, RestIs
  <2>3. w \in Inside
    <3>1. d <= a + n /\ (a + n) + (m - n) <= top
      BY <1>2, <1>5, <1>6
    <3>2. QED BY <1>5, <2>2, <3>1 DEF Inside
  <2>4. PICK G : G = {c}
    OBVIOUS
  <2>5. AfterCut(F, c, n) = (F \ G) \cup {w}
    BY <1>13, <2>1, <2>4 DEF AfterCut
  <2>6. \A x \in F \ G : ~Touch(x, w) /\ ~Touch(w, x)
    <3> SUFFICES ASSUME NEW x \in F, x # c PROVE ~Touch(x, w) /\ ~Touch(w, x)
      BY <2>4
    <3>1. Clear(x, c)
      BY FreeClear
    <3>2. x \in Piece
      <4>1. Arena \in Piece
        BY DEF Arena, K!Block, Piece
      <4>2. QED BY <4>1, InsideIs DEF Spaced
    <3>3. PICK y \in Nat, yn \in Nat : y = x.at /\ yn = x.units /\ yn > 0
      BY <3>2 DEF Piece
    <3>4. y + yn <= a \/ a + m <= y
      BY <1>2, <3>1, <3>3 DEF Clear
    <3>5. a + m # y
      BY <1>2, <1>11, <3>3 DEF Touch
    <3>6. y + yn # a + n /\ (a + n) + (m - n) # y
      BY <1>2, <2>2, <3>3, <3>4, <3>5
    <3>7. QED BY <2>2, <3>3, <3>6 DEF Touch
  <2>7. Spaced((F \ G) \cup {w})
    <3>1. G \subseteq F /\ Arena \notin G
      BY <1>1, <2>4, InsideIs
    <3>2. QED BY <2>3, <2>6, <3>1, SpacedWith
  <2>8. PICK O, out, in, Q :
          /\ O = FreeOwners(F) \cup R /\ out = {<<"free", c>>} /\ in = {<<"taken", t>>, <<"free", w>>}
          /\ Q = FreeOwners((F \ G) \cup {w}) \cup (R \cup {<<"taken", t>>})
    OBVIOUS
  <2>9. out \subseteq O /\ Q = (O \ out) \cup in
    <3>1. FreeOwners((F \ G) \cup {w}) = (FreeOwners(F) \ {<<"free", c>>}) \cup {<<"free", w>>}
      BY <2>4 DEF FreeOwners
    <3>2. <<"free", c>> \notin R /\ <<"free", c>> \in FreeOwners(F)
      BY <1>10 DEF NoFree, FreeOwners
    <3>3. QED BY <2>8, <3>1, <3>2
  <2>10. ASSUME NEW u \in Heaped PROVE OneHas(Q, u)
    <3>0. u \in Nat
      BY <1>9
    <3>1. u \in K!Units(c) <=> a <= u /\ u < a + m
      BY <1>2, <1>8, <3>0, UnitsIs
    <3>2. u \in K!Units(t) <=> a <= u /\ u < a + n
      BY <1>4, <3>0, UnitsIs
    <3>3. u \in K!Units(w) <=> a + n <= u /\ u < (a + n) + (m - n)
      BY <2>2, <3>0, UnitsIs
    <3>4. /\ u \in K!Units(c) <=> u \in K!Units(t) \/ u \in K!Units(w)
          /\ ~(u \in K!Units(t) /\ u \in K!Units(w))
      BY <2>2, <3>0, <3>1, <3>2, <3>3
    <3>5. (\E p \in out : HasUnit(p, u)) <=> (\E p \in in : HasUnit(p, u))
      BY <2>8, <3>4, HasIs
    <3>6. \A p, q \in in : HasUnit(p, u) /\ HasUnit(q, u) => p = q
      BY <2>8, <3>4, HasIs
    <3>7. OneHas(O, u)
      BY <1>10, <2>8
    <3>8. QED BY <2>9, <3>5, <3>6, <3>7, ExchangeOne
  <2>11. NoFree(R \cup {<<"taken", t>>})
    BY <1>10 DEF NoFree
  <2>12. QED BY <1>7, <2>5, <2>7, <2>8, <2>10, <2>11 DEF SharedOut
<1>14. QED BY <1>12, <1>13

\* a ring that with the owners R shares out the heap
HeapOk(l, R) == l \in Rings /\ Spaced(FreeOf(l)) /\ SharedOut(FreeOf(l), R)

\* slob_free gives the units of one owner to the free blocks.
LEMMA PutOk ==
  ASSUME NEW l, NEW R, HeapOk(l, R), NEW o \in R, NEW b \in Inside,
         \A u \in Heaped : HasUnit(o, u) <=> u \in K!Units(b)
  PROVE  HeapOk(K!Put(l, b), R \ {o}) /\ \E x \in FreeOf(K!Put(l, b)) : x.units >= b.units
<1>1. l \in Rings /\ Spaced(FreeOf(l)) /\ SharedOut(FreeOf(l), R)
  BY DEF HeapOk
<1>2. PICK F : F = FreeOf(l)
  OBVIOUS
<1>3. \A x \in F : Address(x) # Address(b)
  <2> SUFFICES ASSUME NEW x \in F PROVE Address(x) # Address(b)
    OBVIOUS
  <2>1. Clear(x, b)
    BY <1>1, <1>2, OtherClear
  <2>2. x \in Piece
    <3>1. Arena \in Piece
      BY DEF Arena, K!Block, Piece
    <3>2. QED BY <1>1, <1>2, <3>1, InsideIs DEF Spaced
  <2>3. PICK p \in Nat, n \in Nat : p = x.at /\ n = x.units /\ n > 0
    BY <2>2 DEF Piece
  <2>4. PICK q \in Nat, m \in Nat : q = b.at /\ m = b.units /\ m > 0
    BY InsideIs
  <2>5. p # q
    BY <2>1, <2>3, <2>4 DEF Clear
  <2>6. QED BY <2>3, <2>4, <2>5 DEF Address
<1>4. Arena \in F /\ Address(Arena) < Address(b)
  <2>1. Arena.at = 0
    BY DEF Arena, K!Block
  <2>2. b.at >= 3
    BY HeapNumbers, InsideIs
  <2>3. b.at \in Nat
    BY InsideIs
  <2>4. QED BY <1>1, <1>2, <2>1, <2>2, <2>3 DEF Spaced, Address
<1>5. b \in Piece
  BY InsideIs
<1>6. PICK cur, nx :
        /\ GapIn(F, cur, nx, b) /\ K!Put(l, b) \in Rings
        /\ FreeOf(K!Put(l, b)) = AfterPut(F, cur, nx, b)
        /\ Touch(b, nx) => cur # nx
  BY <1>1, <1>2, <1>3, <1>4, <1>5, PutRing
<1>7. /\ SharedOut(AfterPut(F, cur, nx, b), R \ {o}) /\ Spaced(AfterPut(F, cur, nx, b))
      /\ \E m \in AfterPut(F, cur, nx, b) : m.units >= b.units
  BY <1>1, <1>2, <1>6, PutSet
<1>8. QED BY <1>6, <1>7 DEF HeapOk

\* slob_alloc takes units of the free blocks for the object that it returns.
LEMMA CutOk ==
  ASSUME NEW l, NEW R, HeapOk(l, R), NEW n \in Nat, n >= 2, NEW x \in FreeOf(l), x.units >= n
  PROVE  /\ K!Object(l, n) \in Inside
         /\ HeapOk(K!Cut(l, n), R \cup {<<"taken", K!Object(l, n)>>})
<1>1. l \in Rings /\ Spaced(FreeOf(l)) /\ SharedOut(FreeOf(l), R)
  BY DEF HeapOk
<1>2. \A y, z \in FreeOf(l) : y = z \/ Clear(y, z)
  BY <1>1, FreeClear
<1>3. Arena \in FreeOf(l)
  BY <1>1 DEF Spaced
<1>4. PICK c \in FreeOf(l) :
        /\ c.units >= n /\ K!Object(l, n) = K!Block(c.at, n)
        /\ K!Cut(l, n) \in Rings /\ FreeOf(K!Cut(l, n)) = AfterCut(FreeOf(l), c, n)
  BY <1>1, <1>2, <1>3, CutRing
<1>5. PICK t : t = K!Object(l, n)
  OBVIOUS
<1>6. t = K!Block(c.at, n)
  BY <1>4, <1>5
<1>7. /\ t \in Inside /\ Spaced(AfterCut(FreeOf(l), c, n))
      /\ SharedOut(AfterCut(FreeOf(l), c, n), R \cup {<<"taken", t>>})
  BY <1>1, <1>4, <1>6, CutSet
<1>8. QED BY <1>4, <1>5, <1>7 DEF HeapOk

\* Owners may exchange what they have.
LEMMA ExchangeOk ==
  ASSUME NEW l, NEW R, HeapOk(l, R), NEW out, out \subseteq R, NEW in, NoFree(in),
         NEW Q, Q = (R \ out) \cup in,
         \A u \in Heaped : (\E o \in out : HasUnit(o, u)) <=> (\E o \in in : HasUnit(o, u)),
         \A u \in Heaped : \A o, q \in in : HasUnit(o, u) /\ HasUnit(q, u) => o = q
  PROVE  HeapOk(l, Q)
<1>1. SharedOut(FreeOf(l), R)
  BY DEF HeapOk
<1>2. SharedOut(FreeOf(l), Q)
  BY <1>1, ChangesHands
<1>3. QED BY <1>2 DEF HeapOk

\* the owners besides the free blocks
ObjectOwners(bl) == {<<"object", b>> : b \in bl}
LargeOwners(bg) == {<<"large", b>> : b \in bg}
PageOwners(pg) == {<<"page", p>> : p \in pg}
OwnersOf(pg, bl, bg) == ObjectOwners(bl) \cup LargeOwners(bg) \cup PageOwners(pg)

\* Owners of different kinds differ.
LEMMA OwnerKinds ==
  ASSUME NEW pg, NEW bl, NEW bg
  PROVE  /\ \A p \in ObjectOwners(bl) : p[1] = "object"
         /\ \A p \in LargeOwners(bg) : p[1] = "large"
         /\ \A p \in PageOwners(pg) : p[1] = "page"
         /\ \A p : <<"page", p>>[1] = "page" /\ <<"object", p>>[1] = "object" /\ <<"large", p>>[1] = "large"
BY DEF ObjectOwners, LargeOwners, PageOwners

\* Owners when pages are taken
LEMMA PagesLess ==
  ASSUME NEW pg, NEW bl, NEW bg, NEW S, NEW c, c = pg \ S
  PROVE  OwnersOf(c, bl, bg) = OwnersOf(pg, bl, bg) \ PageOwners(S)
<1>1. PageOwners(pg \ S) = PageOwners(pg) \ PageOwners(S)
  BY DEF PageOwners
<1>2. /\ \A p \in ObjectOwners(bl) : p \notin PageOwners(S)
      /\ \A p \in LargeOwners(bg) : p \notin PageOwners(S)
  BY OwnerKinds DEF PageOwners
<1>3. QED BY <1>1, <1>2 DEF OwnersOf

\* Owners when a large object is freed
LEMMA LargeLess ==
  ASSUME NEW pg, NEW bl, NEW bg, NEW b, NEW c, c = bg \ {b}, NEW o, o = <<"large", b>>
  PROVE  OwnersOf(pg, bl, c) = OwnersOf(pg, bl, bg) \ {o}
<1>1. LargeOwners(bg \ {b}) = LargeOwners(bg) \ {<<"large", b>>}
  BY DEF LargeOwners
<1>2. <<"large", b>> \notin ObjectOwners(bl) /\ <<"large", b>> \notin PageOwners(pg)
  BY OwnerKinds
<1>3. QED BY <1>1, <1>2 DEF OwnersOf

\* Owners when pages are given back
LEMMA PagesMore ==
  ASSUME NEW pg, NEW bl, NEW bg, NEW S, NEW c, c = pg \cup S
  PROVE  OwnersOf(c, bl, bg) = OwnersOf(pg, bl, bg) \cup PageOwners(S)
BY DEF OwnersOf, PageOwners

\* None of the owners between two calls is a free block or one that was just taken.
LEMMA NoneTaken ==
  ASSUME NEW pg, NEW bl, NEW bg
  PROVE  NoFree(OwnersOf(pg, bl, bg)) /\ NoFree(PageOwners(pg)) /\ \A p : <<"taken", p>> \notin OwnersOf(pg, bl, bg)
BY DEF OwnersOf, ObjectOwners, LargeOwners, PageOwners, NoFree

\* a large object has pages of the heap, and its node is not in them
LargeOk(big) ==
  /\ big.bb \in Inside /\ K!BigPages(big) \subseteq 1..HeapPages
  /\ \A u \in Heaped : ~(u \in K!Units(big.bb) /\ u \div K!PageUnits \in K!BigPages(big))
\* so do all
BigOk(bg) == \A big \in bg : LargeOk(big)

\* the ring, the pages, the objects and the large ones are a heap
HeapState(l, pg, bl, bg) ==
  /\ bl \subseteq Inside /\ pg \subseteq 1..HeapPages /\ BigOk(bg)
  /\ HeapOk(l, OwnersOf(pg, bl, bg))

\* the inductive invariant
HeapInv == HeapState(slob, k_pages, blocks, bigblocks)

------------------------------------------------------------------------------
(* The calls of kmalloc and kfree. *)

\* The block behind a place of the ring is a free block.
LEMMA BehindIn ==
  ASSUME NEW l \in Rings, NEW k \in 1..Len(l)
  PROVE  K!Behind(l, k) \in FreeOf(l)
<1>1. PICK r : r = K!From(l, k)
  OBVIOUS
<1>2. /\ r \in Rings /\ Len(r) = Len(l) /\ FreeOf(r) = FreeOf(l)
      /\ r[1] = l[k] /\ r[AfterIn(Len(r), 1)] = K!Behind(l, k)
  BY <1>1, FromRing
<1>3. PICK m \in Nat : m = Len(r) /\ m >= 1
  BY <1>2 DEF Rings
<1>4. AfterIn(m, 1) \in 1..m
  BY <1>3 DEF AfterIn
<1>5. r[AfterIn(m, 1)] \in FreeOf(r)
  BY <1>3, <1>4 DEF FreeOf
<1>6. QED BY <1>2, <1>3, <1>5

\* slob_alloc finds a block of so many units, or has a page put on the ring first.
LEMMA GrownOk ==
  ASSUME HeapInv, NEW units \in 2..K!PageUnits, NEW g \in K!Grown(units)
  PROVE  /\ HeapOk(g[1], OwnersOf(g[2], blocks, bigblocks)) /\ g[2] \subseteq 1..HeapPages
         /\ \E x \in FreeOf(g[1]) : x.units >= units
<1>1. HeapOk(slob, OwnersOf(k_pages, blocks, bigblocks)) /\ k_pages \subseteq 1..HeapPages
  BY DEF HeapInv, HeapState
<1>2. CASE K!Fits(slob, units)
  <2>1. g = <<slob, k_pages>>
    BY <1>2 DEF K!Grown
  <2>2. g[1] = slob /\ g[2] = k_pages
    BY <2>1
  <2>3. slob \in Rings
    BY <1>1 DEF HeapOk
  <2>4. DOMAIN slob = 1..Len(slob)
    BY <2>3 DEF Rings
  <2>5. PICK k \in 1..Len(slob) : K!Behind(slob, k).units >= units
    BY <1>2, <2>4 DEF K!Fits
  <2>6. K!Behind(slob, k) \in FreeOf(slob)
    BY <2>3, BehindIn
  <2>7. QED BY <1>1, <2>2, <2>5, <2>6
<1>3. CASE ~K!Fits(slob, units)
  <2>1. PICK p \in k_pages : g = <<K!Put(slob, K!Page(p)), k_pages \ {p}>>
    BY <1>3 DEF K!Grown
  <2>2. PICK R : R = OwnersOf(k_pages, blocks, bigblocks)
    OBVIOUS
  <2>3. PICK o : o = <<"page", p>>
    OBVIOUS
  <2>4. o \in R
    BY <2>2, <2>3 DEF OwnersOf, PageOwners
  <2>5. PICK b : b = K!Page(p)
    OBVIOUS
  <2>6. b \in Inside
    BY <1>1, <2>1, <2>5, PageHas
  <2>7. \A u \in Heaped : HasUnit(o, u) <=> u \in K!Units(b)
    BY <2>3, <2>5, HasIs
  <2>8. HeapOk(slob, R)
    BY <1>1, <2>2
  <2>9. HeapOk(K!Put(slob, b), R \ {o}) /\ \E x \in FreeOf(K!Put(slob, b)) : x.units >= b.units
    BY <2>4, <2>6, <2>7, <2>8, PutOk
  <2>10. R \ {o} = OwnersOf(k_pages \ {p}, blocks, bigblocks)
    <3>1. PICK pg, left, bl, bg, S :
            pg = k_pages /\ bl = blocks /\ bg = bigblocks /\ left = pg \ S /\ S = {p}
      OBVIOUS
    <3>2. OwnersOf(left, bl, bg) = OwnersOf(pg, bl, bg) \ PageOwners(S)
      BY <3>1, PagesLess
    <3>3. PageOwners(S) = {o}
      BY <2>3, <3>1 DEF PageOwners
    <3>4. QED BY <2>2, <3>1, <3>2, <3>3
  <2>11. g[1] = K!Put(slob, b) /\ g[2] = k_pages \ {p}
    BY <2>1, <2>5
  <2>12. PICK x \in FreeOf(g[1]) : x.units >= b.units
    BY <2>9, <2>11
  <2>13. b.units = K!PageUnits
    BY <2>5 DEF K!Page, K!Block
  <2>14. x.units >= units
    <3>1. x \in Piece
      <4>1. g[1] \in Rings
        BY <2>9, <2>11 DEF HeapOk
      <4>2. QED BY <4>1 DEF Rings, FreeOf
    <3>2. PICK n \in Nat, d \in Nat : n = x.units /\ d = K!PageUnits
      BY <3>1, HeapNumbers DEF Piece
    <3>3. QED BY <2>12, <2>13, <3>2
  <2>15. QED BY <1>1, <2>9, <2>10, <2>11, <2>14
<1>4. QED BY <1>2, <1>3

\* The object that is cut from the ring slob_alloc comes to
LEMMA TakenOk ==
  ASSUME HeapInv, NEW units \in 2..K!PageUnits, NEW g \in K!Grown(units), NEW t,
         t = K!Object(g[1], units)
  PROVE  /\ t \in Inside /\ g[2] \subseteq 1..HeapPages
         /\ HeapOk(K!Cut(g[1], units), OwnersOf(g[2], blocks, bigblocks) \cup {<<"taken", t>>})
<1>1. PICK l, R : l = g[1] /\ R = OwnersOf(g[2], blocks, bigblocks)
  OBVIOUS
<1>2. HeapOk(l, R) /\ g[2] \subseteq 1..HeapPages
  BY <1>1, GrownOk
<1>3. PICK x \in FreeOf(l) : x.units >= units
  BY <1>1, GrownOk
<1>4. units \in Nat /\ units >= 2
  BY HeapNumbers
<1>5. K!Object(l, units) \in Inside /\ HeapOk(K!Cut(l, units), R \cup {<<"taken", K!Object(l, units)>>})
  BY <1>2, <1>3, <1>4, CutOk
<1>6. QED BY <1>1, <1>2, <1>5

\* Pages have the units of pages.
LEMMA PagesHave ==
  ASSUME NEW S, S \subseteq 1..HeapPages, NEW u \in Heaped
  PROVE  /\ (\E o \in PageOwners(S) : HasUnit(o, u)) <=> u \div K!PageUnits \in S
         /\ \A o, q \in PageOwners(S) : HasUnit(o, u) /\ HasUnit(q, u) => o = q
<1>1. u \in Nat
  BY HeapNumbers DEF Heaped
<1>2. \A p \in S : HasUnit(<<"page", p>>, u) <=> u \div K!PageUnits = p
  BY <1>1, PageHas, HasIs
<1>3. QED BY <1>2 DEF PageOwners

\* A small object that is cut from the ring
LEMMA SmallOk ==
  ASSUME NEW l, NEW pg, NEW bl, NEW bg, bl \subseteq Inside, pg \subseteq 1..HeapPages, BigOk(bg),
         NEW t \in Inside, HeapOk(l, OwnersOf(pg, bl, bg) \cup {<<"taken", t>>})
  PROVE  HeapState(l, pg, bl \cup {t}, bg)
<1>1. PICK R0, o, q : R0 = OwnersOf(pg, bl, bg) /\ o = <<"taken", t>> /\ q = <<"object", t>>
  OBVIOUS
<1>2. PICK R, out, in, Q : R = R0 \cup {o} /\ out = {o} /\ in = {q} /\ Q = (R \ out) \cup in
  OBVIOUS
<1>3. HeapOk(l, R) /\ out \subseteq R
  BY <1>1, <1>2
<1>4. q[1] # "free"
  BY <1>1
<1>5. NoFree(in)
  BY <1>2, <1>4 DEF NoFree
<1>6. \A u \in Heaped : HasUnit(o, u) <=> HasUnit(q, u)
  BY <1>1, HasIs
<1>7. \A u \in Heaped : (\E x \in out : HasUnit(x, u)) <=> (\E x \in in : HasUnit(x, u))
  BY <1>2, <1>6
<1>8. \A u \in Heaped : \A x, y \in in : HasUnit(x, u) /\ HasUnit(y, u) => x = y
  BY <1>2
<1>9. HeapOk(l, Q)
  BY <1>2, <1>3, <1>5, <1>7, <1>8, ExchangeOk
<1>10. o \notin R0
  BY <1>1, NoneTaken
<1>11. Q = R0 \cup {q}
  BY <1>2, <1>10
<1>12. Q = OwnersOf(pg, bl \cup {t}, bg)
  <2>1. PICK c : c = bl \cup {t}
    OBVIOUS
  <2>2. OwnersOf(pg, c, bg) = OwnersOf(pg, bl, bg) \cup {q}
    BY <1>1, <2>1 DEF OwnersOf, ObjectOwners
  <2>3. QED BY <1>1, <1>11, <2>1, <2>2
<1>13. QED BY <1>9, <1>12 DEF HeapState

\* A large object, whose node is cut from the ring
LEMMA LargeIsOk ==
  ASSUME NEW l, NEW pg, NEW bl, NEW bg, bl \subseteq Inside, pg \subseteq 1..HeapPages, BigOk(bg),
         NEW t \in Inside, HeapOk(l, OwnersOf(pg, bl, bg) \cup {<<"taken", t>>}),
         NEW big, big.bb = t, NEW S, S = K!BigPages(big), S \subseteq pg
  PROVE  HeapState(l, pg \ S, bl, bg \cup {big})
<1>1. PICK R0, o, q : R0 = OwnersOf(pg, bl, bg) /\ o = <<"taken", t>> /\ q = <<"large", big>>
  OBVIOUS
<1>2. PICK R, G, out, in, Q :
        R = R0 \cup {o} /\ G = PageOwners(S) /\ out = {o} \cup G /\ in = {q} /\ Q = (R \ out) \cup in
  OBVIOUS
<1>3. G \subseteq R0
  BY <1>1, <1>2 DEF OwnersOf, PageOwners
<1>4. HeapOk(l, R) /\ out \subseteq R
  BY <1>1, <1>2, <1>3
<1>5. NoFree(in)
  <2>1. q[1] # "free"
    BY <1>1
  <2>2. QED BY <1>2, <2>1 DEF NoFree
<1>6. \A u \in Heaped : HasUnit(o, u) <=> u \in K!Units(t)
  BY <1>1, HasIs
<1>7. \A u \in Heaped : HasUnit(q, u) <=> u \in K!Units(t) \/ u \div K!PageUnits \in S
  BY <1>1, HasIs
<1>8. S \subseteq 1..HeapPages
  OBVIOUS
<1>9. \A u \in Heaped : (\E x \in G : HasUnit(x, u)) <=> u \div K!PageUnits \in S
  BY <1>2, <1>8, PagesHave
<1>10. \A u \in Heaped : (\E x \in out : HasUnit(x, u)) <=> (\E x \in in : HasUnit(x, u))
  <2>1. \A u \in Heaped : (\E x \in out : HasUnit(x, u)) <=> HasUnit(o, u) \/ \E x \in G : HasUnit(x, u)
    BY <1>2
  <2>2. \A u \in Heaped : (\E x \in in : HasUnit(x, u)) <=> HasUnit(q, u)
    BY <1>2
  <2>3. QED BY <1>6, <1>7, <1>9, <2>1, <2>2
<1>11. \A u \in Heaped : \A x, y \in in : HasUnit(x, u) /\ HasUnit(y, u) => x = y
  BY <1>2
<1>12. HeapOk(l, Q)
  <2>1. Q = (R \ out) \cup in
    BY <1>2
  <2>2. QED BY <1>4, <1>5, <1>10, <1>11, <2>1, ExchangeOk
<1>13. o \notin R0
  BY <1>1, NoneTaken
<1>14. Q = (R0 \ G) \cup {q}
  BY <1>2, <1>13
<1>15. Q = OwnersOf(pg \ S, bl, bg \cup {big})
  <2>1. PICK ps, c : ps = pg \ S /\ c = bg \cup {big}
    OBVIOUS
  <2>2. OwnersOf(ps, bl, bg) = R0 \ G
    BY <1>1, <1>2, <2>1, PagesLess
  <2>3. OwnersOf(ps, bl, c) = OwnersOf(ps, bl, bg) \cup {q}
    BY <1>1, <2>1 DEF OwnersOf, LargeOwners
  <2>4. QED BY <1>14, <2>1, <2>2, <2>3
<1>16. LargeOk(big)
  <2>1. ASSUME NEW u \in Heaped, u \in K!Units(t), u \div K!PageUnits \in S PROVE FALSE
    <3>1. PICK x \in G : HasUnit(x, u)
      BY <1>9, <2>1
    <3>2. HasUnit(o, u)
      BY <1>6, <2>1
    <3>3. x # o
      BY <1>3, <1>13, <3>1
    <3>4. x \in R /\ o \in R
      BY <1>2, <1>3, <3>1
    <3>5. OneHas(FreeOwners(FreeOf(l)) \cup R, u)
      BY <1>4, <2>1 DEF HeapOk, SharedOut
    <3>6. QED BY <3>1, <3>2, <3>3, <3>4, <3>5 DEF OneHas
  <2>2. QED BY <1>8, <2>1 DEF LargeOk
<1>17. BigOk(bg \cup {big})
  BY <1>16 DEF BigOk
<1>18. pg \ S \subseteq 1..HeapPages
  OBVIOUS
<1>19. QED BY <1>12, <1>15, <1>17, <1>18 DEF HeapState

\* A node that is given back
LEMMA BackOk ==
  ASSUME NEW l, NEW pg, NEW bl, NEW bg, bl \subseteq Inside, pg \subseteq 1..HeapPages, BigOk(bg),
         NEW t \in Inside, HeapOk(l, OwnersOf(pg, bl, bg) \cup {<<"taken", t>>})
  PROVE  HeapState(K!Put(l, t), pg, bl, bg)
<1>1. PICK R0, o : R0 = OwnersOf(pg, bl, bg) /\ o = <<"taken", t>>
  OBVIOUS
<1>2. PICK R : R = R0 \cup {o}
  OBVIOUS
<1>3. HeapOk(l, R) /\ o \in R
  BY <1>1, <1>2
<1>4. \A u \in Heaped : HasUnit(o, u) <=> u \in K!Units(t)
  BY <1>1, HasIs
<1>5. HeapOk(K!Put(l, t), R \ {o})
  BY <1>3, <1>4, PutOk
<1>6. o \notin R0
  BY <1>1, NoneTaken
<1>7. R \ {o} = R0
  BY <1>2, <1>6
<1>8. QED BY <1>1, <1>5, <1>7 DEF HeapState

\* An object that is given back
LEMMA SmallBackOk ==
  ASSUME NEW l, NEW pg, NEW bl, NEW bg, HeapState(l, pg, bl, bg), NEW b \in bl
  PROVE  HeapState(K!Put(l, b), pg, bl \ {b}, bg)
<1>1. PICK R, o : R = OwnersOf(pg, bl, bg) /\ o = <<"object", b>>
  OBVIOUS
<1>2. HeapOk(l, R) /\ b \in Inside
  BY <1>1 DEF HeapState
<1>3. o \in R
  BY <1>1 DEF OwnersOf, ObjectOwners
<1>4. \A u \in Heaped : HasUnit(o, u) <=> u \in K!Units(b)
  BY <1>1, HasIs
<1>5. HeapOk(K!Put(l, b), R \ {o})
  BY <1>2, <1>3, <1>4, PutOk
<1>6. R \ {o} = OwnersOf(pg, bl \ {b}, bg)
  <2>1. PICK c : c = bl \ {b}
    OBVIOUS
  <2>2. ObjectOwners(c) = ObjectOwners(bl) \ {o}
    BY <1>1, <2>1 DEF ObjectOwners
  <2>3. o \notin LargeOwners(bg) /\ o \notin PageOwners(pg)
    BY <1>1, OwnerKinds
  <2>4. QED BY <1>1, <2>1, <2>2, <2>3 DEF OwnersOf
<1>7. bl \subseteq Inside /\ pg \subseteq 1..HeapPages /\ BigOk(bg)
  BY DEF HeapState
<1>8. QED BY <1>5, <1>6, <1>7 DEF HeapState

\* A large object that is given back, its pages and its node
LEMMA LargeBackOk ==
  ASSUME NEW l, NEW pg, NEW bl, NEW bg, HeapState(l, pg, bl, bg), NEW big \in bg,
         NEW S, S = K!BigPages(big), NEW t, t = big.bb
  PROVE  HeapState(K!Put(l, t), pg \cup S, bl, bg \ {big})
<1>0. bl \subseteq Inside /\ pg \subseteq 1..HeapPages /\ BigOk(bg) /\ HeapOk(l, OwnersOf(pg, bl, bg))
  BY DEF HeapState
<1>1. LargeOk(big)
  BY <1>0 DEF BigOk
<1>2. t \in Inside /\ S \subseteq 1..HeapPages
      /\ \A u \in Heaped : ~(u \in K!Units(t) /\ u \div K!PageUnits \in S)
  BY <1>1 DEF LargeOk
<1>3. PICK R, o, q, G : R = OwnersOf(pg, bl, bg) /\ o = <<"large", big>> /\ q = <<"taken", t>>
                        /\ G = PageOwners(S)
  OBVIOUS
<1>4. PICK out, in, Q : out = {o} /\ in = {q} \cup G /\ Q = (R \ out) \cup in
  OBVIOUS
<1>5. HeapOk(l, R) /\ out \subseteq R
  BY <1>0, <1>3, <1>4 DEF OwnersOf, LargeOwners
<1>6. NoFree(in)
  <2>1. q[1] # "free"
    BY <1>3
  <2>2. NoFree(G)
    BY <1>3, NoneTaken
  <2>3. QED BY <1>4, <2>1, <2>2 DEF NoFree
<1>7. \A u \in Heaped : HasUnit(q, u) <=> u \in K!Units(t)
  BY <1>3, HasIs
<1>8. \A u \in Heaped : HasUnit(o, u) <=> u \in K!Units(t) \/ u \div K!PageUnits \in S
  BY <1>3, HasIs
<1>9. \A u \in Heaped : /\ (\E x \in G : HasUnit(x, u)) <=> u \div K!PageUnits \in S
                        /\ \A x, y \in G : HasUnit(x, u) /\ HasUnit(y, u) => x = y
  BY <1>2, <1>3, PagesHave
<1>10. \A u \in Heaped : (\E x \in out : HasUnit(x, u)) <=> (\E x \in in : HasUnit(x, u))
  <2>1. \A u \in Heaped : (\E x \in in : HasUnit(x, u)) <=> HasUnit(q, u) \/ \E x \in G : HasUnit(x, u)
    BY <1>4
  <2>2. \A u \in Heaped : (\E x \in out : HasUnit(x, u)) <=> HasUnit(o, u)
    BY <1>4
  <2>3. QED BY <1>7, <1>8, <1>9, <2>1, <2>2
<1>11. \A u \in Heaped : \A x, y \in in : HasUnit(x, u) /\ HasUnit(y, u) => x = y
  <2>1. \A u \in Heaped : HasUnit(q, u) => \A x \in G : ~HasUnit(x, u)
    BY <1>2, <1>7, <1>9
  <2>2. QED BY <1>4, <1>9, <2>1
<1>12. HeapOk(l, Q)
  <2>1. Q = (R \ out) \cup in
    BY <1>4
  <2>2. QED BY <1>5, <1>6, <1>10, <1>11, <2>1, ExchangeOk
<1>13. PICK bg2 : bg2 = bg \ {big}
  OBVIOUS
<1>14. R \ {o} = OwnersOf(pg, bl, bg2)
  BY <1>3, <1>13, LargeLess
<1>15. PICK ps : ps = pg \cup S
  OBVIOUS
<1>16. OwnersOf(ps, bl, bg2) = OwnersOf(pg, bl, bg2) \cup G
  BY <1>3, <1>15, PagesMore
<1>17. Q = OwnersOf(ps, bl, bg2) \cup {q}
  BY <1>4, <1>14, <1>16
<1>18. BigOk(bg2)
  BY <1>0, <1>13 DEF BigOk
<1>19. ps \subseteq 1..HeapPages
  BY <1>0, <1>2, <1>15
<1>20. HeapOk(l, OwnersOf(ps, bl, bg2) \cup {<<"taken", t>>})
  BY <1>3, <1>12, <1>17
<1>21. HeapState(K!Put(l, t), ps, bl, bg2)
  BY <1>0, <1>2, <1>18, <1>19, <1>20, BackOk
<1>22. QED BY <1>13, <1>15, <1>21

\* What a call of kmalloc starts from
LEMMA Starts ==
  ASSUME HeapInv, NEW size \in Size, K!IsSmall(size) => K!Asserted(size),
         NEW g \in K!Grown(K!UnitsFor(size)), NEW t, t = K!Object(g[1], K!UnitsFor(size))
  PROVE  /\ t \in Inside /\ g[2] \subseteq 1..HeapPages
         /\ HeapOk(K!Cut(g[1], K!UnitsFor(size)),
                   OwnersOf(g[2], blocks, bigblocks) \cup {<<"taken", t>>})
         /\ blocks \subseteq Inside /\ BigOk(bigblocks)
<1>1. PICK n \in 2..K!PageUnits : n = K!UnitsFor(size)
  BY UnitsForSize
<1>2. g \in K!Grown(n) /\ t = K!Object(g[1], n)
  BY <1>1
<1>3. /\ t \in Inside /\ g[2] \subseteq 1..HeapPages
      /\ HeapOk(K!Cut(g[1], n), OwnersOf(g[2], blocks, bigblocks) \cup {<<"taken", t>>})
  BY <1>2, TakenOk
<1>4. blocks \subseteq Inside /\ BigOk(bigblocks)
  BY DEF HeapInv, HeapState
<1>5. QED BY <1>1, <1>3, <1>4

\* kmalloc of a small object
LEMMA SmallStep ==
  ASSUME HeapInv, NEW size \in Size, K!KmallocSmall(size)
  PROVE  HeapInv'
<1>1. K!IsSmall(size) /\ K!Asserted(size) /\ bigblocks' = bigblocks
  BY DEF K!KmallocSmall
<1>2. PICK g \in K!Grown(K!UnitsFor(size)) :
        /\ slob' = K!Cut(g[1], K!UnitsFor(size)) /\ k_pages' = g[2]
        /\ blocks' = blocks \cup {K!Object(g[1], K!UnitsFor(size))}
  BY DEF K!KmallocSmall
<1>3. PICK t : t = K!Object(g[1], K!UnitsFor(size))
  OBVIOUS
<1>4. PICK l, pg, bl, bg : l = slob' /\ pg = k_pages' /\ bl = blocks /\ bg = bigblocks
  OBVIOUS
<1>5. /\ t \in Inside /\ g[2] \subseteq 1..HeapPages
      /\ HeapOk(K!Cut(g[1], K!UnitsFor(size)),
                OwnersOf(g[2], blocks, bigblocks) \cup {<<"taken", t>>})
      /\ blocks \subseteq Inside /\ BigOk(bigblocks)
  BY <1>1, <1>3, Starts
<1>6. /\ t \in Inside /\ pg \subseteq 1..HeapPages
      /\ HeapOk(l, OwnersOf(pg, bl, bg) \cup {<<"taken", t>>})
      /\ bl \subseteq Inside /\ BigOk(bg)
  BY <1>2, <1>4, <1>5
<1>7. HeapState(l, pg, bl \cup {t}, bg)
  BY <1>6, SmallOk
<1>8. QED BY <1>1, <1>2, <1>3, <1>4, <1>7 DEF HeapInv

\* kmalloc of a large object
LEMMA BigStep ==
  ASSUME HeapInv, NEW size \in Size, K!KmallocBig(size)
  PROVE  HeapInv'
<1>1. ~K!IsSmall(size) /\ blocks' = blocks
  BY DEF K!KmallocBig
<1>0. PICK g \in K!Grown(K!UnitsFor(size)) : \E p \in K!Runs(g[2], K!Order(size)) :
        /\ slob' = K!Cut(g[1], K!UnitsFor(size))
        /\ k_pages' = g[2] \ (p..(p + 2 ^ K!Order(size) - 1))
        /\ bigblocks' = bigblocks \cup {[bb |-> K!Object(g[1], K!UnitsFor(size)),
                                         order |-> K!Order(size), page |-> p]}
  BY Zenon DEF K!KmallocBig
<1>2. PICK p \in K!Runs(g[2], K!Order(size)) :
        /\ slob' = K!Cut(g[1], K!UnitsFor(size))
        /\ k_pages' = g[2] \ (p..(p + 2 ^ K!Order(size) - 1))
        /\ bigblocks' = bigblocks \cup {[bb |-> K!Object(g[1], K!UnitsFor(size)),
                                         order |-> K!Order(size), page |-> p]}
  BY <1>0
<1>3. PICK t, e : t = K!Object(g[1], K!UnitsFor(size)) /\ e = K!Order(size)
  OBVIOUS
<1>4. PICK big : big = [bb |-> t, order |-> e, page |-> p]
  OBVIOUS
<1>5. PICK l, pg, bl, bg : l = slob' /\ pg = g[2] /\ bl = blocks /\ bg = bigblocks
  OBVIOUS
<1>6. PICK S : S = p..(p + 2 ^ e - 1)
  OBVIOUS
<1>7. big.bb = t /\ S = K!BigPages(big)
  BY <1>4, <1>6 DEF K!BigPages
<1>8. S \subseteq pg
  BY <1>2, <1>3, <1>5, <1>6 DEF K!Runs
<1>9. /\ t \in Inside /\ g[2] \subseteq 1..HeapPages
      /\ HeapOk(K!Cut(g[1], K!UnitsFor(size)),
                OwnersOf(g[2], blocks, bigblocks) \cup {<<"taken", t>>})
      /\ blocks \subseteq Inside /\ BigOk(bigblocks)
  BY <1>1, <1>3, Starts
<1>10. /\ t \in Inside /\ pg \subseteq 1..HeapPages
       /\ HeapOk(l, OwnersOf(pg, bl, bg) \cup {<<"taken", t>>})
       /\ bl \subseteq Inside /\ BigOk(bg)
  BY <1>2, <1>5, <1>9
<1>11. HeapState(l, pg \ S, bl, bg \cup {big})
  BY <1>7, <1>8, <1>10, LargeIsOk
<1>12. k_pages' = pg \ S
  BY <1>2, <1>3, <1>5, <1>6
<1>13. bigblocks' = bg \cup {big}
  BY <1>2, <1>3, <1>4, <1>5
<1>14. QED BY <1>1, <1>5, <1>11, <1>12, <1>13 DEF HeapInv

\* kmalloc of a large object whose pages are not there
LEMMA FailsStep ==
  ASSUME HeapInv, NEW size \in Size, K!KmallocFails(size)
  PROVE  HeapInv'
<1>1. ~K!IsSmall(size) /\ blocks' = blocks /\ bigblocks' = bigblocks
  BY DEF K!KmallocFails
<1>2. PICK g \in K!Grown(K!UnitsFor(size)) :
        /\ slob' = K!Put(K!Cut(g[1], K!UnitsFor(size)), K!Object(g[1], K!UnitsFor(size)))
        /\ k_pages' = g[2]
  BY DEF K!KmallocFails
<1>3. PICK t, l, pg, bl, bg :
        /\ t = K!Object(g[1], K!UnitsFor(size)) /\ l = K!Cut(g[1], K!UnitsFor(size))
        /\ pg = k_pages' /\ bl = blocks /\ bg = bigblocks
  OBVIOUS
<1>4. /\ t \in Inside /\ g[2] \subseteq 1..HeapPages
      /\ HeapOk(K!Cut(g[1], K!UnitsFor(size)),
                OwnersOf(g[2], blocks, bigblocks) \cup {<<"taken", t>>})
      /\ blocks \subseteq Inside /\ BigOk(bigblocks)
  BY <1>1, <1>3, Starts
<1>5. /\ t \in Inside /\ pg \subseteq 1..HeapPages
      /\ HeapOk(l, OwnersOf(pg, bl, bg) \cup {<<"taken", t>>})
      /\ bl \subseteq Inside /\ BigOk(bg)
  BY <1>2, <1>3, <1>4
<1>6. HeapState(K!Put(l, t), pg, bl, bg)
  BY <1>5, BackOk
<1>7. QED BY <1>1, <1>2, <1>3, <1>6 DEF HeapInv

\* kfree
LEMMA FreeStep ==
  ASSUME HeapInv, (\E b \in blocks : K!KfreeSmall(b)) \/ (\E big \in bigblocks : K!KfreeBig(big))
  PROVE  HeapInv'
<1>1. PICK l, pg, bl, bg : l = slob /\ pg = k_pages /\ bl = blocks /\ bg = bigblocks
  OBVIOUS
<1>2. HeapState(l, pg, bl, bg)
  BY <1>1 DEF HeapInv
<1>3. CASE \E b \in blocks : K!KfreeSmall(b)
  <2>1. PICK b \in bl : K!KfreeSmall(b)
    BY <1>1, <1>3
  <2>2. HeapState(K!Put(l, b), pg, bl \ {b}, bg)
    BY <1>2, SmallBackOk
  <2>3. slob' = K!Put(l, b) /\ blocks' = bl \ {b} /\ k_pages' = pg /\ bigblocks' = bg
    BY <1>1, <2>1 DEF K!KfreeSmall
  <2>4. QED BY <2>2, <2>3 DEF HeapInv
<1>4. CASE \E big \in bigblocks : K!KfreeBig(big)
  <2>1. PICK big \in bg : K!KfreeBig(big)
    BY <1>1, <1>4
  <2>2. PICK S, t : S = K!BigPages(big) /\ t = big.bb
    OBVIOUS
  <2>3. HeapState(K!Put(l, t), pg \cup S, bl, bg \ {big})
    BY <1>2, <2>2, LargeBackOk
  <2>4. slob' = K!Put(l, t) /\ blocks' = bl /\ k_pages' = pg \cup S /\ bigblocks' = bg \ {big}
    BY <1>1, <2>1, <2>2, Zenon DEF K!KfreeBig, K!BigPages
  <2>5. QED BY <2>3, <2>4 DEF HeapInv
<1>5. QED BY <1>3, <1>4

\* A step of any part
LEMMA HeapStep ==
  ASSUME HeapInv, [PartsNext]_partsVars
  PROVE  HeapInv'
<1>1. CASE UNCHANGED heap
  <2>1. slob' = slob /\ k_pages' = k_pages /\ blocks' = blocks /\ bigblocks' = bigblocks
    BY <1>1 DEF heap
  <2>2. QED BY <2>1 DEF HeapInv
<1>2. CASE K!Next
  <2>1. CASE \E size \in Size : K!KmallocSmall(size)
    BY <2>1, SmallStep
  <2>2. CASE \E size \in Size : K!KmallocBig(size)
    BY <2>2, BigStep
  <2>3. CASE \E size \in Size : K!KmallocFails(size)
    BY <2>3, FailsStep
  <2>4. CASE \E size \in Size : K!Halts(size)
    <3>1. slob' = slob /\ k_pages' = k_pages /\ blocks' = blocks /\ bigblocks' = bigblocks
      BY <2>4, Zenon DEF K!Halts
    <3>2. QED BY <3>1 DEF HeapInv
  <2>5. CASE (\E b \in blocks : K!KfreeSmall(b)) \/ (\E big \in bigblocks : K!KfreeBig(big))
    BY <2>5, FreeStep
  <2>6. QED BY <1>2, <2>1, <2>2, <2>3, <2>4, <2>5, Zenon DEF K!Next
<1>3. PartsNext => K!Next \/ UNCHANGED heap
  BY Zenon DEF PartsNext, Numbers
<1>4. UNCHANGED partsVars => UNCHANGED heap
  BY Zenon DEF partsVars
<1>5. QED BY <1>1, <1>2, <1>3, <1>4

------------------------------------------------------------------------------
(* The invariant and the theorems. *)

\* A ring of numbers closes in one place, behind the greatest one.
LEMMA ClosesOnce ==
  ASSUME NEW n \in Nat, n >= 1, NEW a \in [1..n -> Nat], Cyclic(n, a)
  PROVE  \E k \in 1..n : /\ a[k] >= a[AfterIn(n, k)]
                         /\ \A j \in 1..n : a[j] >= a[AfterIn(n, j)] => j = k
<1> DEFINE S == {a[i] : i \in 1..n}
<1>1. S \subseteq Nat /\ a[1] \in S
  OBVIOUS
<1>2. Min(S) \in S /\ \A x \in S : Min(S) <= x
  BY <1>1, MinIn
<1>3. PICK i \in 1..n : \A j \in 1..n : a[i] <= a[j]
  BY <1>2
<1>4. PICK k \in 1..n : AfterIn(n, k) = i
  <2>1. CASE i = 1
    BY <2>1 DEF AfterIn
  <2>2. CASE i # 1
    <3>1. i - 1 \in 1..n /\ i - 1 # n /\ i - 1 + 1 = i
      BY <2>2
    <3>2. QED BY <3>1 DEF AfterIn
  <2>3. QED BY <2>1, <2>2
<1>5. \A j \in 1..n : a[j] \in Nat
  OBVIOUS
<1>6. a[k] >= a[AfterIn(n, k)]
  BY <1>3, <1>4, <1>5
<1>7. ASSUME NEW j \in 1..n, a[j] >= a[AfterIn(n, j)] PROVE j = k
  <2>1. \A m \in 1..n : AfterIn(n, m) \in 1..n
    BY DEF AfterIn
  <2>2. NoneBetween(n, a, a[j], a[AfterIn(n, j)]) /\ NoneBetween(n, a, a[k], a[AfterIn(n, k)])
    BY DEF Cyclic
  <2>3. \A m \in 1..n : a[m] <= a[j]
    <3>1. ~(a[j] < a[AfterIn(n, j)])
      <4>1. PICK x \in Nat, y \in Nat : x = a[j] /\ y = a[AfterIn(n, j)]
        BY <1>5, <2>1
      <4>2. x >= y
        BY <4>1, <1>7
      <4>3. QED BY <4>1, <4>2
    <3>2. QED BY <2>2, <3>1 DEF NoneBetween
  <2>4. \A m \in 1..n : a[m] <= a[k]
    <3>1. ~(a[k] < a[AfterIn(n, k)])
      <4>1. PICK x \in Nat, y \in Nat : x = a[k] /\ y = a[AfterIn(n, k)]
        BY <1>5, <2>1
      <4>2. x >= y
        BY <4>1, <1>6
      <4>3. QED BY <4>1, <4>2
    <3>2. QED BY <2>2, <3>1 DEF NoneBetween
  <2>5. a[j] = a[k]
    BY <1>5, <2>3, <2>4
  <2>6. QED BY <2>5 DEF Cyclic
<1>8. QED BY <1>6, <1>7

\* At first the pages have everything.
LEMMA HeapInit ==
  ASSUME K!Init
  PROVE  HeapInv
<1>1. slob = <<Arena>> /\ k_pages = 1..HeapPages /\ blocks = {} /\ bigblocks = {}
  BY DEF K!Init, Arena
<1>2. Arena \in Piece /\ Arena.at = 0 /\ Arena.units = 1
  BY DEF Arena, K!Block, Piece
<1>3. slob \in Seq(Piece) /\ Len(slob) = 1 /\ slob[1] = Arena
  BY <1>1, <1>2
<1>4. slob \in Rings
  <2>1. /\ AtsOf(slob) \in [1..1 -> Nat] /\ AtsOf(slob)[1] = 0
    BY <1>2, <1>3, AtsAre DEF Address
  <2>2. PICK a : a = AtsOf(slob)
    OBVIOUS
  <2>3. \A j \in 1..1 : a[j] = 0 /\ AfterIn(1, j) = 1 /\ j = 1
    BY <2>1, <2>2 DEF AfterIn
  <2>4. 1 \in 1..1
    OBVIOUS
  <2>5. Cyclic(1, a)
    <3>1. \A j \in 1..1 : NoneBetween(1, a, a[j], a[AfterIn(1, j)])
      <4> SUFFICES ASSUME NEW j \in 1..1 PROVE NoneBetween(1, a, a[j], a[AfterIn(1, j)])
        OBVIOUS
      <4>1. a[j] = 0 /\ a[AfterIn(1, j)] = 0
        BY <2>3, <2>4
      <4>2. NoneBetween(1, a, 0, 0)
        BY <2>3 DEF NoneBetween
      <4>3. QED BY <4>1, <4>2
    <3>2. QED BY <2>3, <3>1 DEF Cyclic
  <2>6. Len(slob) >= 1 /\ Cyclic(Len(slob), AtsOf(slob))
    <3>1. Cyclic(Len(slob), AtsOf(slob))
      BY <1>3, <2>2, <2>5, Zenon
    <3>2. QED BY <1>3, <3>1
  <2>7. QED BY <1>3, <2>6 DEF Rings
<1>5. FreeOf(slob) = {Arena}
  BY <1>3 DEF FreeOf
<1>6. Spaced({Arena})
  BY <1>2 DEF Spaced, Touch
<1>7. PICK S, R, O : S = 1..HeapPages /\ R = PageOwners(S) /\ O = FreeOwners({Arena}) \cup R
  OBVIOUS
<1>8. OwnersOf(k_pages, blocks, bigblocks) = R
  BY <1>1, <1>7 DEF OwnersOf, ObjectOwners, LargeOwners
<1>9. ASSUME NEW u \in Heaped PROVE OneHas(O, u)
  <2>1. PICK d \in Nat, h \in Nat, t \in Nat :
          d = K!PageUnits /\ h = HeapPages /\ d >= 3 /\ t = Top /\ t = (h + 1) * d
    BY HeapNumbers DEF Top
  <2>2. u \in Nat /\ d <= u /\ u < t
    BY <2>1 DEF Heaped
  <2>3. PICK q \in Int : q = u \div d
    BY <2>1, <2>2
  <2>4. d * q <= u /\ u < d * (q + 1)
    BY <2>1, <2>2, <2>3
  <2>5. q >= 1
    <3> SUFFICES ASSUME q + 1 <= 1 PROVE FALSE
      BY <2>3
    <3>1. d * (q + 1) <= d * 1
      BY <2>1, <2>3
    <3>2. QED BY <2>1, <2>2, <2>4, <3>1
  <2>6. q <= h
    <3> SUFFICES ASSUME h + 1 <= q PROVE FALSE
      BY <2>1, <2>3
    <3>1. d * (h + 1) <= d * q
      BY <2>1, <2>3
    <3>2. d * (h + 1) = (h + 1) * d
      BY <2>1
    <3>3. QED BY <2>1, <2>2, <2>4, <3>1, <3>2
  <2>7. u \div K!PageUnits \in S
    BY <1>7, <2>1, <2>3, <2>5, <2>6
  <2>8. S \subseteq 1..HeapPages
    BY <1>7
  <2>9. /\ (\E o \in R : HasUnit(o, u)) <=> u \div K!PageUnits \in S
        /\ \A o, p \in R : HasUnit(o, u) /\ HasUnit(p, u) => o = p
    BY <1>7, <2>8, PagesHave
  <2>10. ~HasUnit(<<"free", Arena>>, u)
    <3>1. ~(u < 0 + 1)
      BY <2>1, <2>2
    <3>2. u \notin K!Units(Arena)
      BY <1>2, <2>2, <3>1, UnitsIs
    <3>3. QED BY <3>2, HasIs
  <2>11. \A o \in O : HasUnit(o, u) => o \in R
    BY <1>7, <2>10 DEF FreeOwners
  <2>12. PICK o \in R : HasUnit(o, u)
    BY <2>7, <2>9
  <2>13. o \in O /\ \A p \in O : HasUnit(p, u) => p = o
    BY <1>7, <2>9, <2>11, <2>12
  <2>14. QED BY <2>12, <2>13 DEF OneHas
<1>10. SharedOut({Arena}, R)
  <2>1. NoFree(R)
    BY <1>7, NoneTaken
  <2>2. QED BY <1>7, <1>9, <2>1 DEF SharedOut
<1>11. HeapOk(slob, OwnersOf(k_pages, blocks, bigblocks))
  BY <1>4, <1>5, <1>6, <1>8, <1>10 DEF HeapOk
<1>12. QED BY <1>1, <1>11 DEF HeapInv, HeapState, BigOk

\* The heap is shared out after every call of any part.
LEMMA HeapInvHolds == PartsSpec => []HeapInv
<1>1. PartsInit => HeapInv
  BY HeapInit DEF PartsInit
<1>2. QED BY <1>1, HeapStep, PTL DEF PartsSpec

\* Every unit of the heap has one owner, whatever the sizes that are asked for and the
\* order in which objects are given back: kmalloc and kfree never hand out a unit twice
\* and never lose one.
THEOREM HeapCorrect == PartsSpec => []HeapExact
<1>1. HeapInv => HeapExact
  <2> SUFFICES ASSUME HeapInv, NEW u \in Heaped PROVE K!Cardinality(K!Owners(u)) = 1
    <3>1. Heaped = K!PageUnits..((HeapPages + 1) * K!PageUnits - 1)
      BY DEF Heaped, Top
    <3>2. QED BY <3>1, Zenon DEF HeapExact, K!HeapExact
  <2>1. SharedOut(FreeOf(slob), OwnersOf(k_pages, blocks, bigblocks)) /\ slob \in Rings
    BY DEF HeapInv, HeapState, HeapOk
  <2>2. PICK O : O = FreeOwners(FreeOf(slob)) \cup OwnersOf(k_pages, blocks, bigblocks)
    OBVIOUS
  <2>3. OneHas(O, u)
    BY <2>1, <2>2 DEF SharedOut
  <2>4. PICK o \in O : HasUnit(o, u) /\ \A q \in O : HasUnit(q, u) => q = o
    BY <2>3 DEF OneHas
  <2>5. K!Free = FreeOf(slob)
    BY <2>1 DEF K!Free, FreeOf, Rings
  <2>6. PICK W0 : W0 = {q \in O : HasUnit(q, u)}
    OBVIOUS
  <2>7. K!Owners(u) = W0
    <3>1. \A q : q \in K!Owners(u) <=>
            \/ \E b \in FreeOf(slob) : q = <<"free", b>> /\ HasUnit(q, u)
            \/ \E b \in blocks : q = <<"object", b>> /\ HasUnit(q, u)
            \/ \E b \in bigblocks : q = <<"large", b>> /\ HasUnit(q, u)
            \/ \E p \in k_pages : q = <<"page", p>> /\ HasUnit(q, u)
      BY <2>5, HasIs, Zenon DEF K!Owners
    <3>2. \A q : q \in W0 <=>
            \/ \E b \in FreeOf(slob) : q = <<"free", b>> /\ HasUnit(q, u)
            \/ \E b \in blocks : q = <<"object", b>> /\ HasUnit(q, u)
            \/ \E b \in bigblocks : q = <<"large", b>> /\ HasUnit(q, u)
            \/ \E p \in k_pages : q = <<"page", p>> /\ HasUnit(q, u)
      BY <2>2, <2>6 DEF FreeOwners, OwnersOf, ObjectOwners, LargeOwners, PageOwners
    <3>3. \A q : q \in K!Owners(u) <=> q \in W0
      BY <3>1, <3>2, Zenon
    <3>4. QED BY <3>3
  <2>8. o \in W0 /\ \A q \in W0 : q = o
    BY <2>4, <2>6
  <2>9. Cardinality(W0) = 1
    BY <2>8, CountOne
  <2>10. K!Cardinality(W0) = Cardinality(W0)
    BY Zenon DEF K!Cardinality, Cardinality
  <2>11. QED BY <2>7, <2>9, <2>10
<1>2. QED BY <1>1, HeapInvHolds, PTL

\* The ring goes up through the addresses and closes once, and free blocks that touch
\* were joined: what the search of slob_free relies on.
THEOREM RingCorrect == PartsSpec => []RingExact
<1>1. HeapInv => RingExact
  <2> SUFFICES ASSUME HeapInv PROVE K!RingExact
    BY DEF RingExact
  <2>1. Spaced(FreeOf(slob)) /\ slob \in Rings
    BY DEF HeapInv, HeapState, HeapOk
  <2>2. K!Free = FreeOf(slob)
    BY <2>1 DEF K!Free, FreeOf, Rings
  <2>3. \A x, y \in K!Free : x.at + x.units # y.at
    BY <2>1, <2>2 DEF Spaced, Touch
  <2>4. PICK n, e, a :
          /\ n \in Nat /\ n >= 1 /\ Lists(slob, n, e) /\ Cyclic(n, a) /\ a \in [1..n -> Nat]
          /\ \A k \in 1..n : a[k] = Address(e[k]) /\ e[k] \in Piece
          /\ FreeOf(slob) = {e[k] : k \in 1..n} /\ a = AtsOf(slob)
    BY <2>1, RingIs
  <2>5. PICK k \in 1..n : /\ a[k] >= a[AfterIn(n, k)]
                          /\ \A j \in 1..n : a[j] >= a[AfterIn(n, j)] => j = k
    BY <2>4, ClosesOnce
  <2>6. Len(slob) = n /\ DOMAIN slob = 1..n /\ \A j \in 1..n : slob[j] = e[j]
    BY <2>4 DEF Lists
  <2>7. \A j \in 1..n : AfterIn(n, j) \in 1..n /\ (j % n) + 1 = AfterIn(n, j)
    <3> SUFFICES ASSUME NEW j \in 1..n PROVE AfterIn(n, j) \in 1..n /\ (j % n) + 1 = AfterIn(n, j)
      OBVIOUS
    <3>1. CASE j = n
      <4>1. n % n = 0
        BY <2>4
      <4>2. QED BY <2>4, <3>1, <4>1 DEF AfterIn
    <3>2. CASE j < n
      <4>1. j % n = j
        BY <2>4, <3>2
      <4>2. QED BY <2>4, <3>2, <4>1 DEF AfterIn
    <3>3. QED BY <2>4, <3>1, <3>2
  <2>8. \A j \in 1..n : slob[j].at = a[j] /\ K!Behind(slob, j).at = a[AfterIn(n, j)]
    BY <2>4, <2>6, <2>7 DEF K!Behind, Address
  <2>9. PICK C : C = {j \in DOMAIN slob : slob[j].at >= K!Behind(slob, j).at}
    OBVIOUS
  <2>10. k \in C /\ \A j \in C : j = k
    BY <2>5, <2>6, <2>8, <2>9
  <2>11. Cardinality(C) = 1
    BY <2>10, CountOne
  <2>12. K!Cardinality(C) = Cardinality(C)
    BY Zenon DEF K!Cardinality, Cardinality
  <2>13. K!Cardinality({j \in DOMAIN slob : slob[j].at >= K!Behind(slob, j).at}) = 1
    BY <2>9, <2>11, <2>12
  <2>14. K!RingExact <=>
           /\ K!Cardinality({j \in DOMAIN slob : slob[j].at >= K!Behind(slob, j).at}) = 1
           /\ \A x, y \in K!Free : x.at + x.units # y.at
    BY Zenon DEF K!RingExact
  <2>15. QED BY <2>3, <2>13, <2>14
<1>2. QED BY <1>1, HeapInvHolds, PTL

------------------------------------------------------------------------------
(* The stride policy.  The heap is sorted by the strides that never wrap, Sorted:    *)
(* the processes that compete lie so close together, Near, that the comparison of     *)
(* the wrapped strides is the one of the true ones, and each call of the heap keeps   *)
(* both.  Heaps, Members and Merge are recursive: that such functions exist, and what *)
(* they give, is shown by an induction on the levels of the heaps, Reaches.           *)

\* how many levels a heap may have
Levels == Cardinality(Proc)

\* the heaps with one level more than those of X
Grafted(X) == {<<>>} \cup [proc : Proc, left : X, right : X]

\* what the definition of Heaps says of g
HeapsBy(g) == [d \in 0..Levels |-> IF d = 0 THEN {<<>>} ELSE Grafted(g[d - 1])]

\* The number of levels is a number, in the heap as here.
LEMMA LevelsIn == Levels \in Nat /\ H!Cardinality(Proc) = Levels
<1>1. IsFiniteSet(Proc)
  BY StrideAssumption DEF StrideAssumption
<1>2. H!Cardinality(Proc) = Cardinality(Proc)
  BY Zenon DEF H!Cardinality, Cardinality
<1>3. QED BY <1>1, <1>2, FS_CardinalityType DEF Levels

\* There is such a g.
LEMMA HeapsExist == \E g : g = HeapsBy(g)
<1> DEFINE S == {n \in Nat : \E g : \A d \in 0..Levels : d < n => g[d] = HeapsBy(g)[d]}
<1>1. S \in SUBSET Nat /\ 0 \in S
  BY LevelsIn
<1>2. ASSUME NEW n \in S PROVE n + 1 \in S
  <2>1. PICK g : \A d \in 0..Levels : d < n => g[d] = HeapsBy(g)[d]
    OBVIOUS
  <2>2. PICK h : h = HeapsBy(g)
    OBVIOUS
  <2>3. ASSUME NEW d \in 0..Levels, d < n + 1 PROVE h[d] = HeapsBy(h)[d]
    <3>1. CASE d = 0
      BY <2>2, <3>1 DEF HeapsBy
    <3>2. CASE d # 0
      <4>1. d - 1 \in 0..Levels /\ d - 1 < n
        BY <2>3, <3>2, LevelsIn
      <4>2. g[d - 1] = h[d - 1]
        BY <2>1, <2>2, <4>1
      <4>3. h[d] = Grafted(g[d - 1]) /\ HeapsBy(h)[d] = Grafted(h[d - 1])
        BY <2>2, <3>2 DEF HeapsBy
      <4>4. QED BY <4>2, <4>3
    <3>3. QED BY <3>1, <3>2
  <2>4. n + 1 \in Nat
    OBVIOUS
  <2>5. QED BY <2>3, <2>4
<1> HIDE DEF S
<1>3. S = Nat
  BY <1>1, <1>2, Reaches
<1>4. Levels + 1 \in S
  BY <1>3, LevelsIn
<1>5. PICK g : \A d \in 0..Levels : d < Levels + 1 => g[d] = HeapsBy(g)[d]
  BY <1>4 DEF S
<1>6. PICK h : h = HeapsBy(g)
  OBVIOUS
<1>7. \A d \in 0..Levels : g[d] = h[d]
  BY <1>5, <1>6, LevelsIn
<1>8. HeapsBy(g) = HeapsBy(h)
  <2>1. ASSUME NEW d \in 0..Levels, d # 0 PROVE d - 1 \in 0..Levels
    BY <2>1, LevelsIn
  <2>2. QED BY <1>7, <2>1 DEF HeapsBy
<1>9. QED BY <1>6, <1>8

\* The heaps, level by level.
LEMMA HeapsAre ==
  /\ H!Heaps[0] = {<<>>} /\ H!Heap = H!Heaps[Levels]
  /\ \A d \in 1..Levels : H!Heaps[d] = Grafted(H!Heaps[d - 1])
<1>1. PICK g : g = HeapsBy(g)
  BY HeapsExist
<1>2. g = [d \in 0..H!Cardinality(Proc) |-> IF d = 0 THEN {<<>>}
             ELSE {<<>>} \cup [proc : Proc, left : g[d - 1], right : g[d - 1]]]
  BY <1>1, LevelsIn, Zenon DEF HeapsBy, Grafted
<1>3. H!Heaps = [d \in 0..H!Cardinality(Proc) |-> IF d = 0 THEN {<<>>}
             ELSE {<<>>} \cup [proc : Proc, left : H!Heaps[d - 1], right : H!Heaps[d - 1]]]
  BY <1>2, Zenon DEF H!Heaps
<1>4. PICK h : h = H!Heaps /\ h = HeapsBy(h)
  BY <1>3, LevelsIn, Zenon DEF HeapsBy, Grafted
<1>5. h[0] = {<<>>} /\ \A d \in 1..Levels : h[d] = Grafted(h[d - 1])
  <2>1. PICK k : k = HeapsBy(h)
    OBVIOUS
  <2>2. 0 \in 0..Levels /\ \A d \in 1..Levels : d \in 0..Levels /\ d # 0
    BY LevelsIn
  <2>3. k[0] = {<<>>} /\ \A d \in 1..Levels : k[d] = Grafted(h[d - 1])
    BY <2>1, <2>2 DEF HeapsBy
  <2>4. QED BY <1>4, <2>1, <2>3
<1>6. H!Heap = H!Heaps[Levels]
  BY LevelsIn DEF H!Heap
<1>7. QED BY <1>4, <1>5, <1>6

\* a heap with a node, of at most i levels
IsNode(x, i) ==
  /\ x # <<>> /\ i - 1 \in 0..Levels /\ x.proc \in Proc
  /\ x.left \in H!Heaps[i - 1] /\ x.right \in H!Heaps[i - 1]
  /\ x = [proc |-> x.proc, left |-> x.left, right |-> x.right]

\* A heap is empty, or a node over heaps that have a level less.
LEMMA NodeOrNot ==
  ASSUME NEW i \in 0..Levels, NEW x \in H!Heaps[i]
  PROVE  x = <<>> \/ IsNode(x, i)
<1>1. CASE i = 0
  BY <1>1, HeapsAre
<1>2. CASE i # 0
  <2>1. i \in 1..Levels /\ i - 1 \in 0..Levels
    BY <1>2, LevelsIn
  <2>2. PICK X : X = H!Heaps[i - 1]
    OBVIOUS
  <2>3. x \in {<<>>} \cup [proc : Proc, left : X, right : X]
    BY <2>1, <2>2, HeapsAre DEF Grafted
  <2>4. ASSUME x \in [proc : Proc, left : X, right : X] PROVE IsNode(x, i)
    <3>1. x # <<>> /\ x.proc \in Proc /\ x.left \in X /\ x.right \in X
      BY <2>4
    <3>2. x = [proc |-> x.proc, left |-> x.left, right |-> x.right]
      BY <2>4
    <3>3. QED BY <2>1, <2>2, <3>1, <3>2 DEF IsNode
  <2>5. QED BY <2>3, <2>4
<1>3. QED BY <1>1, <1>2

\* A node over heaps that have a level less.
LEMMA NodeIn ==
  ASSUME NEW i \in 1..Levels, NEW p \in Proc, NEW l \in H!Heaps[i - 1], NEW r \in H!Heaps[i - 1]
  PROVE  H!Node(p, l, r) \in H!Heaps[i]
<1>1. PICK X : X = H!Heaps[i - 1]
  OBVIOUS
<1>2. H!Heaps[i] = Grafted(X)
  BY <1>1, HeapsAre
<1>3. [proc |-> p, left |-> l, right |-> r] \in Grafted(X)
  BY <1>1 DEF Grafted
<1>4. QED BY <1>2, <1>3 DEF H!Node

\* The empty heap is one of every number of levels.
LEMMA EmptyIn == \A i \in 0..Levels : <<>> \in H!Heaps[i]
<1> SUFFICES ASSUME NEW i \in 0..Levels PROVE <<>> \in H!Heaps[i]
  OBVIOUS
<1>1. CASE i = 0
  BY <1>1, HeapsAre
<1>2. CASE i # 0
  <2>1. i \in 1..Levels
    BY <1>2, LevelsIn
  <2>2. H!Heaps[i] = Grafted(H!Heaps[i - 1])
    BY <2>1, HeapsAre
  <2>3. QED BY <2>2 DEF Grafted
<1>3. QED BY <1>1, <1>2

\* A heap of i levels is one of up to j levels.
LEMMA HeapsGrow ==
  ASSUME NEW i \in 0..Levels, NEW j \in 0..Levels, i <= j
  PROVE  H!Heaps[i] \subseteq H!Heaps[j]
<1> DEFINE A == {n \in Nat : n + 1 <= Levels => H!Heaps[n] \subseteq H!Heaps[n + 1]}
<1>1. A \in SUBSET Nat /\ 0 \in A
  BY HeapsAre, EmptyIn, LevelsIn
<1>2. ASSUME NEW n \in A PROVE n + 1 \in A
  <2>1. SUFFICES ASSUME (n + 1) + 1 <= Levels PROVE H!Heaps[n + 1] \subseteq H!Heaps[(n + 1) + 1]
    OBVIOUS
  <2>2. PICK m \in Nat : m = n + 1 /\ m + 1 <= Levels /\ m \in 1..Levels /\ m + 1 \in 1..Levels
                         /\ m - 1 = n /\ (m + 1) - 1 = m
    BY <2>1, LevelsIn
  <2>3. PICK X, Y : X = H!Heaps[n] /\ Y = H!Heaps[m] /\ X \subseteq Y
    BY <2>2
  <2>4. H!Heaps[m] = Grafted(X) /\ H!Heaps[m + 1] = Grafted(Y)
    BY <2>2, <2>3, HeapsAre
  <2>5. Grafted(X) \subseteq Grafted(Y)
    BY <2>3 DEF Grafted
  <2>6. QED BY <2>2, <2>4, <2>5
<1> HIDE DEF A
<1>3. A = Nat
  BY <1>1, <1>2, Reaches
<1> DEFINE B == {k \in Nat : i + k <= Levels => H!Heaps[i] \subseteq H!Heaps[i + k]}
<1>4. B \in SUBSET Nat /\ 0 \in B
  OBVIOUS
<1>5. ASSUME NEW k \in B PROVE k + 1 \in B
  <2>1. PICK m \in Nat : m = i + k /\ m + 1 = i + (k + 1)
    BY LevelsIn
  <2>2. ASSUME m + 1 <= Levels PROVE H!Heaps[i] \subseteq H!Heaps[m + 1]
    <3>1. H!Heaps[i] \subseteq H!Heaps[m]
      BY <2>1, <2>2, LevelsIn
    <3>2. m \in A
      BY <1>3
    <3>3. QED BY <2>2, <3>1, <3>2 DEF A
  <2>3. QED BY <2>1, <2>2
<1> HIDE DEF B
<1>6. j - i \in B
  <2>1. B = Nat
    BY <1>4, <1>5, Reaches
  <2>2. QED BY <2>1, LevelsIn
<1>7. i + (j - i) = j
  BY LevelsIn
<1>8. QED BY <1>6, <1>7, LevelsIn DEF B

\* A heap with a node.
LEMMA NodeFacts ==
  ASSUME NEW x \in H!Heap, x # <<>>
  PROVE  /\ x.proc \in Proc /\ x.left \in H!Heap /\ x.right \in H!Heap
         /\ x = H!Node(x.proc, x.left, x.right)
<1>1. Levels \in 0..Levels /\ H!Heap = H!Heaps[Levels]
  BY HeapsAre, LevelsIn
<1>2. IsNode(x, Levels)
  BY <1>1, NodeOrNot
<1>3. H!Heaps[Levels - 1] \subseteq H!Heaps[Levels]
  BY <1>1, <1>2, LevelsIn, HeapsGrow DEF IsNode
<1>4. QED BY <1>1, <1>2, <1>3 DEF IsNode, H!Node

\* what the definition of Members says of g
MembersBy(g) == [x \in H!Heap |-> IF x = <<>> THEN {} ELSE {x.proc} \cup g[x.left] \cup g[x.right]]

\* There is such a g.
LEMMA MembersExist == \E g : g = MembersBy(g)
<1> DEFINE S == {n \in Nat : \E g : \A i \in 0..Levels : \A x \in H!Heaps[i] : i < n => g[x] = MembersBy(g)[x]}
<1>0. \A i \in 0..Levels : H!Heaps[i] \subseteq H!Heap
  BY HeapsAre, HeapsGrow, LevelsIn
<1>1. S \in SUBSET Nat /\ 0 \in S
  BY LevelsIn
<1>2. ASSUME NEW n \in S PROVE n + 1 \in S
  <2>1. PICK g : \A i \in 0..Levels : \A x \in H!Heaps[i] : i < n => g[x] = MembersBy(g)[x]
    OBVIOUS
  <2>2. PICK h : h = MembersBy(g)
    OBVIOUS
  <2>3. ASSUME NEW i \in 0..Levels, NEW x \in H!Heaps[i], i < n + 1 PROVE h[x] = MembersBy(h)[x]
    <3>0. x \in H!Heap
      BY <1>0
    <3>1. CASE x = <<>>
      BY <2>2, <3>0, <3>1 DEF MembersBy
    <3>2. CASE x # <<>>
      <4>1. IsNode(x, i)
        BY <3>2, NodeOrNot
      <4>2. i - 1 \in 0..Levels /\ i - 1 < n /\ x.left \in H!Heaps[i - 1] /\ x.right \in H!Heaps[i - 1]
        BY <2>3, <4>1 DEF IsNode
      <4>3. x.left \in H!Heap /\ x.right \in H!Heap
        BY <1>0, <4>2
      <4>4. g[x.left] = h[x.left] /\ g[x.right] = h[x.right]
        BY <2>1, <2>2, <4>2
      <4>5. h[x] = {x.proc} \cup g[x.left] \cup g[x.right] /\ MembersBy(h)[x] = {x.proc} \cup h[x.left] \cup h[x.right]
        BY <2>2, <3>0, <3>2 DEF MembersBy
      <4>6. QED BY <4>4, <4>5
    <3>3. QED BY <3>1, <3>2
  <2>4. n + 1 \in Nat
    OBVIOUS
  <2>5. QED BY <2>3, <2>4
<1> HIDE DEF S
<1>3. S = Nat
  BY <1>1, <1>2, Reaches
<1>4. Levels + 1 \in S
  BY <1>3, LevelsIn
<1>5. PICK g : \A i \in 0..Levels : \A x \in H!Heaps[i] : i < Levels + 1 => g[x] = MembersBy(g)[x]
  BY <1>4 DEF S
<1>6. PICK h : h = MembersBy(g)
  OBVIOUS
<1>7. \A x \in H!Heap : g[x] = h[x]
  BY <1>5, <1>6, LevelsIn, HeapsAre
<1>8. MembersBy(g) = MembersBy(h)
  BY <1>7, NodeFacts DEF MembersBy
<1>9. QED BY <1>6, <1>8

\* The members of a heap.
LEMMA MembersAre ==
  /\ H!Members(<<>>) = {}
  /\ \A x \in H!Heap : x # <<>> =>
       H!Members(x) = {x.proc} \cup H!Members(x.left) \cup H!Members(x.right)
<1> DEFINE f == CHOOSE g : g = [x \in H!Heap |-> IF x = <<>> THEN {}
                                     ELSE {x.proc} \cup g[x.left] \cup g[x.right]]
<1>1. \E g : g = [x \in H!Heap |-> IF x = <<>> THEN {} ELSE {x.proc} \cup g[x.left] \cup g[x.right]]
  BY MembersExist DEF MembersBy
<1>2. f = [x \in H!Heap |-> IF x = <<>> THEN {} ELSE {x.proc} \cup f[x.left] \cup f[x.right]]
  BY <1>1, Zenon
<1>3. \A x : H!Members(x) = f[x]
  BY Zenon DEF H!Members
<1> HIDE DEF f
<1>4. PICK k : k = [x \in H!Heap |-> IF x = <<>> THEN {} ELSE {x.proc} \cup f[x.left] \cup f[x.right]]
  OBVIOUS
<1>5. <<>> \in H!Heap
  BY EmptyIn, HeapsAre, LevelsIn
<1>6. k[<<>>] = {} /\ \A x \in H!Heap : x # <<>> => k[x] = {x.proc} \cup f[x.left] \cup f[x.right]
  BY <1>4, <1>5
<1>7. f = k
  BY <1>2, <1>4
<1>8. QED BY <1>3, <1>6, <1>7

\* what the definition of Merge says of g
MergedBy(s, g) ==
  [h \in H!Heap \X H!Heap |->
     IF h[1] = <<>> THEN h[2]
     ELSE IF h[2] = <<>> THEN h[1]
     ELSE IF H!Before(s, h[1].proc, h[2].proc)
          THEN H!Node(h[1].proc, g[<<h[1].right, h[2]>>], h[1].left)
          ELSE H!Node(h[2].proc, g[<<h[1], h[2].right>>], h[2].left)]

\* one call of it
MergeCall(s, g, x, y) ==
  IF x = <<>> THEN y
  ELSE IF y = <<>> THEN x
  ELSE IF H!Before(s, x.proc, y.proc)
       THEN H!Node(x.proc, g[<<x.right, y>>], x.left)
       ELSE H!Node(y.proc, g[<<x, y.right>>], y.left)

\* One call of such a function.
LEMMA MergedByAt ==
  ASSUME NEW s, NEW g, NEW x \in H!Heap, NEW y \in H!Heap
  PROVE  MergedBy(s, g)[<<x, y>>] = MergeCall(s, g, x, y)
<1>1. PICK h : h = <<x, y>>
  OBVIOUS
<1>2. h \in H!Heap \X H!Heap /\ h[1] = x /\ h[2] = y
  BY <1>1
<1>3. MergedBy(s, g)[h] = 
     IF h[1] = <<>> THEN h[2]
     ELSE IF h[2] = <<>> THEN h[1]
     ELSE IF H!Before(s, h[1].proc, h[2].proc)
          THEN H!Node(h[1].proc, g[<<h[1].right, h[2]>>], h[1].left)
          ELSE H!Node(h[2].proc, g[<<h[1], h[2].right>>], h[2].left)
  BY <1>2 DEF MergedBy
<1>4. QED BY <1>1, <1>2, <1>3 DEF MergeCall

\* g is right for the heaps that have less than n levels together
MergesTo(s, g, n) ==
  \A i \in 0..Levels, j \in 0..Levels : i + j < n =>
    \A x \in H!Heaps[i], y \in H!Heaps[j] : g[<<x, y>>] = MergeCall(s, g, x, y)

\* There is a function as the definition of Merge says.
LEMMA MergeExists ==
  ASSUME NEW s
  PROVE  \E g : g = MergedBy(s, g)
<1> DEFINE S == {n \in Nat : \E g : MergesTo(s, g, n)}
<1>0. \A i \in 0..Levels : H!Heaps[i] \subseteq H!Heap
  BY HeapsAre, HeapsGrow, LevelsIn
<1>1. S \in SUBSET Nat /\ 0 \in S
  BY LevelsIn DEF MergesTo
<1>2. ASSUME NEW n \in S PROVE n + 1 \in S
  <2>1. PICK g : MergesTo(s, g, n)
    OBVIOUS
  <2>2. PICK h : h = MergedBy(s, g)
    OBVIOUS
  <2>3. ASSUME NEW i \in 0..Levels, NEW j \in 0..Levels, i + j < n + 1,
               NEW x \in H!Heaps[i], NEW y \in H!Heaps[j]
        PROVE  h[<<x, y>>] = MergeCall(s, h, x, y)
    <3>0. x \in H!Heap /\ y \in H!Heap
      BY <1>0
    <3>1. h[<<x, y>>] = MergeCall(s, g, x, y)
      BY <2>2, <3>0, MergedByAt
    <3>2. CASE x = <<>> \/ y = <<>>
      BY <3>1, <3>2 DEF MergeCall
    <3>3. CASE x # <<>> /\ y # <<>>
      <4>1. IsNode(x, i) /\ IsNode(y, j)
        BY <3>3, NodeOrNot
      <4>2. /\ i - 1 \in 0..Levels /\ j - 1 \in 0..Levels /\ (i - 1) + j < n /\ i + (j - 1) < n
            /\ x.right \in H!Heaps[i - 1] /\ y.right \in H!Heaps[j - 1]
        BY <2>3, <4>1, LevelsIn DEF IsNode
      <4>3. x.right \in H!Heap /\ y.right \in H!Heap
        BY <1>0, <4>2
      <4>4. g[<<x.right, y>>] = h[<<x.right, y>>]
        BY <2>1, <2>2, <3>0, <4>2, <4>3, MergedByAt DEF MergesTo
      <4>5. g[<<x, y.right>>] = h[<<x, y.right>>]
        BY <2>1, <2>2, <3>0, <4>2, <4>3, MergedByAt DEF MergesTo
      <4>6. MergeCall(s, g, x, y) = MergeCall(s, h, x, y)
        BY <3>3, <4>4, <4>5 DEF MergeCall
      <4>7. QED BY <3>1, <4>6
    <3>4. QED BY <3>2, <3>3
  <2>4. MergesTo(s, h, n + 1)
    BY <2>3 DEF MergesTo
  <2>5. QED BY <2>4
<1> HIDE DEF S
<1>3. S = Nat
  BY <1>1, <1>2, Reaches
<1>4. Levels + Levels + 1 \in S
  BY <1>3, LevelsIn
<1>5. PICK g : MergesTo(s, g, Levels + Levels + 1)
  BY <1>4 DEF S
<1>6. PICK h : h = MergedBy(s, g)
  OBVIOUS
<1>7. \A x \in H!Heap, y \in H!Heap : g[<<x, y>>] = h[<<x, y>>]
  <2>1. \A x \in H!Heap, y \in H!Heap : g[<<x, y>>] = MergeCall(s, g, x, y)
    <3>1. Levels \in 0..Levels /\ Levels + Levels < Levels + Levels + 1
      BY LevelsIn
    <3>2. \A x \in H!Heaps[Levels], y \in H!Heaps[Levels] : g[<<x, y>>] = MergeCall(s, g, x, y)
      BY <1>5, <3>1 DEF MergesTo
    <3>3. QED BY <3>2, HeapsAre, Zenon
  <2>2. QED BY <1>6, <2>1, MergedByAt
<1>8. MergedBy(s, g) = MergedBy(s, h)
  <2>1. ASSUME NEW z \in H!Heap \X H!Heap, z[1] # <<>>, z[2] # <<>>
        PROVE  g[<<z[1].right, z[2]>>] = h[<<z[1].right, z[2]>>] /\ g[<<z[1], z[2].right>>] = h[<<z[1], z[2].right>>]
    <3>1. z[1] \in H!Heap /\ z[2] \in H!Heap
      OBVIOUS
    <3>2. z[1].right \in H!Heap /\ z[2].right \in H!Heap
      BY <2>1, <3>1, NodeFacts
    <3>3. QED BY <1>7, <3>1, <3>2
  <2>2. QED BY <2>1 DEF MergedBy
<1>9. QED BY <1>6, <1>8

\* skew_heap_merge, call by call.
LEMMA MergeIs ==
  ASSUME NEW s, NEW x \in H!Heap, NEW y \in H!Heap
  PROVE  H!Merge(s, x, y) =
           IF x = <<>> THEN y
           ELSE IF y = <<>> THEN x
           ELSE IF H!Before(s, x.proc, y.proc)
                THEN H!Node(x.proc, H!Merge(s, x.right, y), x.left)
                ELSE H!Node(y.proc, H!Merge(s, x, y.right), y.left)
<1> DEFINE f == CHOOSE g : g =
     [h \in H!Heap \X H!Heap |->
       IF h[1] = <<>> THEN h[2]
       ELSE IF h[2] = <<>> THEN h[1]
       ELSE IF H!Before(s, h[1].proc, h[2].proc)
            THEN H!Node(h[1].proc, g[<<h[1].right, h[2]>>], h[1].left)
            ELSE H!Node(h[2].proc, g[<<h[1], h[2].right>>], h[2].left)]
<1>1. \E g : g =
     [h \in H!Heap \X H!Heap |->
       IF h[1] = <<>> THEN h[2]
       ELSE IF h[2] = <<>> THEN h[1]
       ELSE IF H!Before(s, h[1].proc, h[2].proc)
            THEN H!Node(h[1].proc, g[<<h[1].right, h[2]>>], h[1].left)
            ELSE H!Node(h[2].proc, g[<<h[1], h[2].right>>], h[2].left)]
  BY MergeExists, Zenon DEF MergedBy
<1>2. f = 
     [h \in H!Heap \X H!Heap |->
       IF h[1] = <<>> THEN h[2]
       ELSE IF h[2] = <<>> THEN h[1]
       ELSE IF H!Before(s, h[1].proc, h[2].proc)
            THEN H!Node(h[1].proc, f[<<h[1].right, h[2]>>], h[1].left)
            ELSE H!Node(h[2].proc, f[<<h[1], h[2].right>>], h[2].left)]
  BY <1>1, Zenon
<1>3. \A a, b : H!Merge(s, a, b) = f[<<a, b>>]
  BY Zenon DEF H!Merge
<1> HIDE DEF f
<1>4. f = MergedBy(s, f)
  BY <1>2, Zenon DEF MergedBy
<1>5. PICK k : k = MergedBy(s, f)
  OBVIOUS
<1>6. k[<<x, y>>] = MergeCall(s, f, x, y)
  BY <1>5, MergedByAt
<1>7. H!Merge(s, x, y) = MergeCall(s, f, x, y)
  BY <1>3, <1>4, <1>5, <1>6, Zenon
<1>8. QED BY <1>3, <1>7, Zenon DEF MergeCall

\* no process is in l and r both, and p is in neither
NotTwice(p, l, r) ==
  /\ p \notin H!Members(l) /\ p \notin H!Members(r)
  /\ \A q \in H!Members(l) : q \notin H!Members(r)

\* p has the least stride
First(s, p, Q) == \A q \in Q : s[p] <= s[q]

\* x is empty, or its process goes first and is not met again
Fits(s, x) ==
  x # <<>> => /\ NotTwice(x.proc, x.left, x.right)
              /\ First(s, x.proc, H!Members(x.left)) /\ First(s, x.proc, H!Members(x.right))

\* a set of heaps that has the parts of its heaps, too
AllFit(s, S) ==
  \A x \in S : Fits(s, x) /\ (x # <<>> => x.left \in S /\ x.right \in S)

\* x is a heap, each process is in it at most once, and it is in the order of s
Sorted(s, x) == \E S \in SUBSET H!Heap : x \in S /\ AllFit(s, S)

\* A heap holds processes.
LEMMA MembersIn ==
  \A x \in H!Heap : H!Members(x) \subseteq Proc
<1> DEFINE A == {n \in Nat : n <= Levels => \A x \in H!Heaps[n] : H!Members(x) \subseteq Proc}
<1>0. \A i \in 0..Levels : H!Heaps[i] \subseteq H!Heap
  BY HeapsAre, HeapsGrow, LevelsIn
<1>1. A \in SUBSET Nat /\ 0 \in A
  BY HeapsAre, MembersAre
<1>2. ASSUME NEW n \in A PROVE n + 1 \in A
  <2>1. ASSUME n + 1 <= Levels, NEW x \in H!Heaps[n + 1] PROVE H!Members(x) \subseteq Proc
    <3>1. n + 1 \in 0..Levels /\ (n + 1) - 1 = n /\ n <= Levels /\ n \in A
      BY <2>1, LevelsIn
    <3>2. CASE x = <<>>
      BY <3>2, MembersAre
    <3>3. CASE x # <<>>
      <4>1. IsNode(x, n + 1) /\ x \in H!Heap
        BY <1>0, <2>1, <3>1, <3>3, NodeOrNot
      <4>2. x.proc \in Proc /\ x.left \in H!Heaps[n] /\ x.right \in H!Heaps[n]
        BY <3>1, <4>1 DEF IsNode
      <4>3. H!Members(x.left) \subseteq Proc /\ H!Members(x.right) \subseteq Proc
        BY <2>1, <3>1, <4>2
      <4>4. QED BY <3>3, <4>1, <4>2, <4>3, MembersAre
    <3>4. QED BY <3>2, <3>3
  <2>2. QED BY <2>1
<1> HIDE DEF A
<1>3. Levels \in A
  BY <1>1, <1>2, Reaches, LevelsIn
<1>4. QED BY <1>3, HeapsAre DEF A

\* The empty heap is sorted.
LEMMA SortedEmpty == \A s : Sorted(s, <<>>)
<1>1. <<>> \in H!Heap
  BY EmptyIn, HeapsAre, LevelsIn
<1>2. \A s : AllFit(s, {<<>>})
  BY DEF AllFit, Fits
<1>3. QED BY <1>1, <1>2 DEF Sorted

\* What a sorted heap with a node consists of.
LEMMA SortedParts ==
  ASSUME NEW s, NEW x, Sorted(s, x), x # <<>>
  PROVE  /\ Fits(s, x) /\ Sorted(s, x.left) /\ Sorted(s, x.right)
         /\ x \in H!Heap /\ x.proc \in Proc
         /\ H!Members(x) = {x.proc} \cup H!Members(x.left) \cup H!Members(x.right)
<1>1. PICK S \in SUBSET H!Heap : x \in S /\ AllFit(s, S)
  BY DEF Sorted
<1>2. Fits(s, x) /\ x.left \in S /\ x.right \in S
  BY <1>1 DEF AllFit
<1>3. x \in H!Heap
  BY <1>1
<1>4. QED BY <1>1, <1>2, <1>3, NodeFacts, MembersAre DEF Sorted

\* What a sorted heap is.
LEMMA SortedIn ==
  ASSUME NEW s, NEW x, Sorted(s, x)
  PROVE  x \in H!Heap /\ H!Members(x) \subseteq Proc /\ IsFiniteSet(H!Members(x))
         /\ Cardinality(H!Members(x)) \in 0..Levels
<1>1. x \in H!Heap
  BY DEF Sorted
<1>2. IsFiniteSet(Proc)
  BY StrideAssumption DEF StrideAssumption
<1>3. QED BY <1>1, <1>2, MembersIn, FS_Subset, FS_CardinalityType, LevelsIn DEF Levels

\* The members of a node counted.
LEMMA CountNode ==
  ASSUME NEW p \in Proc, NEW L \in SUBSET Proc, NEW R \in SUBSET Proc, p \notin L, p \notin R,
         \A q \in L : q \notin R
  PROVE  /\ Cardinality(L) \in Nat /\ Cardinality(R) \in Nat /\ Cardinality({p} \cup L \cup R) \in 0..Levels
         /\ Cardinality({p} \cup L \cup R) = Cardinality(L) + Cardinality(R) + 1
<1>1. IsFiniteSet(Proc)
  BY StrideAssumption DEF StrideAssumption
<1>2. IsFiniteSet(L) /\ IsFiniteSet(R) /\ IsFiniteSet(L \cup R)
  BY <1>1, FS_Subset, FS_Union
<1>3. L \cap R = {}
  OBVIOUS
<1>4. Cardinality(L \cup R) = Cardinality(L) + Cardinality(R) - Cardinality({})
  BY <1>2, <1>3, FS_Union
<1>5. Cardinality({}) = 0
  BY FS_EmptySet
<1>6. /\ Cardinality(L) \in Nat /\ Cardinality(R) \in Nat
  BY <1>2, FS_CardinalityType
<1>7. p \notin L \cup R
  OBVIOUS
<1>8. Cardinality((L \cup R) \cup {p}) = Cardinality(L \cup R) + 1
  BY <1>2, <1>7, FS_AddElement
<1>9. (L \cup R) \cup {p} = {p} \cup L \cup R
  OBVIOUS
<1>10. {p} \cup L \cup R \subseteq Proc
  OBVIOUS
<1>11. Cardinality({p} \cup L \cup R) <= Levels /\ Cardinality({p} \cup L \cup R) \in Nat
  BY <1>1, <1>10, FS_Subset, FS_CardinalityType DEF Levels
<1>12. PICK c, d, e, k : /\ c = Cardinality({p} \cup L \cup R) /\ d = Cardinality(L) /\ e = Cardinality(R)
                         /\ k = Cardinality(L \cup R)
  OBVIOUS
<1>13. d \in Nat /\ e \in Nat /\ k = d + e - 0 /\ c = k + 1 /\ c \in Nat /\ c <= Levels
  BY <1>4, <1>5, <1>6, <1>8, <1>9, <1>11, <1>12
<1>14. c \in 0..Levels /\ c = d + e + 1
  BY <1>13, LevelsIn
<1>15. QED BY <1>12, <1>13, <1>14

\* A sorted heap has no more levels than members.
LEMMA SortedLevels ==
  ASSUME NEW s
  PROVE  \A x : Sorted(s, x) => x \in H!Heaps[Cardinality(H!Members(x))]
<1> DEFINE A == {n \in Nat : n <= Levels => \A x \in H!Heaps[n] : Sorted(s, x) => x \in H!Heaps[Cardinality(H!Members(x))]}
<1>1. A \in SUBSET Nat /\ 0 \in A
  <2>1. Cardinality(H!Members(<<>>)) = 0
    BY MembersAre, FS_EmptySet
  <2>2. QED BY <2>1, HeapsAre
<1>2. ASSUME NEW n \in A PROVE n + 1 \in A
  <2>1. ASSUME n + 1 <= Levels, NEW x \in H!Heaps[n + 1], Sorted(s, x)
        PROVE  x \in H!Heaps[Cardinality(H!Members(x))]
    <3>1. n + 1 \in 0..Levels /\ (n + 1) - 1 = n /\ n <= Levels /\ n \in A
      BY <2>1, LevelsIn
    <3>2. CASE x = <<>>
      <4>1. Cardinality(H!Members(x)) = 0
        BY <3>2, MembersAre, FS_EmptySet
      <4>2. QED BY <3>2, <4>1, HeapsAre
    <3>3. CASE x # <<>>
      <4>1. IsNode(x, n + 1)
        BY <2>1, <3>1, <3>3, NodeOrNot
      <4>2. PICK p, l, r : p = x.proc /\ l = x.left /\ r = x.right
        OBVIOUS
      <4>3. p \in Proc /\ l \in H!Heaps[n] /\ r \in H!Heaps[n] /\ x = H!Node(p, l, r)
        BY <3>1, <4>1, <4>2 DEF IsNode, H!Node
      <4>4. Sorted(s, l) /\ Sorted(s, r) /\ NotTwice(p, l, r)
        BY <2>1, <3>3, <4>2, SortedParts DEF Fits
      <4>5. l \in H!Heaps[Cardinality(H!Members(l))] /\ r \in H!Heaps[Cardinality(H!Members(r))]
        BY <2>1, <3>1, <4>3, <4>4
      <4>6. PICK c, d, e : c = Cardinality(H!Members(x)) /\ d = Cardinality(H!Members(l)) /\ e = Cardinality(H!Members(r))
        OBVIOUS
      <4>7. H!Members(x) = {p} \cup H!Members(l) \cup H!Members(r)
        BY <2>1, <3>3, <4>2, SortedParts
      <4>8. d \in Nat /\ e \in Nat /\ c \in 0..Levels /\ c = d + e + 1
        BY <4>3, <4>4, <4>6, <4>7, SortedIn, CountNode DEF NotTwice
      <4>9. c \in 1..Levels /\ c - 1 \in 0..Levels /\ d \in 0..Levels /\ e \in 0..Levels /\ d <= c - 1 /\ e <= c - 1
        BY <4>8, LevelsIn
      <4>10. l \in H!Heaps[c - 1] /\ r \in H!Heaps[c - 1]
        BY <4>5, <4>6, <4>9, HeapsGrow
      <4>11. x \in H!Heaps[c]
        BY <4>3, <4>9, <4>10, NodeIn
      <4>12. QED BY <4>6, <4>11
    <3>4. QED BY <3>2, <3>3
  <2>2. QED BY <2>1
<1> HIDE DEF A
<1>3. Levels \in A
  BY <1>1, <1>2, Reaches, LevelsIn
<1>4. QED BY <1>3, HeapsAre, SortedIn DEF A

\* Two sorted heaps under a process that goes first.
LEMMA SortedNode ==
  ASSUME NEW s, NEW p \in Proc, NEW l, NEW r, Sorted(s, l), Sorted(s, r), NotTwice(p, l, r),
         First(s, p, H!Members(l)), First(s, p, H!Members(r))
  PROVE  /\ Sorted(s, H!Node(p, l, r))
         /\ H!Members(H!Node(p, l, r)) = {p} \cup H!Members(l) \cup H!Members(r)
<1>1. PICK x : x = H!Node(p, l, r)
  OBVIOUS
<1>2. x # <<>> /\ x.proc = p /\ x.left = l /\ x.right = r
  BY <1>1 DEF H!Node
<1>3. x \in H!Heap
  <2>1. PICK d, e : d = Cardinality(H!Members(l)) /\ e = Cardinality(H!Members(r))
    OBVIOUS
  <2>2. d \in Nat /\ e \in Nat /\ d + e + 1 \in 0..Levels
    BY <2>1, SortedIn, CountNode DEF NotTwice
  <2>3. d \in 0..Levels /\ e \in 0..Levels /\ Levels \in 1..Levels /\ d <= Levels - 1 /\ e <= Levels - 1 /\ Levels - 1 \in 0..Levels
    BY <2>2, LevelsIn
  <2>4. l \in H!Heaps[d] /\ r \in H!Heaps[e]
    BY <2>1, SortedLevels
  <2>5. l \in H!Heaps[Levels - 1] /\ r \in H!Heaps[Levels - 1]
    BY <2>3, <2>4, HeapsGrow
  <2>6. QED BY <1>1, <2>3, <2>5, NodeIn, HeapsAre
<1>4. PICK S \in SUBSET H!Heap : l \in S /\ AllFit(s, S)
  BY DEF Sorted
<1>5. PICK U \in SUBSET H!Heap : r \in U /\ AllFit(s, U)
  BY DEF Sorted
<1>6. Fits(s, x)
  BY <1>2 DEF Fits
<1>7. AllFit(s, S \cup U \cup {x})
  BY <1>2, <1>4, <1>5, <1>6 DEF AllFit
<1>8. Sorted(s, x)
  BY <1>3, <1>4, <1>5, <1>7 DEF Sorted
<1>9. QED BY <1>1, <1>2, <1>3, <1>8, MembersAre

\* A heap stays sorted when the strides of its members do not change.
LEMMA SortedSame ==
  ASSUME NEW s, NEW u, NEW x, Sorted(s, x), \A q \in H!Members(x) : u[q] = s[q]
  PROVE  Sorted(u, x)
<1>1. PICK S \in SUBSET H!Heap : x \in S /\ AllFit(s, S)
  BY DEF Sorted
<1>2. PICK U \in SUBSET H!Heap : U = {y \in S : H!Members(y) \subseteq H!Members(x)}
  BY <1>1
<1>3. ASSUME NEW y \in U PROVE Fits(u, y) /\ (y # <<>> => y.left \in U /\ y.right \in U)
  <2>1. CASE y = <<>>
    BY <2>1 DEF Fits
  <2>2. CASE y # <<>>
    <3>1. y \in S /\ y \in H!Heap /\ H!Members(y) \subseteq H!Members(x)
      BY <1>2
    <3>2. Fits(s, y) /\ y.left \in S /\ y.right \in S
      BY <1>1, <2>2, <3>1 DEF AllFit
    <3>3. H!Members(y) = {y.proc} \cup H!Members(y.left) \cup H!Members(y.right)
      BY <2>2, <3>1, MembersAre
    <3>4. y.left \in U /\ y.right \in U
      BY <1>2, <3>1, <3>2, <3>3
    <3>5. u[y.proc] = s[y.proc] /\ (\A q \in H!Members(y.left) : u[q] = s[q]) /\ \A q \in H!Members(y.right) : u[q] = s[q]
      BY <3>1, <3>3
    <3>6. QED BY <2>2, <3>2, <3>4, <3>5 DEF Fits, First
  <2>3. QED BY <2>1, <2>2
<1>4. AllFit(u, U)
  BY <1>3 DEF AllFit
<1>5. x \in U
  BY <1>1, <1>2
<1>6. QED BY <1>4, <1>5 DEF Sorted

\* proc_stride_comp_f: two wrapped strides compare as the true ones do, when these are
\* less than half the range apart.
THEOREM WrappedComparison ==
  ASSUME NEW s, NEW p, NEW q, s[p] \in Nat, s[q] \in Nat,
         s[p] - s[q] < 2 * BigStride, s[q] - s[p] < 2 * BigStride
  PROVE  H!Before(s, p, q) <=> s[p] < s[q]
<1>1. PICK m, b \in Nat, x \in Nat, y \in Nat : m = 4 * BigStride /\ b = BigStride /\ x = s[p] /\ y = s[q]
  BY StrideAssumption DEF StrideAssumption
<1>2. b > 0 /\ m = 4 * b /\ m \in Nat \ {0} /\ m \div 2 = 2 * b
  BY <1>1, StrideAssumption DEF StrideAssumption
<1>3. H!Before(s, p, q) <=> ((x % m) - (y % m)) % m >= 2 * b
  BY <1>1, <1>2 DEF H!Before, H!Range
<1>4. CASE y <= x
  <2>1. x < y + m
    BY <1>1, <1>2
  <2>2. ((x % m) - (y % m)) % m = x - y
    BY <1>2, <1>4, <2>1, ModDiff
  <2>3. QED BY <1>1, <1>3, <1>4, <2>2
<1>5. CASE x < y
  <2>1. PICK z \in Nat : z = x + m
    BY <1>2
  <2>2. y <= z /\ z < y + m
    BY <1>1, <1>2, <1>5, <2>1
  <2>3. ((z % m) - (y % m)) % m = z - y
    BY <1>2, <2>2, ModDiff
  <2>4. z % m = x % m
    <3>1. PICK d \in Nat, r \in 0..(m - 1) : x = m * d + r /\ x % m = r
      BY <1>2, ModParts
    <3>2. PICK e \in Int : e = d + 1
      BY <3>1
    <3>3. z = m * e + r
      BY <1>2, <2>1, <3>1, <3>2
    <3>4. QED BY <1>2, <3>1, <3>2, <3>3, ModOf
  <2>5. z - y >= 2 * b
    BY <1>1, <1>2, <1>5, <2>1
  <2>6. QED BY <1>1, <1>3, <1>5, <2>3, <2>4, <2>5
<1>6. QED BY <1>4, <1>5

\* strides that compare
Close(s, Q) == \A p \in Q, q \in Q : s[p] \in Nat /\ s[p] - s[q] < 2 * BigStride

\* A heap sorted that takes the place of the right subtree, with other members Q.
LEMMA GraftSorted ==
  ASSUME NEW s, NEW x, Sorted(s, x), x # <<>>, NEW m, Sorted(s, m),
         NEW Q, H!Members(m) = H!Members(x.right) \cup Q, \A q \in Q : q \notin H!Members(x),
         First(s, x.proc, Q)
  PROVE  /\ Sorted(s, H!Node(x.proc, m, x.left))
         /\ H!Members(H!Node(x.proc, m, x.left)) = H!Members(x) \cup Q
<1>1. PICK p, l, r : p = x.proc /\ l = x.left /\ r = x.right
  OBVIOUS
<1>2. /\ p \in Proc /\ NotTwice(p, l, r) /\ First(s, p, H!Members(l)) /\ First(s, p, H!Members(r))
      /\ Sorted(s, l) /\ H!Members(x) = {p} \cup H!Members(l) \cup H!Members(r)
  BY <1>1, SortedParts DEF Fits
<1>3. NotTwice(p, m, l)
  BY <1>1, <1>2 DEF NotTwice
<1>4. First(s, p, H!Members(m))
  BY <1>1, <1>2 DEF First
<1>5. /\ Sorted(s, H!Node(p, m, l))
      /\ H!Members(H!Node(p, m, l)) = {p} \cup H!Members(m) \cup H!Members(l)
  <2>1. /\ p \in Proc /\ Sorted(s, m) /\ Sorted(s, l) /\ NotTwice(p, m, l)
        /\ First(s, p, H!Members(m)) /\ First(s, p, H!Members(l))
    BY <1>2, <1>3, <1>4
  <2>2. Sorted(s, H!Node(p, m, l))
    BY <2>1, SortedNode
  <2>3. H!Members(H!Node(p, m, l)) = {p} \cup H!Members(m) \cup H!Members(l)
    <3>1. H!Node(p, m, l) \in H!Heap
      BY <2>2, SortedIn
    <3>2. PICK n : n = H!Node(p, m, l)
      OBVIOUS
    <3>3. n # <<>> /\ n.proc = p /\ n.left = m /\ n.right = l
      BY <3>2 DEF H!Node
    <3>4. H!Members(n) = {n.proc} \cup H!Members(n.left) \cup H!Members(n.right)
      BY <3>1, <3>2, <3>3, MembersAre
    <3>5. QED BY <3>2, <3>3, <3>4
  <2>4. QED BY <2>2, <2>3
<1>6. QED BY <1>1, <1>2, <1>5

\* what skew_heap_merge does
Merges(s, x, y) ==
  /\ Sorted(s, x) /\ Sorted(s, y) /\ (\A q \in H!Members(x) : q \notin H!Members(y))
  /\ Close(s, H!Members(x) \cup H!Members(y))
  => /\ Sorted(s, H!Merge(s, x, y))
     /\ H!Members(H!Merge(s, x, y)) = H!Members(x) \cup H!Members(y)

\* skew_heap_merge of two sorted heaps without a common process gives a sorted heap
\* with the processes of both: by induction on the levels of the two.
LEMMA MergeSorted ==
  ASSUME NEW s
  PROVE  \A x \in H!Heap, y \in H!Heap : Merges(s, x, y)
<1> DEFINE A == {n \in Nat : \A i \in 0..Levels, j \in 0..Levels : i + j < n =>
                               \A x \in H!Heaps[i], y \in H!Heaps[j] : Merges(s, x, y)}
<1>0. \A i \in 0..Levels : H!Heaps[i] \subseteq H!Heap
  BY HeapsAre, HeapsGrow, LevelsIn
<1>1. A \in SUBSET Nat /\ 0 \in A
  BY LevelsIn
<1>2. ASSUME NEW n \in A PROVE n + 1 \in A
  <2>1. ASSUME NEW i \in 0..Levels, NEW j \in 0..Levels, i + j < n + 1,
               NEW x \in H!Heaps[i], NEW y \in H!Heaps[j]
        PROVE  Merges(s, x, y)
    <3>1. SUFFICES ASSUME Sorted(s, x), Sorted(s, y), \A q \in H!Members(x) : q \notin H!Members(y),
                          Close(s, H!Members(x) \cup H!Members(y))
                   PROVE  /\ Sorted(s, H!Merge(s, x, y))
                          /\ H!Members(H!Merge(s, x, y)) = H!Members(x) \cup H!Members(y)
      BY DEF Merges
    <3>2. x \in H!Heap /\ y \in H!Heap
      BY <1>0
    <3>3. CASE x = <<>> \/ y = <<>>
      BY <3>1, <3>2, <3>3, MergeIs, MembersAre
    <3>4. CASE x # <<>> /\ y # <<>>
      <4>1. IsNode(x, i) /\ IsNode(y, j)
        BY <3>4, NodeOrNot
      <4>2. /\ i - 1 \in 0..Levels /\ j - 1 \in 0..Levels /\ (i - 1) + j < n /\ i + (j - 1) < n
            /\ x.right \in H!Heaps[i - 1] /\ y.right \in H!Heaps[j - 1]
        BY <2>1, <4>1, LevelsIn DEF IsNode
      <4>3. Merges(s, x.right, y) /\ Merges(s, x, y.right)
        BY <4>2
      <4>4. PICK p, q : p = x.proc /\ q = y.proc
        OBVIOUS
      <4>5. /\ Fits(s, x) /\ Sorted(s, x.right) /\ H!Members(x) = {p} \cup H!Members(x.left) \cup H!Members(x.right)
            /\ Fits(s, y) /\ Sorted(s, y.right) /\ H!Members(y) = {q} \cup H!Members(y.left) \cup H!Members(y.right)
        BY <3>1, <3>4, <4>4, SortedParts
      <4>6. p \in H!Members(x) /\ q \in H!Members(y)
        BY <4>5
      <4>7. H!Before(s, p, q) <=> s[p] < s[q]
        <5>1. s[p] \in Nat /\ s[q] \in Nat /\ s[p] - s[q] < 2 * BigStride /\ s[q] - s[p] < 2 * BigStride
          BY <3>1, <4>6 DEF Close
        <5>2. QED BY <5>1, WrappedComparison
      <4>8. First(s, p, H!Members(x)) /\ First(s, q, H!Members(y))
        <5>1. s[p] \in Nat /\ s[q] \in Nat
          BY <3>1, <4>6 DEF Close
        <5>2. QED BY <3>4, <4>4, <4>5, <5>1 DEF Fits, First
      <4>9. CASE H!Before(s, p, q)
        <5>1. H!Merge(s, x, y) = H!Node(p, H!Merge(s, x.right, y), x.left)
          BY <3>2, <3>4, <4>4, <4>9, MergeIs
        <5>2. PICK m : m = H!Merge(s, x.right, y)
          OBVIOUS
        <5>3. Close(s, H!Members(x.right) \cup H!Members(y)) /\ \A z \in H!Members(x.right) : z \notin H!Members(y)
          BY <3>1, <4>5 DEF Close
        <5>4. Sorted(s, m) /\ H!Members(m) = H!Members(x.right) \cup H!Members(y)
          BY <3>1, <4>3, <4>5, <5>2, <5>3 DEF Merges
        <5>5. First(s, p, H!Members(y))
          <6>1. \A z \in H!Members(y) : s[z] \in Nat /\ s[p] \in Nat /\ s[q] \in Nat
            BY <3>1, <4>6 DEF Close
          <6>2. QED BY <4>7, <4>8, <4>9, <6>1 DEF First
        <5>6. \A z \in H!Members(y) : z \notin H!Members(x)
          BY <3>1
        <5>7. QED BY <3>1, <3>4, <4>4, <5>1, <5>2, <5>4, <5>5, <5>6, GraftSorted
      <4>10. CASE ~H!Before(s, p, q)
        <5>1. H!Merge(s, x, y) = H!Node(q, H!Merge(s, x, y.right), y.left)
          BY <3>2, <3>4, <4>4, <4>10, MergeIs
        <5>2. PICK m : m = H!Merge(s, x, y.right)
          OBVIOUS
        <5>3. Close(s, H!Members(x) \cup H!Members(y.right)) /\ \A z \in H!Members(x) : z \notin H!Members(y.right)
          BY <3>1, <4>5 DEF Close
        <5>4. Sorted(s, m) /\ H!Members(m) = H!Members(y.right) \cup H!Members(x)
          BY <3>1, <4>3, <4>5, <5>2, <5>3 DEF Merges
        <5>5. First(s, q, H!Members(x))
          <6>1. \A z \in H!Members(x) : s[z] \in Nat /\ s[p] \in Nat /\ s[q] \in Nat
            BY <3>1, <4>6 DEF Close
          <6>2. QED BY <4>7, <4>8, <4>10, <6>1 DEF First
        <5>6. /\ Sorted(s, H!Node(q, m, y.left))
              /\ H!Members(H!Node(q, m, y.left)) = H!Members(y) \cup H!Members(x)
          BY <3>1, <3>4, <4>4, <5>4, <5>5, GraftSorted
        <5>7. QED BY <5>1, <5>2, <5>6
      <4>11. QED BY <4>9, <4>10
    <3>5. QED BY <3>3, <3>4
  <2>2. n + 1 \in Nat
    OBVIOUS
  <2>3. QED BY <2>1, <2>2
<1> HIDE DEF A
<1>3. Levels + Levels + 1 \in A
  BY <1>1, <1>2, Reaches, LevelsIn
<1>4. QED
  <2>1. Levels \in 0..Levels /\ Levels + Levels < Levels + Levels + 1
    BY LevelsIn
  <2>2. \A x \in H!Heaps[Levels], y \in H!Heaps[Levels] : Merges(s, x, y)
    BY <1>3, <2>1 DEF A
  <2>3. QED BY <2>2, HeapsAre, Zenon

\* skew_heap_insert adds one process.
LEMMA InsertSorted ==
  ASSUME NEW s, NEW x, Sorted(s, x), NEW p \in Proc, p \notin H!Members(x),
         Close(s, H!Members(x) \cup {p})
  PROVE  Sorted(s, H!Insert(s, x, p)) /\ H!Members(H!Insert(s, x, p)) = H!Members(x) \cup {p}
<1>1. PICK y : y = H!Node(p, <<>>, <<>>)
  OBVIOUS
<1>2. Sorted(s, y) /\ H!Members(y) = {p}
  <2>1. NotTwice(p, <<>>, <<>>) /\ First(s, p, H!Members(<<>>))
    BY MembersAre DEF NotTwice, First
  <2>2. QED BY <1>1, <2>1, SortedEmpty, SortedNode, MembersAre
<1>3. Merges(s, x, y)
  BY <1>2, SortedIn, MergeSorted
<1>4. QED BY <1>1, <1>2, <1>3 DEF Merges, H!Insert

\* the current process, if it is not the idle one
Running(c) == {p \in Proc : p = c}

\* the strides of Q lie within MaxGap
Near(s, Q) == \A p \in Q, q \in Q : s[p] - s[q] <= MaxGap

PolicyTypes == current \in Proc \cup {idleproc} /\ stride \in [Proc -> Nat] /\ priority \in [Proc -> Nat]

PolicyInv ==
  /\ PolicyTypes /\ Sorted(stride, pool) /\ current \notin H!Members(pool)
  /\ Near(stride, H!Members(pool) \cup Running(current))

\* BIG_STRIDE / priority lies between 0 and BIG_STRIDE.
LEMMA PassBound ==
  ASSUME PolicyTypes, NEW p \in Proc
  PROVE  H!Pass(p) \in 0..BigStride /\ H!Abstract!Pass(p) = H!Pass(p)
<1>1. H!Abstract!Pass(p) = H!Pass(p)
  BY DEF H!Pass, H!Abstract!Pass
<1>2. PICK n \in Nat, b \in Nat : n = priority[p] /\ b = BigStride
  BY StrideAssumption DEF PolicyTypes, StrideAssumption
<1>3. CASE n = 0
  BY <1>1, <1>2, <1>3 DEF H!Pass
<1>4. CASE n # 0
  <2>1. PICK d \in Int : d = b \div n /\ n * d <= b
    BY <1>2, <1>4
  <2>2. d >= 0
    BY <1>2, <1>4, <2>1
  <2>3. d <= n * d
    BY <1>2, <1>4, <2>1, <2>2
  <2>4. d \in 0..b
    BY <1>2, <2>1, <2>2, <2>3
  <2>5. QED BY <1>1, <1>2, <1>4, <2>1, <2>4 DEF H!Pass
<1>5. QED BY <1>3, <1>4

\* Processes that lie within MaxGap compare.
LEMMA NearClose ==
  ASSUME MaxGap < 2 * BigStride, NEW s \in [Proc -> Nat], NEW Q \in SUBSET Proc, Near(s, Q)
  PROVE  Close(s, Q)
<1>1. PICK b \in Nat, g \in Nat : b = BigStride /\ g = MaxGap /\ g < 2 * b
  BY StrideAssumption DEF StrideAssumption
<1>2. ASSUME NEW p \in Q, NEW q \in Q PROVE s[p] \in Nat /\ s[p] - s[q] < 2 * b
  <2>1. s[p] \in Nat /\ s[q] \in Nat /\ s[p] - s[q] <= g
    BY <1>1 DEF Near
  <2>2. QED BY <1>1, <2>1
<1>3. QED BY <1>1, <1>2 DEF Close

\* What a choice from the heap h leaves.
LEMMA PickSorted ==
  ASSUME PolicyTypes, MaxGap < 2 * BigStride, NEW h, Sorted(stride, h),
         Near(stride, H!Members(h)), H!Pick(h), priority' = priority
  PROVE  PolicyInv' /\ H!Abstract!Pick(H!Members(h))
<1>0. H!Members(pool)' = H!Members(pool')
  BY Zenon DEF H!Members
<1>1. CASE h = <<>>
  <2>1. current' = idleproc /\ pool' = <<>> /\ stride' = stride /\ H!Members(h) = {} /\ H!Members(pool') = {}
    BY <1>1, MembersAre DEF H!Pick
  <2>2. PolicyTypes' /\ Sorted(stride', pool') /\ current' \notin H!Members(pool')
    BY <2>1, SortedEmpty DEF PolicyTypes
  <2>3. Running(current') = {}
    BY <2>1, StrideAssumption DEF StrideAssumption, Running
  <2>4. Near(stride', H!Members(pool') \cup Running(current'))
    BY <2>1, <2>3 DEF Near
  <2>5. H!Abstract!Pick(H!Members(h))
    BY <1>0, <2>1 DEF H!Abstract!Pick
  <2>6. QED BY <1>0, <2>2, <2>4, <2>5 DEF PolicyInv
<1>2. CASE h # <<>>
  <2>1. PICK p, l, r, k : p = h.proc /\ l = h.left /\ r = h.right /\ k = H!Pass(p)
    OBVIOUS
  <2>2. /\ stride[p] + k <= MaxStride /\ current' = p /\ pool' = H!Merge(stride, l, r)
        /\ stride' = [stride EXCEPT ![p] = @ + k]
    BY <1>2, <2>1 DEF H!Pick
  <2>3. /\ p \in Proc /\ Sorted(stride, l) /\ Sorted(stride, r) /\ NotTwice(p, l, r)
        /\ First(stride, p, H!Members(l)) /\ First(stride, p, H!Members(r))
        /\ H!Members(h) = {p} \cup H!Members(l) \cup H!Members(r) /\ H!Members(h) \subseteq Proc
    BY <1>2, <2>1, SortedParts, SortedIn DEF Fits
  <2>4. k \in Nat /\ k <= BigStride /\ k = H!Abstract!Pass(p)
    BY <2>1, <2>3, PassBound, StrideAssumption DEF StrideAssumption
  <2>5. PICK m : m = H!Merge(stride, l, r)
    OBVIOUS
  <2>6. Sorted(stride, m) /\ H!Members(m) = H!Members(l) \cup H!Members(r)
    <3>1. Close(stride, H!Members(h))
      BY <2>3, NearClose DEF PolicyTypes
    <3>2. Close(stride, H!Members(l) \cup H!Members(r))
      BY <2>3, <3>1 DEF Close
    <3>3. Merges(stride, l, r)
      BY <2>3, SortedIn, MergeSorted
    <3>4. QED BY <2>3, <2>5, <3>2, <3>3 DEF Merges, NotTwice
  <2>7. p \notin H!Members(m) /\ H!Members(m) \subseteq H!Members(h) /\ H!Members(h) \ {p} = H!Members(m)
    BY <2>3, <2>6 DEF NotTwice
  <2>8. stride' \in [Proc -> Nat] /\ \A q \in Proc : stride'[q] = IF q = p THEN stride[p] + k ELSE stride[q]
    BY <2>2, <2>3, <2>4 DEF PolicyTypes
  <2>9. Sorted(stride', m)
    BY <2>3, <2>6, <2>7, <2>8, SortedSame
  <2>10. \A q \in H!Members(h) : stride[p] <= stride[q]
    <3>1. stride[p] \in Nat
      BY <2>3 DEF PolicyTypes
    <3>2. QED BY <2>3, <3>1 DEF First
  <2>11. Near(stride', H!Members(h))
    <3>1. PICK b \in Nat, g \in Nat : b = BigStride /\ g = MaxGap /\ b <= g
      BY StrideAssumption DEF StrideAssumption
    <3>2. ASSUME NEW u \in H!Members(h), NEW v \in H!Members(h) PROVE stride'[u] - stride'[v] <= g
      <4>1. /\ stride[u] \in Nat /\ stride[v] \in Nat /\ stride[p] \in Nat /\ stride[u] - stride[v] <= g
            /\ stride[p] <= stride[u] /\ stride[p] <= stride[v] /\ k \in Nat /\ k <= b
        BY <2>3, <2>4, <2>10, <3>1 DEF PolicyTypes, Near
      <4>2. /\ stride'[u] = IF u = p THEN stride[p] + k ELSE stride[u]
            /\ stride'[v] = IF v = p THEN stride[p] + k ELSE stride[v]
        BY <2>3, <2>8
      <4>3. QED BY <3>1, <4>1, <4>2
    <3>3. QED BY <3>1, <3>2 DEF Near
  <2>12. Near(stride', H!Members(m) \cup Running(p))
    BY <2>3, <2>7, <2>11 DEF Near, Running
  <2>13. PolicyInv'
    BY <1>0, <2>2, <2>3, <2>5, <2>7, <2>8, <2>9, <2>12 DEF PolicyInv, PolicyTypes
  <2>14. p \in H!Abstract!Least(H!Members(h))
    BY <2>3, <2>10 DEF H!Abstract!Least
  <2>15. H!Abstract!Pick(H!Members(h))
    BY <1>0, <2>2, <2>4, <2>5, <2>7, <2>14 DEF H!Abstract!Pick
  <2>16. QED BY <2>13, <2>15
<1>3. QED BY <1>1, <1>2

\* What the heap and the policy mean by the processes that compete.
LEMMA ActiveIs ==
  ASSUME PolicyInv
  PROVE  /\ H!Members(pool) \subseteq Proc
         /\ H!Active = H!Members(pool) \cup Running(current)
         /\ H!Abstract!Active = H!Members(pool) \cup Running(current)
<1>1. H!Members(pool) \subseteq Proc
  BY SortedIn DEF PolicyInv
<1>2. Running(current) = {current} \ {idleproc}
  BY StrideAssumption DEF StrideAssumption, Running, PolicyInv, PolicyTypes
<1>3. QED BY <1>1, <1>2 DEF H!Active, H!Abstract!Active, Running

\* schedule, when the current process goes back into the heap.
LEMMA ReschedRefines ==
  ASSUME PolicyInv, MaxGap < 2 * BigStride, H!Resched
  PROVE  PolicyInv' /\ H!Abstract!Resched
<1>1. PICK Q : Q = H!Members(pool) \cup {current}
  OBVIOUS
<1>2. /\ current # idleproc /\ current \in Proc /\ PolicyTypes /\ Sorted(stride, pool)
      /\ current \notin H!Members(pool) /\ H!Members(pool) \subseteq Proc /\ priority' = priority
      /\ stride \in [Proc -> Nat]
  BY ActiveIs DEF PolicyInv, PolicyTypes, H!Resched
<1>3. Near(stride, Q) /\ Q \in SUBSET Proc
  BY <1>1, <1>2 DEF PolicyInv, Running, Near
<1>4. PICK h : h = H!Insert(stride, pool, current)
  OBVIOUS
<1>5. Sorted(stride, h) /\ H!Members(h) = Q
  <2>1. Close(stride, Q)
    BY <1>2, <1>3, NearClose
  <2>2. QED BY <1>1, <1>2, <1>4, <2>1, InsertSorted
<1>6. H!Pick(h)
  BY <1>4 DEF H!Resched
<1>7. PolicyInv' /\ H!Abstract!Pick(Q)
  BY <1>2, <1>3, <1>5, <1>6, PickSorted
<1>8. QED BY <1>1, <1>2, <1>7 DEF H!Abstract!Resched

\* schedule, when it does not.
LEMMA LeaveRefines ==
  ASSUME PolicyInv, MaxGap < 2 * BigStride, H!Leave
  PROVE  PolicyInv' /\ H!Abstract!Leave
<1>1. PolicyTypes /\ Sorted(stride, pool) /\ Near(stride, H!Members(pool))
  BY DEF PolicyInv, Near
<1>2. H!Pick(pool) /\ priority' = priority
  BY DEF H!Leave
<1>3. PolicyInv' /\ H!Abstract!Pick(H!Members(pool))
  BY <1>1, <1>2, PickSorted
<1>4. QED BY <1>2, <1>3 DEF H!Abstract!Leave

\* The heap after a process is woken up: u are the strides then.
LEMMA JoinSorted ==
  ASSUME PolicyInv, MaxGap < 2 * BigStride, NEW p \in Proc, p \notin H!Active,
         NEW u \in [Proc -> Nat], \A q \in Proc : q # p => u[q] = stride[q],
         H!Near(p, u[p]), pool' = H!Insert(u, pool, p), stride' = u, current' = current,
         priority' \in [Proc -> Nat]
  PROVE  PolicyInv' /\ H!Members(pool)' = H!Members(pool) \cup {p}
<1>0. H!Members(pool)' = H!Members(pool')
  BY Zenon DEF H!Members
<1>1. PICK Q : Q = H!Members(pool) \cup Running(current)
  OBVIOUS
<1>2. /\ p \notin Q /\ Q \subseteq Proc /\ H!Members(pool) \subseteq Q /\ Near(stride, Q)
      /\ \A q \in Q : u[p] - stride[q] \in -MaxGap..MaxGap
  BY <1>1, ActiveIs DEF PolicyInv, H!Near, Running
<1>3. Near(u, Q \cup {p})
  <2>1. PICK g \in Nat : g = MaxGap
    BY StrideAssumption DEF StrideAssumption
  <2>2. ASSUME NEW a \in Q \cup {p}, NEW b \in Q \cup {p} PROVE u[a] - u[b] <= g
    <3>1. u[a] \in Nat /\ u[b] \in Nat /\ u[p] \in Nat
      BY <1>2
    <3>2. CASE a = p /\ b = p
      BY <2>1, <3>1, <3>2
    <3>3. CASE a = p /\ b # p
      <4>1. b \in Q /\ u[b] = stride[b] /\ u[p] - stride[b] \in -g..g
        BY <1>2, <2>1, <3>3
      <4>2. QED BY <3>1, <3>3, <4>1
    <3>4. CASE a # p /\ b = p
      <4>1. a \in Q /\ u[a] = stride[a] /\ u[p] - stride[a] \in -g..g
        BY <1>2, <2>1, <3>4
      <4>2. QED BY <2>1, <3>1, <3>4, <4>1
    <3>5. CASE a # p /\ b # p
      <4>1. a \in Q /\ b \in Q /\ u[a] = stride[a] /\ u[b] = stride[b]
        BY <1>2, <3>5
      <4>2. QED BY <1>2, <2>1, <4>1 DEF Near
    <3>6. QED BY <3>2, <3>3, <3>4, <3>5
  <2>3. QED BY <2>1, <2>2 DEF Near
<1>4. Sorted(u, pool)
  <2>1. \A q \in H!Members(pool) : u[q] = stride[q]
    BY <1>2
  <2>2. QED BY <2>1, SortedSame DEF PolicyInv
<1>5. Sorted(u, pool') /\ H!Members(pool') = H!Members(pool) \cup {p}
  <2>1. Close(u, Q \cup {p})
    BY <1>2, <1>3, NearClose
  <2>2. Close(u, H!Members(pool) \cup {p}) /\ p \notin H!Members(pool)
    BY <1>2, <2>1 DEF Close
  <2>3. QED BY <1>4, <2>2, InsertSorted
<1>6. current # p
  BY ActiveIs DEF Running
<1>7. PolicyTypes' /\ current' \notin H!Members(pool')
  BY <1>5, <1>6 DEF PolicyInv, PolicyTypes
<1>8. Near(stride', H!Members(pool') \cup Running(current'))
  BY <1>1, <1>3, <1>5 DEF Near
<1>9. QED BY <1>0, <1>5, <1>7, <1>8 DEF PolicyInv

\* wakeup_proc of a process that slept.
LEMMA WakeRefines ==
  ASSUME PolicyInv, MaxGap < 2 * BigStride, NEW p \in Proc, H!Wake(p)
  PROVE  PolicyInv' /\ H!Abstract!Wake(p)
<1>1. /\ p \notin H!Active /\ H!Near(p, stride[p]) /\ pool' = H!Insert(stride, pool, p)
      /\ current' = current /\ stride' = stride /\ priority' = priority
  BY DEF H!Wake
<1>2. stride \in [Proc -> Nat] /\ priority \in [Proc -> Nat]
  BY DEF PolicyInv, PolicyTypes
<1>3. PolicyInv' /\ H!Members(pool)' = H!Members(pool) \cup {p}
  BY <1>1, <1>2, JoinSorted
<1>4. H!Active = H!Abstract!Active
  BY ActiveIs
<1>5. QED BY <1>1, <1>3, <1>4 DEF H!Abstract!Wake, H!Near, H!Abstract!Near

\* wakeup_proc of a new process.
LEMMA ForkRefines ==
  ASSUME PolicyInv, MaxGap < 2 * BigStride, NEW p \in Proc, H!Fork(p)
  PROVE  PolicyInv' /\ H!Abstract!Fork(p)
<1>1. /\ p \notin H!Active /\ H!Near(p, 0) /\ stride' = [stride EXCEPT ![p] = 0]
      /\ pool' = H!Insert(stride', pool, p)
      /\ current' = current /\ priority' = [priority EXCEPT ![p] = 0]
  BY DEF H!Fork
<1>2. PICK u : u = stride'
  OBVIOUS
<1>3. u \in [Proc -> Nat] /\ u[p] = 0 /\ \A q \in Proc : q # p => u[q] = stride[q]
  BY <1>1, <1>2 DEF PolicyInv, PolicyTypes
<1>4. priority' \in [Proc -> Nat]
  BY <1>1 DEF PolicyInv, PolicyTypes
<1>5. PolicyInv' /\ H!Members(pool)' = H!Members(pool) \cup {p}
  <2>1. H!Near(p, u[p]) /\ pool' = H!Insert(u, pool, p)
    BY <1>1, <1>2, <1>3
  <2>2. QED BY <1>1, <1>2, <1>3, <1>4, <2>1, JoinSorted
<1>6. H!Active = H!Abstract!Active
  BY ActiveIs
<1>7. QED BY <1>1, <1>5, <1>6 DEF H!Abstract!Fork, H!Near, H!Abstract!Near

\* lab6_set_priority does not touch the heap.
LEMMA SetPriorityRefines ==
  ASSUME PolicyInv, NEW n \in Priorities, H!SetPriority(n)
  PROVE  PolicyInv' /\ H!Abstract!SetPriority(n)
<1>0. H!Members(pool)' = H!Members(pool')
  BY Zenon DEF H!Members
<1>1. /\ current # idleproc /\ priority' = [priority EXCEPT ![current] = IF n = 0 THEN 1 ELSE n]
      /\ pool' = pool /\ current' = current /\ stride' = stride
  BY DEF H!SetPriority
<1>2. n \in Nat
  BY StrideAssumption DEF StrideAssumption
<1>3. PolicyTypes'
  BY <1>1, <1>2 DEF PolicyInv, PolicyTypes
<1>4. PolicyInv'
  BY <1>1, <1>3 DEF PolicyInv
<1>5. QED BY <1>0, <1>1, <1>4 DEF H!Abstract!SetPriority

\* PolicyInv is inductive, and each step is one of the policy.
LEMMA PolicyStep ==
  ASSUME PolicyInv, MaxGap < 2 * BigStride, H!Next
  PROVE  PolicyInv' /\ (H!Abstract!Next \/ UNCHANGED policy)
<1>1. CASE H!Resched
  BY <1>1, ReschedRefines DEF H!Abstract!Next
<1>2. CASE H!Leave
  BY <1>2, LeaveRefines DEF H!Abstract!Next
<1>3. CASE H!IdleSpins
  BY <1>3 DEF H!IdleSpins, H!vars, policy, PolicyInv, PolicyTypes
<1>4. ASSUME NEW p \in Proc, H!Wake(p) PROVE PolicyInv' /\ H!Abstract!Next
  BY <1>4, WakeRefines DEF H!Abstract!Next
<1>5. ASSUME NEW p \in Proc, H!Fork(p) PROVE PolicyInv' /\ H!Abstract!Next
  BY <1>5, ForkRefines DEF H!Abstract!Next
<1>6. ASSUME NEW n \in Priorities, H!SetPriority(n) PROVE PolicyInv' /\ H!Abstract!Next
  BY <1>6, SetPriorityRefines DEF H!Abstract!Next
<1>7. QED BY <1>1, <1>2, <1>3, <1>4, <1>5, <1>6 DEF H!Next

\* No process competes at first.
LEMMA PolicyInit == PartsInit => PolicyInv /\ H!Abstract!Init
<1> SUFFICES ASSUME PartsInit PROVE PolicyInv /\ H!Abstract!Init
  OBVIOUS
<1>1. /\ pool = <<>> /\ current = idleproc /\ stride = [p \in Proc |-> 0]
      /\ priority = [p \in Proc |-> 0]
  BY DEF PartsInit, H!Init
<1>2. H!Members(pool) = {} /\ Sorted(stride, pool)
  BY <1>1, MembersAre, SortedEmpty
<1>3. Running(current) = {}
  BY <1>1, StrideAssumption DEF StrideAssumption, Running
<1>4. PolicyInv
  BY <1>1, <1>2, <1>3 DEF PolicyInv, PolicyTypes, Near
<1>5. QED BY <1>1, <1>2, <1>4 DEF H!Abstract!Init

\* The invariant holds of the sum of the parts.
LEMMA PolicyInvHolds ==
  ASSUME MaxGap < 2 * BigStride
  PROVE  PartsSpec => []PolicyInv
<1>1. PolicyInv /\ [PartsNext]_partsVars => PolicyInv'
  <2> SUFFICES ASSUME PolicyInv, [PartsNext]_partsVars PROVE PolicyInv'
    OBVIOUS
  <2>1. CASE H!Next
    BY <2>1, PolicyStep
  <2>2. CASE UNCHANGED policy
    BY <2>2 DEF PolicyInv, PolicyTypes, policy
  <2>3. QED BY <2>1, <2>2 DEF PartsNext, partsVars, Numbers, policy
<1>2. PartsInit => PolicyInv
  BY PolicyInit
<1>3. QED BY <1>1, <1>2, PTL DEF PartsSpec

\* The skew heap, ordered by strides of 32 bits that change between the calls and are
\* compared by the sign of their difference, gives a process with the least of the
\* strides that never wrap, as long as those that compete lie less than 2 BIG_STRIDE
\* apart.
THEOREM StrideRefines ==
  ASSUME MaxGap < 2 * BigStride
  PROVE  PartsSpec => StrideImplements
<1>1. PolicyInv /\ [PartsNext]_partsVars => [part = "policy" => H!Abstract!Next]_policy
  <2> SUFFICES ASSUME PolicyInv, [PartsNext]_partsVars
               PROVE  H!Abstract!Next \/ UNCHANGED policy
    OBVIOUS
  <2>1. CASE H!Next
    BY <2>1, PolicyStep
  <2>2. QED BY <2>1 DEF PartsNext, partsVars, Numbers
<1>2. PartsInit => H!Abstract!Init
  BY PolicyInit
<1>3. QED BY <1>1, <1>2, PolicyInvHolds, PTL DEF PartsSpec, StrideImplements

\* The strides of the processes in the heap, and of the one that runs, stay within MaxGap
\* of each other (stride_pick_next), for any number of processes and any priorities,
\* as long as the heap gives the least.
THEOREM SpreadCorrect ==
  ASSUME MaxGap < 2 * BigStride
  PROVE  PartsSpec => []H!Spread
<1>1. PolicyInv => H!Spread
  <2> SUFFICES ASSUME PolicyInv PROVE H!Abstract!Spread
    BY DEF H!Spread
  <2>1. QED BY ActiveIs DEF PolicyInv, Near, H!Abstract!Spread
<1>2. QED BY <1>1, PolicyInvHolds, PTL

\* what is inductive about Stride
AbstractInv == H!Abstract!TypeOK /\ H!Abstract!Spread

\* What schedule leaves when it picks from Q, a set of processes that lie within
\* MaxGap of each other.
LEMMA AbstractPick ==
  ASSUME H!Abstract!TypeOK, NEW Q \in SUBSET Proc, H!Abstract!Pick(Q),
         \A p, q \in Q : stride[p] - stride[q] <= MaxGap
  PROVE  /\ H!Members(pool)' \subseteq Proc
         /\ current' \in Proc \cup {idleproc}
         /\ stride' \in [Proc -> Nat]
         /\ current' \notin H!Members(pool)'
         /\ \A p, q \in (H!Members(pool)' \cup {r \in Proc : r = current'}) :
              stride'[p] - stride'[q] <= MaxGap
<1> USE StrideAssumption DEF StrideAssumption
<1>1. CASE Q = {} /\ current' = idleproc /\ H!Members(pool)' = {} /\ UNCHANGED stride
  BY <1>1 DEF H!Abstract!TypeOK
<1>2. ASSUME NEW n \in H!Abstract!Least(Q), current' = n, H!Members(pool)' = Q \ {n},
             stride' = [stride EXCEPT ![n] = @ + H!Abstract!Pass(n)]
      PROVE  /\ H!Members(pool)' \subseteq Proc
             /\ current' \in Proc \cup {idleproc}
             /\ stride' \in [Proc -> Nat]
             /\ current' \notin H!Members(pool)'
             /\ \A p, q \in (H!Members(pool)' \cup {r \in Proc : r = current'}) :
                  stride'[p] - stride'[q] <= MaxGap
  <2>1. n \in Q /\ \A q \in Q : stride[n] <= stride[q]
    BY DEF H!Abstract!Least
  <2>2. H!Abstract!Pass(n) \in 0..BigStride
    BY <2>1, PassBound DEF H!Abstract!TypeOK, PolicyTypes
  <2>3. stride' \in [Proc -> Nat]
    BY <1>2, <2>1, <2>2 DEF H!Abstract!TypeOK
  <2>4. ASSUME NEW p \in Q, NEW q \in Q
        PROVE  stride'[p] - stride'[q] <= MaxGap
    <3>1. /\ stride[p] \in Nat /\ stride[q] \in Nat /\ stride[n] \in Nat
          /\ stride[p] - stride[q] <= MaxGap
          /\ stride[n] <= stride[q]
      BY <2>1 DEF H!Abstract!TypeOK
    <3>2. /\ stride'[p] = IF p = n THEN stride[n] + H!Abstract!Pass(n) ELSE stride[p]
          /\ stride'[q] = IF q = n THEN stride[n] + H!Abstract!Pass(n) ELSE stride[q]
      BY <1>2, <2>1 DEF H!Abstract!TypeOK
    <3> QED BY <3>1, <3>2, <2>2
  <2> QED BY <1>2, <2>1, <2>3, <2>4
<1> QED BY <1>1, <1>2 DEF H!Abstract!Pick

\* AbstractInv is inductive.
LEMMA AbstractNext == AbstractInv /\ [H!Abstract!Next]_(H!Abstract!vars) => AbstractInv'
<1> SUFFICES ASSUME AbstractInv, [H!Abstract!Next]_(H!Abstract!vars) PROVE AbstractInv'
  OBVIOUS
<1> USE StrideAssumption DEF StrideAssumption, AbstractInv
<1>1. CASE H!Abstract!Resched
  <2>1. H!Members(pool) \cup {current} \in SUBSET Proc /\ H!Members(pool) \cup {current} = H!Abstract!Active
    BY <1>1 DEF H!Abstract!Resched, H!Abstract!TypeOK, H!Abstract!Active
  <2>2. H!Abstract!Pick(H!Members(pool) \cup {current}) /\ priority' = priority
    BY <1>1 DEF H!Abstract!Resched
  <2> QED BY <2>1, <2>2, AbstractPick DEF H!Abstract!TypeOK, H!Abstract!Spread, H!Abstract!Active
<1>2. CASE H!Abstract!Leave
  <2>1. H!Members(pool) \in SUBSET Proc /\ H!Members(pool) \subseteq H!Abstract!Active
    BY DEF H!Abstract!TypeOK, H!Abstract!Active
  <2>2. H!Abstract!Pick(H!Members(pool)) /\ priority' = priority
    BY <1>2 DEF H!Abstract!Leave
  <2> QED BY <2>1, <2>2, AbstractPick DEF H!Abstract!TypeOK, H!Abstract!Spread, H!Abstract!Active
<1>3. ASSUME NEW p \in Proc, H!Abstract!Wake(p)
      PROVE  AbstractInv'
  <2>1. H!Abstract!Active' = H!Abstract!Active \cup {p}
    BY <1>3 DEF H!Abstract!Wake, H!Abstract!Active
  <2>2. \A q \in H!Abstract!Active : stride[p] - stride[q] \in -MaxGap..MaxGap
    BY <1>3 DEF H!Abstract!Wake, H!Abstract!Near
  <2>3. \A q \in H!Abstract!Active \cup {p} : stride[q] \in Nat
    BY DEF H!Abstract!TypeOK, H!Abstract!Active
  <2>4. p # current
    BY <1>3 DEF H!Abstract!Wake, H!Abstract!Active
  <2> QED BY <1>3, <2>1, <2>2, <2>3, <2>4 DEF H!Abstract!Wake, H!Abstract!TypeOK, H!Abstract!Spread
<1>4. ASSUME NEW p \in Proc, H!Abstract!Fork(p)
      PROVE  AbstractInv'
  <2>1. H!Abstract!Active' = H!Abstract!Active \cup {p}
    BY <1>4 DEF H!Abstract!Fork, H!Abstract!Active
  <2>2. \A q \in H!Abstract!Active : 0 - stride[q] \in -MaxGap..MaxGap
    BY <1>4 DEF H!Abstract!Fork, H!Abstract!Near
  <2>3. \A q \in H!Abstract!Active \cup {p} : stride[q] \in Nat
    BY DEF H!Abstract!TypeOK, H!Abstract!Active
  <2>4. p \notin H!Abstract!Active /\ p # current
    BY <1>4 DEF H!Abstract!Fork, H!Abstract!Active
  <2>5. \A q \in H!Abstract!Active \cup {p} : stride'[q] = IF q = p THEN 0 ELSE stride[q]
    BY <1>4 DEF H!Abstract!Fork, H!Abstract!TypeOK, H!Abstract!Active
  <2> QED BY <1>4, <2>1, <2>2, <2>3, <2>4, <2>5 DEF H!Abstract!Fork, H!Abstract!TypeOK, H!Abstract!Spread
<1>5. ASSUME NEW n \in Priorities, H!Abstract!SetPriority(n)
      PROVE  AbstractInv'
  BY <1>5 DEF H!Abstract!SetPriority, H!Abstract!TypeOK, H!Abstract!Spread, H!Abstract!Active
<1>6. CASE UNCHANGED H!Abstract!vars
  BY <1>6 DEF H!Abstract!vars, H!Abstract!TypeOK, H!Abstract!Spread, H!Abstract!Active
<1> QED BY <1>1, <1>2, <1>3, <1>4, <1>5, <1>6 DEF H!Abstract!Next

\* The same of the policy that the heap implements, stride_pick_next with strides that never
\* wrap, whatever MaxGap is.
THEOREM AbstractSpread == H!Abstract!Spec => []H!Abstract!Spread
<1>1. H!Abstract!Init => AbstractInv
  BY StrideAssumption DEF StrideAssumption, H!Abstract!Init, AbstractInv, H!Abstract!TypeOK, H!Abstract!Spread, H!Abstract!Active
<1>2. AbstractInv => H!Abstract!Spread
  BY DEF AbstractInv
<1> QED BY <1>1, <1>2, AbstractNext, PTL DEF H!Abstract!Spec
==============================================================================
