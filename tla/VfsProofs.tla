------------------------------ MODULE VfsProofs ------------------------------
(* The counts of the inodes, the write-back of closed files and the            *)
(* refinement of OpenFiles, for any processes, descriptors, directories and    *)
(* files.  An operator of the inode cache changes the counts of one inode by    *)
(* known amounts and keeps it Sound; a call changes the set of descriptors that  *)
(* lead to an inode by as much.                                                  *)
EXTENDS Vfs, FiniteSetTheorems, WellFoundedInduction, TLAPS

Inode == [ref : Nat, opens : Nat, mem : Value, disk : Value, dirty : BOOLEAN]
Table == [Proc -> [Fd -> Desc \cup {NONE}]]

Types ==
  /\ state \in [Proc -> {"unborn", "alive", "gone"}]
  /\ file \in Table
  /\ pwd \in [Proc -> Dir \cup {NONE}]
  /\ inode \in [Node -> Inode]
  /\ leaked \in [Node -> Nat]

\* who has not been forked has nothing, and who runs is somewhere
Born ==
  \A p \in Proc :
    /\ state[p] = "unborn" => pwd[p] = NONE /\ \A fd \in Fd : file[p][fd] = NONE
    /\ state[p] = "alive" => pwd[p] \in Dir

\* An inode that is neither open nor in memory is not dirty, and one that is in
\* memory and not dirty is the one on the disk.
Sound(i) ==
  /\ i.opens = 0 \/ i.ref = 0 => ~i.dirty
  /\ i.ref > 0 /\ ~i.dirty => i.mem = i.disk

IInv == Types /\ Born /\ CountsExact /\ \A n \in Node : Sound(inode[n])

\* what the processes see of i
Seen(i) == IF i.ref > 0 THEN i.mem ELSE i.disk

\* j is i with r references and o opens more
Counted(i, j, r, o) == j \in Inode /\ Sound(j) /\ j.ref = i.ref + r /\ j.opens = i.opens + o

------------------------------------------------------------------------------
(* The inode cache. *)

LEMMA GotFacts ==
  ASSUME NEW i \in Inode, Sound(i)
  PROVE  Counted(i, Got(i), 1, 0) /\ Seen(Got(i)) = Seen(i)
<1>0. i.opens \in Nat
  BY DEF Inode
<1>1. i.ref \in Nat /\ i.ref + 1 \in Nat
  BY DEF Inode
<1>2. CASE i.ref = 0
  <2>1. Got(i) = [i EXCEPT !.ref = 1, !.mem = i.disk, !.dirty = FALSE]
    BY <1>2 DEF Got
  <2>2. ~i.dirty /\ i.disk \in Value
    BY <1>2 DEF Inode, Sound
  <2> Got(i) \in Inode
    <3>1. Got(i) = [ref |-> 1, opens |-> i.opens, mem |-> i.disk, disk |-> i.disk, dirty |-> FALSE]
      BY <2>1 DEF Inode
    <3>2. QED BY <1>0, <2>2, <3>1 DEF Inode
  <2>3. /\ Got(i).ref = 1 /\ Got(i).opens = i.opens /\ ~Got(i).dirty
        /\ Got(i).mem = i.disk /\ Got(i).disk = i.disk
    BY <2>1 DEF Inode
  <2>4. Sound(Got(i)) /\ Seen(Got(i)) = Seen(i)
    BY <1>2, <2>3 DEF Sound, Seen
  <2>5. QED BY <1>1, <1>2, <1>0, <2>2, <2>3, <2>4 DEF Counted
<1>3. CASE i.ref # 0
  <2>1. Got(i) = [i EXCEPT !.ref = i.ref + 1]
    BY <1>3 DEF Got
  <2>2. Got(i) \in Inode
    BY <1>1, <2>1 DEF Inode
  <2>3. QED BY <1>1, <1>3, <2>1, <2>2 DEF Inode, Sound, Counted, Seen
<1>4. QED BY <1>2, <1>3

LEMMA SyncedFacts ==
  ASSUME NEW i \in Inode, Sound(i)
  PROVE  /\ Counted(i, Synced(i), 0, 0) /\ Seen(Synced(i)) = Seen(i)
         /\ ~Synced(i).dirty /\ (i.ref > 0 => Synced(i).disk = i.mem)
<1>1. i.ref \in Nat /\ i.opens \in Nat
  BY DEF Inode
<1>2. CASE i.dirty
  <2>1. Synced(i) = [i EXCEPT !.dirty = FALSE, !.disk = i.mem]
    BY <1>2 DEF Synced
  <2>2. Synced(i) \in Inode
    BY <2>1 DEF Inode
  <2>3. QED BY <1>1, <1>2, <2>1, <2>2 DEF Inode, Sound, Counted, Seen
<1>3. CASE ~i.dirty
  BY <1>1, <1>3 DEF Sound, Counted, Synced
<1>4. QED BY <1>2, <1>3

LEMMA ChangedFacts ==
  ASSUME NEW i \in Inode, Sound(i), NEW v \in Value, i.opens > 0, i.ref > 0
  PROVE  Counted(i, Changed(i, v), 0, 0) /\ Seen(Changed(i, v)) = v
<1>1. i.ref \in Nat /\ i.opens \in Nat
  BY DEF Inode
<1>2. CASE i.mem = v
  BY <1>1, <1>2 DEF Sound, Counted, Seen, Changed
<1>3. CASE i.mem # v
  <2>1. Changed(i, v) = [i EXCEPT !.mem = v, !.dirty = TRUE]
    BY <1>3 DEF Changed
  <2>2. Changed(i, v) \in Inode
    BY <2>1 DEF Inode
  <2>3. QED BY <1>1, <2>1, <2>2 DEF Inode, Sound, Counted, Seen
<1>4. QED BY <1>2, <1>3

\* an inode whose counts were set, and not both to other sides of zero
With(i, r, o) == [i EXCEPT !.ref = r, !.opens = o]

LEMMA WithFacts ==
  ASSUME NEW i \in Inode, Sound(i), NEW r \in Nat, NEW o \in Nat,
         r = 0 <=> i.ref = 0, o = 0 => i.opens = 0
  PROVE  /\ With(i, r, o) \in Inode /\ Sound(With(i, r, o)) /\ Seen(With(i, r, o)) = Seen(i)
         /\ With(i, r, o).ref = r /\ With(i, r, o).opens = o
<1> DEFINE j == With(i, r, o)
<1>1. j \in Inode
  BY DEF Inode, With
<1>2. j.ref = r /\ j.opens = o /\ j.mem = i.mem /\ j.disk = i.disk /\ j.dirty = i.dirty
  BY DEF Inode, With
<1>3. i.ref \in Nat
  BY DEF Inode
<1>4. Sound(j) /\ Seen(j) = Seen(i)
  BY <1>2, <1>3 DEF Sound, Seen
<1>5. QED BY <1>1, <1>2, <1>4

LEMMA AnotherFacts ==
  ASSUME NEW i \in Inode, Sound(i), NEW k \in Nat, k > 0 => i.ref > 0
  PROVE  Counted(i, Another(i, k), k, k) /\ Seen(Another(i, k)) = Seen(i)
<1>1. i.ref + k \in Nat /\ i.opens + k \in Nat /\ i.ref \in Nat /\ i.opens \in Nat
  BY DEF Inode
<1>2. Another(i, k) = With(i, i.ref + k, i.opens + k)
  BY DEF Another, With
<1>3. (i.ref + k = 0 <=> i.ref = 0) /\ (i.opens + k = 0 => i.opens = 0)
  BY <1>1
<1>4. /\ Another(i, k) \in Inode /\ Sound(Another(i, k)) /\ Seen(Another(i, k)) = Seen(i)
      /\ Another(i, k).ref = i.ref + k /\ Another(i, k).opens = i.opens + k
  BY <1>1, <1>2, <1>3, WithFacts
<1>5. QED BY <1>4 DEF Counted

\* one reference more, as a fork gives it to its working directory
LEMMA HeldFacts ==
  ASSUME NEW i \in Inode, Sound(i), i.ref > 0
  PROVE  Counted(i, [i EXCEPT !.ref = @ + 1], 1, 0) /\ Seen([i EXCEPT !.ref = @ + 1]) = Seen(i)
<1>1. i.ref + 1 \in Nat /\ i.ref \in Nat /\ i.opens \in Nat
  BY DEF Inode
<1>2. [i EXCEPT !.ref = @ + 1] = With(i, i.ref + 1, i.opens)
  BY DEF Inode, With
<1> DEFINE j == [i EXCEPT !.ref = @ + 1]
<1>3. i.ref + 1 # 0 /\ i.ref # 0 /\ i.opens + 0 = i.opens
  BY <1>1
<1>4. /\ j \in Inode /\ Sound(j) /\ Seen(j) = Seen(i)
      /\ j.ref = i.ref + 1 /\ j.opens = i.opens
  BY <1>1, <1>2, <1>3, WithFacts
<1>5. QED BY <1>3, <1>4 DEF Counted

LEMMA RefDecFacts ==
  ASSUME NEW i \in Inode, Sound(i), NEW k \in Nat, k <= i.ref
  PROVE  Counted(i, RefDec(i, k), 0 - k, 0) /\ Seen(RefDec(i, k)) = Seen(i)
<1>0. i.ref \in Nat /\ i.opens \in Nat
  BY DEF Inode
<1>1. CASE k > 0 /\ i.ref = k
  <2> DEFINE s == Synced(i)
  <2>1. RefDec(i, k) = [s EXCEPT !.ref = 0]
    BY <1>1 DEF RefDec
  <2>2. s \in Inode /\ ~s.dirty /\ s.disk = i.mem /\ s.opens = i.opens
    BY <1>0, <1>1, SyncedFacts DEF Counted
  <2> HIDE DEF s
  <2>3. RefDec(i, k) \in Inode
    BY <2>1, <2>2 DEF Inode
  <2>4. /\ RefDec(i, k).ref = 0 /\ RefDec(i, k).opens = i.opens
        /\ ~RefDec(i, k).dirty /\ RefDec(i, k).disk = i.mem
    BY <2>1, <2>2 DEF Inode
  <2>5. QED BY <1>0, <1>1, <2>3, <2>4 DEF Sound, Counted, Seen
<1>2. CASE ~(k > 0 /\ i.ref = k)
  <2>1. RefDec(i, k) = With(i, i.ref - k, i.opens)
    BY <1>2 DEF RefDec, Inode, With
  <2>2. /\ i.ref - k \in Nat /\ (i.ref - k = 0 <=> i.ref = 0)
        /\ i.ref - k = i.ref + (0 - k) /\ i.opens + 0 = i.opens
    BY <1>0, <1>2
  <2>3. /\ RefDec(i, k) \in Inode /\ Sound(RefDec(i, k)) /\ Seen(RefDec(i, k)) = Seen(i)
        /\ RefDec(i, k).ref = i.ref - k /\ RefDec(i, k).opens = i.opens
    <3> DEFINE w == With(i, i.ref - k, i.opens)
    <3>1. w \in Inode /\ Sound(w) /\ Seen(w) = Seen(i) /\ w.ref = i.ref - k /\ w.opens = i.opens
      BY <1>0, <2>2, WithFacts
    <3>2. QED BY <2>1, <3>1
  <2>4. QED BY <2>2, <2>3 DEF Counted
<1>3. QED BY <1>1, <1>2

LEMMA OpenDecFacts ==
  ASSUME NEW i \in Inode, Sound(i), NEW k \in Nat, k <= i.opens, k <= i.ref
  PROVE  Counted(i, OpenDec(i, k), 0, 0 - k) /\ Seen(OpenDec(i, k)) = Seen(i)
<1>0. i.ref \in Nat /\ i.opens \in Nat
  BY DEF Inode
<1>1. CASE k > 0 /\ i.opens = k
  <2> DEFINE j == [i EXCEPT !.opens = 0]
  <2>1. OpenDec(i, k) = Synced(j)
    BY <1>1 DEF OpenDec
  <2>2. /\ j \in Inode /\ j.opens = 0 /\ j.ref = i.ref
        /\ j.mem = i.mem /\ j.disk = i.disk /\ j.dirty = i.dirty
    BY DEF Inode
  <2> HIDE DEF j
  <2>3. CASE j.dirty
    <3>1. Synced(j) = [j EXCEPT !.dirty = FALSE, !.disk = j.mem]
      BY <2>3 DEF Synced
    <3>2. Synced(j) \in Inode
      BY <2>2, <3>1 DEF Inode
    <3>3. QED BY <1>0, <1>1, <2>1, <2>2, <3>1, <3>2 DEF Inode, Sound, Counted, Seen
  <2>4. CASE ~j.dirty
    BY <1>0, <1>1, <2>1, <2>2, <2>4 DEF Sound, Counted, Seen, Synced
  <2>5. QED BY <2>3, <2>4
<1>2. CASE ~(k > 0 /\ i.opens = k)
  <2>1. OpenDec(i, k) = With(i, i.ref, i.opens - k)
    BY <1>2 DEF OpenDec, Inode, With
  <2>2. /\ i.opens - k \in Nat /\ (i.opens - k = 0 <=> i.opens = 0)
        /\ i.opens - k = i.opens + (0 - k) /\ i.ref + 0 = i.ref
    BY <1>0, <1>2
  <2>3. /\ OpenDec(i, k) \in Inode /\ Sound(OpenDec(i, k)) /\ Seen(OpenDec(i, k)) = Seen(i)
        /\ OpenDec(i, k).ref = i.ref /\ OpenDec(i, k).opens = i.opens - k
    BY <1>0, <2>1, <2>2, WithFacts
  <2>4. QED BY <2>2, <2>3 DEF Counted
<1>3. QED BY <1>1, <1>2

LEMMA ClosedFacts ==
  ASSUME NEW i \in Inode, Sound(i), NEW k \in Nat, k <= i.opens, k <= i.ref
  PROVE  Counted(i, Closed(i, k), 0 - k, 0 - k) /\ Seen(Closed(i, k)) = Seen(i)
<1>1. Counted(i, OpenDec(i, k), 0, 0 - k) /\ Seen(OpenDec(i, k)) = Seen(i)
  BY OpenDecFacts
<1>2. /\ OpenDec(i, k) \in Inode /\ Sound(OpenDec(i, k))
      /\ OpenDec(i, k).ref = i.ref /\ OpenDec(i, k).opens = i.opens - k
  BY <1>1 DEF Counted, Inode
<1>3. /\ Counted(OpenDec(i, k), Closed(i, k), 0 - k, 0)
      /\ Seen(Closed(i, k)) = Seen(OpenDec(i, k))
  BY <1>2, RefDecFacts DEF Closed
<1>4. QED BY <1>1, <1>2, <1>3 DEF Counted, Inode

LEMMA OpenedFacts ==
  ASSUME NEW i \in Inode, Sound(i), NEW empties \in BOOLEAN, Empty \in Value
  PROVE  /\ Counted(i, Opened(i, empties), 1, 1)
         /\ Seen(Opened(i, empties)) = IF empties THEN Empty ELSE Seen(i)
<1> DEFINE g == Got(i)
           o == [g EXCEPT !.opens = @ + 1]
<1>1. Counted(i, g, 1, 0) /\ Seen(g) = Seen(i)
  BY GotFacts
<1>2. g \in Inode /\ Sound(g) /\ g.ref = i.ref + 1 /\ g.opens = i.opens
  BY <1>1 DEF Counted, Inode
<1> HIDE DEF g
<1>3. Counted(i, o, 1, 1) /\ Seen(o) = Seen(g)
  <2>1. g.ref \in Nat /\ g.ref # 0 /\ i.opens + 1 \in Nat /\ i.ref \in Nat /\ i.opens \in Nat
    BY <1>2 DEF Inode
  <2>2. o = With(g, g.ref, i.opens + 1)
    BY <1>2 DEF Inode, With
  <2>3. (g.ref = 0 <=> g.ref = 0) /\ (i.opens + 1 = 0 => g.opens = 0)
    BY <2>1
  <2>4. o \in Inode /\ Sound(o) /\ o.ref = g.ref /\ o.opens = i.opens + 1 /\ Seen(o) = Seen(g)
    BY <1>2, <2>1, <2>2, <2>3, WithFacts
  <2>5. QED BY <1>2, <2>4 DEF Counted
<1>4. o \in Inode /\ Sound(o) /\ o.opens > 0 /\ o.ref > 0
  BY <1>3 DEF Counted, Inode
<1>5. Opened(i, empties) = IF empties THEN Changed(o, Empty) ELSE o
  BY DEF Opened, g
<1> HIDE DEF o
<1>6. Counted(o, Changed(o, Empty), 0, 0) /\ Seen(Changed(o, Empty)) = Empty
  BY <1>4, ChangedFacts
<1>7. QED BY <1>1, <1>3, <1>4, <1>5, <1>6 DEF Counted, Inode

------------------------------------------------------------------------------
(* The descriptors that lead to an inode, of a table f. *)

Led(f, n) == {x \in Proc \X Fd : f[x[1]][x[2]] # NONE /\ f[x[1]][x[2]].node = n}
At(f, p, S, n) == {fd \in S : f[p][fd] # NONE /\ f[p][fd].node = n}

\* descriptors in S of p are closed; fd of p becomes d; c gets those of p
Cleared(f, p, S) == [f EXCEPT ![p] = [fd \in Fd |-> IF fd \in S THEN NONE ELSE f[p][fd]]]
Given(f, p, fd, d) == [f EXCEPT ![p][fd] = d]
Copied(f, p, c) == [f EXCEPT ![c] = f[p]]

LEMMA LedFinite ==
  ASSUME NEW f, NEW n
  PROVE  IsFiniteSet(Led(f, n)) /\ Cardinality(Led(f, n)) \in Nat
<1>1. IsFiniteSet(Proc \X Fd)
  BY FS_Product, VfsAssumption DEF VfsAssumption
<1>2. Led(f, n) \in SUBSET (Proc \X Fd)
  BY DEF Led
<1>3. QED BY <1>1, <1>2, FS_Subset, FS_CardinalityType

LEMMA AtFinite ==
  ASSUME NEW f, NEW n, NEW p, NEW S \in SUBSET Fd
  PROVE  IsFiniteSet(At(f, p, S, n)) /\ Cardinality(At(f, p, S, n)) \in Nat
<1>1. IsFiniteSet(Fd) /\ At(f, p, S, n) \in SUBSET Fd
  BY VfsAssumption DEF VfsAssumption, At
<1>2. QED BY <1>1, FS_Subset, FS_CardinalityType

LEMMA Pairs ==
  ASSUME NEW q, NEW T, IsFiniteSet(T)
  PROVE  IsFiniteSet({q} \X T) /\ Cardinality({q} \X T) = Cardinality(T) /\ Cardinality(T) \in Nat
<1>1. IsFiniteSet({q}) /\ Cardinality({q}) = 1
  BY FS_Singleton
<1>2. IsFiniteSet({q} \X T) /\ Cardinality({q} \X T) = Cardinality({q}) * Cardinality(T)
  BY <1>1, FS_Product
<1>3. QED BY <1>1, <1>2, FS_CardinalityType

\* descriptors in S of p are closed
LEMMA Drops ==
  ASSUME NEW f \in Table, NEW p \in Proc, NEW S \in SUBSET Fd, NEW n
  PROVE  /\ Cardinality(Led(Cleared(f, p, S), n)) = Cardinality(Led(f, n)) - Cardinality(At(f, p, S, n))
         /\ Cleared(f, p, S) \in Table
<1> DEFINE g == Cleared(f, p, S)
<1>0. g = [f EXCEPT ![p] = [fd \in Fd |-> IF fd \in S THEN NONE ELSE f[p][fd]]]
  BY DEF Cleared
<1> HIDE DEF g
<1>1. \A q \in Proc, fd \in Fd : g[q][fd] = IF q = p /\ fd \in S THEN NONE ELSE f[q][fd]
  BY <1>0 DEF Table
<1> DEFINE D == {p} \X At(f, p, S, n)
<1>2. Led(g, n) = Led(f, n) \ D
  <2>1. \A x \in Proc \X Fd : x \in Led(g, n) <=> x \in Led(f, n) \ D
    BY <1>1 DEF Led, At
  <2>2. QED BY <2>1 DEF Led
<1>3. Led(f, n) \cap D = D
  BY DEF Led, At
<1>4. IsFiniteSet(D) /\ Cardinality(D) = Cardinality(At(f, p, S, n))
  BY AtFinite, Pairs
<1> HIDE DEF D
<1>5. IsFiniteSet(Led(f, n))
  BY LedFinite
<1>6. Cardinality(Led(f, n) \ D) = Cardinality(Led(f, n)) - Cardinality(Led(f, n) \cap D)
  BY <1>5, FS_Difference
<1>7. g \in Table
  BY <1>0 DEF Table
<1>8. QED BY <1>2, <1>3, <1>4, <1>6, <1>7 DEF g

\* a descriptor of p that is free gets d
LEMMA Adds ==
  ASSUME NEW f \in Table, NEW p \in Proc, NEW fd \in Fd, f[p][fd] = NONE, NEW d \in Desc, NEW n
  PROVE  /\ Cardinality(Led(Given(f, p, fd, d), n)) = Cardinality(Led(f, n)) + (IF d.node = n THEN 1 ELSE 0)
         /\ Given(f, p, fd, d) \in Table
<1> DEFINE g == Given(f, p, fd, d)
<1>0. g = [f EXCEPT ![p][fd] = d]
  BY DEF Given
<1> HIDE DEF g
<1>1. \A q \in Proc, x \in Fd : g[q][x] = IF q = p /\ x = fd THEN d ELSE f[q][x]
  BY <1>0 DEF Table
<1>2. d # NONE
  BY VfsAssumption DEF VfsAssumption, Desc, Node
<1>3. g \in Table
  BY <1>0 DEF Table
<1>4. IsFiniteSet(Led(f, n)) /\ Cardinality(Led(f, n)) \in Nat
  BY LedFinite
<1>5. CASE d.node = n
  <2>1. Led(g, n) = Led(f, n) \cup {<<p, fd>>}
    <3>1. \A x \in Proc \X Fd : x \in Led(g, n) <=> x \in Led(f, n) \cup {<<p, fd>>}
      BY <1>1, <1>2, <1>5 DEF Led
    <3>2. QED BY <3>1 DEF Led
  <2>2. <<p, fd>> \notin Led(f, n)
    BY DEF Led
  <2>3. Cardinality(Led(f, n) \cup {<<p, fd>>}) = Cardinality(Led(f, n)) + 1
    BY <1>4, <2>2, FS_AddElement
  <2>4. QED BY <1>3, <1>5, <2>1, <2>3 DEF g
<1>6. CASE d.node # n
  <2>1. Led(g, n) = Led(f, n)
    <3>1. \A x \in Proc \X Fd : x \in Led(g, n) <=> x \in Led(f, n)
      BY <1>1, <1>2, <1>6 DEF Led
    <3>2. QED BY <3>1 DEF Led
  <2>2. QED BY <1>3, <1>4, <1>6, <2>1 DEF g
<1>7. QED BY <1>5, <1>6 DEF g

\* c, which has no descriptors, gets those of p
LEMMA Copies ==
  ASSUME NEW f \in Table, NEW p \in Proc, NEW c \in Proc, NEW n,
         \A fd \in Fd : f[c][fd] = NONE
  PROVE  /\ Cardinality(Led(Copied(f, p, c), n)) = Cardinality(Led(f, n)) + Cardinality(At(f, p, Fd, n))
         /\ Copied(f, p, c) \in Table
<1> DEFINE g == Copied(f, p, c)
<1>0. g = [f EXCEPT ![c] = f[p]]
  BY DEF Copied
<1> HIDE DEF g
<1>1. \A q \in Proc, fd \in Fd : g[q][fd] = IF q = c THEN f[p][fd] ELSE f[q][fd]
  BY <1>0 DEF Table
<1> DEFINE D == {c} \X At(f, p, Fd, n)
<1>2. Led(g, n) = Led(f, n) \cup D
  <2>1. \A x \in Proc \X Fd : x \in Led(g, n) <=> x \in Led(f, n) \cup D
    BY <1>1 DEF Led, At
  <2>2. D \subseteq Proc \X Fd
    BY DEF At
  <2>3. QED BY <2>1, <2>2 DEF Led
<1>3. Led(f, n) \cap D = {}
  BY DEF Led
<1>4. IsFiniteSet(D) /\ Cardinality(D) = Cardinality(At(f, p, Fd, n)) /\ Cardinality(D) \in Nat
  <2>1. Fd \in SUBSET Fd
    OBVIOUS
  <2>2. IsFiniteSet(At(f, p, Fd, n))
    BY <2>1, AtFinite
  <2>3. QED BY <2>2, Pairs
<1> HIDE DEF D
<1>5. IsFiniteSet(Led(f, n)) /\ Cardinality(Led(f, n)) \in Nat
  BY LedFinite
<1>6. Cardinality(Led(g, n)) = Cardinality(Led(f, n)) + Cardinality(D) - Cardinality(Led(f, n) \cap D)
  BY <1>2, <1>4, <1>5, FS_Union
<1>7. Cardinality(Led(f, n) \cap D) = 0
  BY <1>3, FS_EmptySet
<1>8. g \in Table
  BY <1>0 DEF Table
<1>9. QED BY <1>4, <1>5, <1>6, <1>7, <1>8 DEF g

\* p has a descriptor for n only if there are some
LEMMA Leads ==
  ASSUME NEW f, NEW p \in Proc, NEW S \in SUBSET Fd, NEW n
  PROVE  /\ Cardinality(At(f, p, S, n)) <= Cardinality(Led(f, n))
         /\ \A fd \in Fd : f[p][fd] # NONE /\ f[p][fd].node = n => Cardinality(Led(f, n)) > 0
<1>0. IsFiniteSet(Led(f, n)) /\ Cardinality(Led(f, n)) \in Nat
  BY LedFinite
<1>1. {p} \X At(f, p, S, n) \in SUBSET Led(f, n)
  BY DEF Led, At
<1>2. Cardinality({p} \X At(f, p, S, n)) <= Cardinality(Led(f, n))
  BY <1>0, <1>1, FS_Subset
<1>3. ASSUME NEW fd \in Fd, f[p][fd] # NONE, f[p][fd].node = n
      PROVE  Cardinality(Led(f, n)) > 0
  <2>1. <<p, fd>> \in Led(f, n)
    BY <1>3 DEF Led
  <2>2. Cardinality(Led(f, n)) # 0
    BY <1>0, <2>1, FS_EmptySet
  <2>3. QED BY <1>0, <2>2
<1>4. Cardinality({p} \X At(f, p, S, n)) = Cardinality(At(f, p, S, n))
  BY AtFinite, Pairs
<1>5. QED BY <1>2, <1>3, <1>4

\* who is in the directory n
Here(w, n) == {p \in Proc : w[p] = n}
Put(w, p, d) == [w EXCEPT ![p] = d]

LEMMA HereFinite ==
  ASSUME NEW w, NEW n
  PROVE  IsFiniteSet(Here(w, n)) /\ Cardinality(Here(w, n)) \in Nat
<1>1. Here(w, n) \in SUBSET Proc /\ IsFiniteSet(Proc)
  BY VfsAssumption DEF Here, VfsAssumption
<1>2. QED BY <1>1, FS_Subset, FS_CardinalityType

\* p goes from a directory to d, or gets one
LEMMA Moves ==
  ASSUME NEW w \in [Proc -> Dir \cup {NONE}], NEW p \in Proc, NEW d \in Dir, w[p] # d, NEW n
  PROVE  /\ w[p] = n => Cardinality(Here(w, n)) > 0
         /\ Cardinality(Here(Put(w, p, d), n)) =
              Cardinality(Here(w, n)) + (IF d = n THEN 1 ELSE IF w[p] = n THEN 0 - 1 ELSE 0)
         /\ Put(w, p, d) \in [Proc -> Dir \cup {NONE}]
<1> DEFINE u == Put(w, p, d)
<1>0. u = [w EXCEPT ![p] = d] /\ u \in [Proc -> Dir \cup {NONE}]
  BY DEF Put
<1> HIDE DEF u
<1>1. IsFiniteSet(Here(w, n)) /\ Cardinality(Here(w, n)) \in Nat
  BY HereFinite
<1>2. ASSUME w[p] = n PROVE Cardinality(Here(w, n)) > 0
  <2>1. Here(w, n) # {}
    BY <1>2 DEF Here
  <2>2. Cardinality(Here(w, n)) # 0
    BY <1>1, <2>1, FS_EmptySet
  <2>3. QED BY <1>1, <2>2
<1>3. CASE d = n
  <2>1. Here(u, n) = Here(w, n) \cup {p} /\ p \notin Here(w, n)
    BY <1>0, <1>3 DEF Here
  <2>2. Cardinality(Here(u, n)) = Cardinality(Here(w, n)) + 1
    BY <1>1, <2>1, FS_AddElement
  <2>3. QED BY <1>0, <1>2, <1>3, <2>2 DEF u
<1>4. CASE d # n /\ w[p] = n
  <2>1. Here(u, n) = Here(w, n) \ {p} /\ p \in Here(w, n)
    BY <1>0, <1>4 DEF Here
  <2>2. Cardinality(Here(u, n)) = Cardinality(Here(w, n)) - 1
    BY <1>1, <2>1, FS_RemoveElement
  <2>3. QED BY <1>0, <1>1, <1>2, <1>4, <2>2 DEF u
<1>5. CASE d # n /\ w[p] # n
  <2>1. Here(u, n) = Here(w, n)
    BY <1>0, <1>5 DEF Here
  <2>2. QED BY <1>0, <1>1, <1>5, <2>1 DEF u
<1>6. QED BY <1>0, <1>2, <1>3, <1>4, <1>5 DEF u

\* the descriptor that fd_array_alloc finds
LEMMA LowestFree ==
  ASSUME NEW S \in SUBSET Fd, S # {}
  PROVE  Lowest(S) \in S
<1>1. S \subseteq Nat
  BY VfsAssumption DEF VfsAssumption
<1> DEFINE R == OpToRel(<, Nat)
<1>2. \E fd \in S : \A x \in S : fd <= x
  <2>1. PICK fd \in S : \A x \in S : ~(<<x, fd>> \in R)
    BY <1>1, WFMin, NatLessThanWellFounded, Zenon
  <2>2. S \subseteq Nat
    BY <1>1
  <2>3. \A x \in S : ~(x < fd)
    <3> SUFFICES ASSUME NEW x \in S PROVE ~(x < fd)
      OBVIOUS
    <3>1. x \in Nat /\ fd \in Nat
      BY <2>2
    <3>2. ~(<<x, fd>> \in R)
      BY <2>1
    <3>3. x < fd => <<x, fd>> \in R
      BY <3>1, Zenon DEF OpToRel
    <3>4. QED BY <3>2, <3>3
  <2>4. QED BY <2>2, <2>3
<1>3. QED BY <1>2 DEF Lowest
------------------------------------------------------------------------------
(* The books: a call that changes the counts of every inode by as much as it       *)
(* changes the descriptors and directories that lead to it keeps the invariant.   *)

\* the counts of n grow by r and o, and so do those who hold it
Balanced(n, r, o) ==
  /\ Counted(inode[n], inode'[n], r, o)
  /\ Cardinality(Led(file', n)) = Cardinality(Led(file, n)) + o
  /\ Cardinality(Here(pwd', n)) + leaked'[n] + o = Cardinality(Here(pwd, n)) + leaked[n] + r

LEMMA Known ==
  ASSUME IInv, NEW n \in Node
  PROVE  /\ inode[n] \in Inode /\ Sound(inode[n]) /\ inode[n].opens \in Nat /\ inode[n].ref \in Nat
         /\ Cardinality(Led(file, n)) \in Nat /\ Cardinality(Here(pwd, n)) \in Nat
         /\ leaked[n] \in Nat /\ Kept(n) \in Nat
         /\ inode[n].opens = Cardinality(Led(file, n))
         /\ inode[n].ref = Cardinality(Led(file, n)) + Cardinality(Here(pwd, n)) + Kept(n) + leaked[n]
         /\ inode[n].ref >= inode[n].opens
<1>1. inode[n] \in Inode /\ leaked[n] \in Nat /\ Sound(inode[n])
  BY DEF IInv, Types
<1>2. inode[n].opens \in Nat /\ inode[n].ref \in Nat
  BY <1>1 DEF Inode
<1>3. Cardinality(Led(file, n)) \in Nat /\ Cardinality(Here(pwd, n)) \in Nat
  BY LedFinite, HereFinite
<1>4. Kept(n) \in Nat
  BY DEF Kept
<1>5. /\ inode[n].opens = Cardinality(Led(file, n))
      /\ inode[n].ref = Cardinality(Led(file, n)) + Cardinality(Here(pwd, n)) + Kept(n) + leaked[n]
  BY DEF IInv, CountsExact, Descriptors, Led, Here
<1>6. QED BY <1>1, <1>2, <1>3, <1>4, <1>5

LEMMA Balances ==
  ASSUME IInv,
         state' \in [Proc -> {"unborn", "alive", "gone"}], file' \in Table,
         pwd' \in [Proc -> Dir \cup {NONE}], leaked' \in [Node -> Nat],
         inode' = [n \in Node |-> inode'[n]],
         Born',
         \A n \in Node : \E r, o \in Int : Balanced(n, r, o)
  PROVE  IInv'
<1>1. ASSUME NEW n \in Node
      PROVE  /\ inode'[n] \in Inode /\ Sound(inode'[n])
             /\ inode'[n].opens = Cardinality(Led(file', n))
             /\ inode'[n].ref = Cardinality(Led(file', n)) + Cardinality(Here(pwd', n))
                                + Kept(n) + leaked'[n]
  <2>1. PICK r, o \in Int : Balanced(n, r, o)
    BY <1>1
  <2>2. Cardinality(Led(file', n)) \in Nat /\ Cardinality(Here(pwd', n)) \in Nat /\ leaked'[n] \in Nat
    BY LedFinite, HereFinite
  <2>3. /\ inode[n].opens \in Nat /\ Kept(n) \in Nat
        /\ Cardinality(Led(file, n)) \in Nat /\ Cardinality(Here(pwd, n)) \in Nat /\ leaked[n] \in Nat
        /\ inode[n].opens = Cardinality(Led(file, n))
        /\ inode[n].ref = Cardinality(Led(file, n)) + Cardinality(Here(pwd, n)) + Kept(n) + leaked[n]
    BY Known
  <2>4. QED BY <2>1, <2>2, <2>3 DEF Balanced, Counted
<1>2. Types'
  BY <1>1 DEF Types
<1>3. CountsExact'
  BY <1>1 DEF CountsExact, Descriptors, Led, Here
<1>4. QED BY <1>1, <1>2, <1>3 DEF IInv

\* an inode that a call does not touch
LEMMA Untouched ==
  ASSUME IInv, NEW n \in Node
  PROVE  Counted(inode[n], inode[n], 0, 0)
BY Known DEF Counted

LEMMA InitIInv == Init => IInv
<1> SUFFICES ASSUME Init PROVE IInv
  OBVIOUS
<1>0. Empty \in Value /\ Root \in Dir /\ First \in Proc
  BY VfsAssumption DEF VfsAssumption
<1>1. Types
  <2>1. \A n \in Node : inode[n] \in Inode
    BY <1>0 DEF Init, Inode
  <2>2. QED BY <1>0, <2>1 DEF Init, Types, Table
<1>2. Born
  BY <1>0 DEF Init, Born
<1>3. ASSUME NEW n \in Node
      PROVE  /\ inode[n].opens = Descriptors(n) /\ Sound(inode[n])
             /\ inode[n].ref = Descriptors(n) + Cardinality({p \in Proc : pwd[p] = n})
                               + Kept(n) + leaked[n]
  <2>1. Descriptors(n) = 0
    <3>1. {x \in Proc \X Fd : file[x[1]][x[2]] # NONE /\ file[x[1]][x[2]].node = n} = {}
      BY DEF Init
    <3>2. QED BY <3>1, FS_EmptySet DEF Descriptors
  <2>2. CASE n = Root
    <3>1. {p \in Proc : pwd[p] = n} = {First}
      BY <1>0, <2>2, VfsAssumption DEF Init, VfsAssumption
    <3>2. Cardinality({First}) = 1
      BY FS_Singleton
    <3>3. inode[n] = [ref |-> 3, opens |-> 0, mem |-> Empty, disk |-> Empty, dirty |-> FALSE]
      BY <2>2 DEF Init
    <3>4. leaked[n] = 0 /\ Kept(n) = 2
      BY <2>2 DEF Init, Kept
    <3>5. QED BY <2>1, <3>1, <3>2, <3>3, <3>4 DEF Sound
  <2>3. CASE n # Root
    <3>1. n # NONE
      BY VfsAssumption DEF VfsAssumption, Node
    <3>2. {p \in Proc : pwd[p] = n} = {}
      BY <2>3, <3>1 DEF Init
    <3>3. inode[n] = [ref |-> 0, opens |-> 0, mem |-> Empty, disk |-> Empty, dirty |-> FALSE]
      BY <2>3 DEF Init
    <3>4. leaked[n] = 0 /\ Kept(n) = 0
      BY <2>3 DEF Init, Kept
    <3>5. QED BY <2>1, <3>2, <3>3, <3>4, FS_EmptySet DEF Sound
  <2>4. QED BY <2>2, <2>3
<1>4. QED BY <1>1, <1>2, <1>3 DEF IInv, CountsExact
------------------------------------------------------------------------------
(* One lemma per call: it keeps the books, and the processes see what they saw  *)
(* before but for the file that it changes.                                      *)

\* a descriptor leads to a node that is in memory and open
LEMMA Leading ==
  ASSUME IInv, NEW p \in Proc, NEW fd \in Fd, file[p][fd] # NONE
  PROVE  /\ file[p][fd] \in Desc /\ file[p][fd].node \in Node
         /\ inode[file[p][fd].node].opens > 0 /\ inode[file[p][fd].node].ref > 0
<1> DEFINE n == file[p][fd].node
<1>1. file[p][fd] \in Desc
  BY DEF IInv, Types, Table
<1>2. n \in Node
  BY <1>1 DEF Desc
<1>3. \A x \in Fd : file[p][x] # NONE /\ file[p][x].node = n => Cardinality(Led(file, n)) > 0
  <2>1. Fd \in SUBSET Fd
    OBVIOUS
  <2>2. QED BY <2>1, Leads
<1>4. Cardinality(Led(file, n)) > 0
  BY <1>3
<1>5. /\ inode[n].opens = Cardinality(Led(file, n)) /\ inode[n].ref >= inode[n].opens
      /\ inode[n].opens \in Nat /\ inode[n].ref \in Nat
  BY <1>2, Known
<1>6. QED BY <1>1, <1>2, <1>4, <1>5


LEMMA OpenStep ==
  ASSUME IInv, NEW p \in Proc, NEW n \in Node, NEW writable \in BOOLEAN, NEW empties \in BOOLEAN,
         Open(p, n, writable, empties)
  PROVE  /\ IInv'
         /\ \A m \in Node : Seen(inode'[m]) = IF m = n /\ empties THEN Empty ELSE Seen(inode[m])
         /\ empties => n \in File
         /\ \E fd \in Fd : /\ file[p][fd] = NONE
                           /\ file' = [file EXCEPT ![p][fd] = [node |-> n, writable |-> writable]]
<1> DEFINE d == [node |-> n, writable |-> writable]
           fd == Lowest(Free(p))
<1>1. fd \in Fd /\ file[p][fd] = NONE
  <2>1. Free(p) \in SUBSET Fd /\ Free(p) # {}
    BY DEF Free, Open
  <2>2. fd \in Free(p)
    BY <2>1, LowestFree
  <2>3. QED BY <2>2 DEF Free
<1>2. d \in Desc /\ d.node = n
  BY DEF Desc
<1>3. /\ file' = [file EXCEPT ![p][fd] = d] /\ file' = Given(file, p, fd, d)
      /\ UNCHANGED <<state, pwd, leaked>>
  BY DEF Open, Given
<1> HIDE DEF fd, d
<1>4. file \in Table
  BY DEF IInv, Types
<1>5. /\ file' \in Table
      /\ \A m : Cardinality(Led(file', m)) = Cardinality(Led(file, m)) + (IF d.node = m THEN 1 ELSE 0)
  <2>1. ASSUME NEW m
        PROVE  /\ Cardinality(Led(file', m)) = Cardinality(Led(file, m)) + (IF d.node = m THEN 1 ELSE 0)
               /\ file' \in Table
    <3>1. /\ Cardinality(Led(Given(file, p, fd, d), m)) =
               Cardinality(Led(file, m)) + (IF d.node = m THEN 1 ELSE 0)
          /\ Given(file, p, fd, d) \in Table
      BY <1>1, <1>2, <1>4, Adds
    <3>2. QED BY <1>3, <3>1
  <2>2. QED BY <2>1
<1>6. Counted(inode[n], Opened(inode[n], empties), 1, 1)
      /\ Seen(Opened(inode[n], empties)) = IF empties THEN Empty ELSE Seen(inode[n])
  <2>1. inode[n] \in Inode /\ Sound(inode[n]) /\ Empty \in Value
    BY Known, VfsAssumption DEF VfsAssumption
  <2>2. QED BY <2>1, OpenedFacts
<1>7. /\ inode' = [m \in Node |-> inode'[m]]
      /\ \A m \in Node : inode'[m] = IF m = n THEN Opened(inode[n], empties) ELSE inode[m]
  BY DEF Open, IInv, Types
<1>8. Born'
  BY <1>1, <1>3, <1>4 DEF IInv, Born, Open, Runs, Table
<1>9. ASSUME NEW m \in Node
      PROVE  \E r, o \in Int : Balanced(m, r, o)
  <2>1. CASE m = n
    <3>1. Cardinality(Led(file', m)) = Cardinality(Led(file, m)) + 1
      BY <1>2, <1>5, <2>1
    <3>2. Balanced(m, 1, 1)
      BY <1>3, <1>6, <1>7, <2>1, <3>1 DEF Balanced
    <3>3. QED BY <3>2
  <2>2. CASE m # n
    <3>1. Cardinality(Led(file', m)) = Cardinality(Led(file, m)) + 0
      BY <1>2, <1>5, <2>2
    <3>2. Balanced(m, 0, 0)
      BY <1>3, <1>7, <2>2, <3>1, Untouched DEF Balanced
    <3>3. QED BY <3>2
  <2>3. QED BY <2>1, <2>2
<1>10. IInv'
  <2>1. /\ state' \in [Proc -> {"unborn", "alive", "gone"}]
        /\ pwd' \in [Proc -> Dir \cup {NONE}] /\ leaked' \in [Node -> Nat]
    BY <1>3 DEF IInv, Types
  <2>2. QED BY <1>5, <1>7, <1>8, <1>9, <2>1, Balances
<1>11. empties => n \in File
  BY DEF Open, Node
<1>12. QED
  BY <1>1, <1>3, <1>6, <1>7, <1>10, <1>11 DEF d

\* a call that leaves the counts of one inode as they are, and all others alone
LEMMA OneNode ==
  ASSUME IInv, UNCHANGED <<state, file, pwd, leaked>>,
         NEW n \in Node, NEW x, inode' = Put(inode, n, x), Counted(inode[n], x, 0, 0)
  PROVE  /\ IInv'
         /\ \A m \in Node : Seen(inode'[m]) = IF m = n THEN Seen(x) ELSE Seen(inode[m])
<1>1. /\ inode' = [m \in Node |-> inode'[m]]
      /\ \A m \in Node : inode'[m] = IF m = n THEN x ELSE inode[m]
  BY DEF IInv, Types, Put
<1>2. Born'
  BY DEF IInv, Born
<1>3. ASSUME NEW m \in Node
      PROVE  \E r, o \in Int : Balanced(m, r, o)
  <2>1. /\ Cardinality(Led(file, m)) \in Nat /\ Cardinality(Here(pwd, m)) \in Nat /\ leaked[m] \in Nat
        /\ Counted(inode[m], inode[m], 0, 0)
    BY Known, Untouched
  <2>2. Balanced(m, 0, 0)
    BY <1>1, <2>1 DEF Balanced
  <2>3. QED BY <2>2
<1>4. /\ state' \in [Proc -> {"unborn", "alive", "gone"}] /\ file' \in Table
      /\ pwd' \in [Proc -> Dir \cup {NONE}] /\ leaked' \in [Node -> Nat]
  BY DEF IInv, Types
<1>5. QED BY <1>1, <1>2, <1>3, <1>4, Balances

LEMMA OpenFailsStep ==
  ASSUME IInv, NEW p \in Proc, NEW n \in Node, OpenFails(p, n)
  PROVE  IInv' /\ \A m \in Node : Seen(inode'[m]) = Seen(inode[m])
<1> DEFINE g == Got(inode[n])
<1>1. inode[n] \in Inode /\ Sound(inode[n]) /\ inode[n].ref \in Nat /\ inode[n].opens \in Nat
  BY Known
<1>2. Counted(inode[n], g, 1, 0) /\ Seen(g) = Seen(inode[n])
  BY <1>1, GotFacts
<1> HIDE DEF g
<1>3. g \in Inode /\ Sound(g) /\ g.ref = inode[n].ref + 1 /\ g.opens = inode[n].opens /\ 1 <= g.ref
  BY <1>1, <1>2 DEF Counted
<1>4. Counted(g, RefDec(g, 1), 0 - 1, 0) /\ Seen(RefDec(g, 1)) = Seen(g)
  BY <1>3, RefDecFacts
<1>5. Counted(inode[n], RefDec(g, 1), 0, 0)
  BY <1>1, <1>3, <1>4 DEF Counted
<1>6. inode' = Put(inode, n, RefDec(g, 1)) /\ UNCHANGED <<state, file, pwd, leaked>>
  BY DEF OpenFails, g, Put
<1>7. QED BY <1>2, <1>4, <1>5, <1>6, OneNode

\* a write and a seek behind the end
LEMMA ChangeStep ==
  ASSUME IInv, NEW p \in Proc, NEW fd \in Fd, NEW v \in Value, Write(p, fd, v) \/ Seek(p, fd, v)
  PROVE  /\ IInv' /\ file[p][fd].node \in File
         /\ \A m \in Node : Seen(inode'[m]) = IF m = file[p][fd].node THEN v ELSE Seen(inode[m])
<1> DEFINE n == file[p][fd].node
<1>1. /\ file[p][fd] # NONE /\ n \in File
      /\ inode' = Put(inode, n, Changed(inode[n], v))
      /\ UNCHANGED <<state, file, pwd, leaked>>
  BY DEF Write, Seek, Put
<1>2. n \in Node /\ inode[n].opens > 0 /\ inode[n].ref > 0
  BY <1>1, Leading
<1> HIDE DEF n
<1>3. inode[n] \in Inode /\ Sound(inode[n])
  BY <1>2, Known
<1>4. Counted(inode[n], Changed(inode[n], v), 0, 0) /\ Seen(Changed(inode[n], v)) = v
  BY <1>2, <1>3, ChangedFacts
<1>5. IInv' /\ \A m \in Node : Seen(inode'[m]) = IF m = n THEN v ELSE Seen(inode[m])
  BY <1>1, <1>2, <1>4, OneNode
<1>6. QED BY <1>1, <1>5 DEF n

LEMMA FsyncStep ==
  ASSUME IInv, NEW p \in Proc, NEW fd \in Fd, Fsync(p, fd)
  PROVE  IInv' /\ \A m \in Node : Seen(inode'[m]) = Seen(inode[m])
<1> DEFINE n == file[p][fd].node
<1>1. /\ inode' = Put(inode, n, Synced(inode[n]))
      /\ UNCHANGED <<state, file, pwd, leaked>> /\ file[p][fd] # NONE
  BY DEF Fsync, Put
<1>2. n \in Node
  BY <1>1, Leading
<1> HIDE DEF n
<1>3. inode[n] \in Inode /\ Sound(inode[n])
  BY <1>2, Known
<1>4. Counted(inode[n], Synced(inode[n]), 0, 0) /\ Seen(Synced(inode[n])) = Seen(inode[n])
  BY <1>3, SyncedFacts
<1>5. QED BY <1>1, <1>2, <1>4, OneNode

\* the reference that is lost is counted in leaked
LEMMA OpenExistsStep ==
  ASSUME IInv, NEW p \in Proc, NEW n \in Node, OpenExists(p, n)
  PROVE  IInv' /\ \A m \in Node : Seen(inode'[m]) = Seen(inode[m])
<1>1. inode[n] \in Inode /\ Sound(inode[n])
  BY Known
<1>2. Counted(inode[n], Got(inode[n]), 1, 0) /\ Seen(Got(inode[n])) = Seen(inode[n])
  BY <1>1, GotFacts
<1>3. /\ inode' = [m \in Node |-> inode'[m]] /\ UNCHANGED <<state, file, pwd>>
      /\ \A m \in Node : inode'[m] = IF m = n THEN Got(inode[n]) ELSE inode[m]
      /\ \A m \in Node : leaked'[m] = IF m = n THEN leaked[n] + 1 ELSE leaked[m]
      /\ leaked' \in [Node -> Nat]
  <2>1. leaked \in [Node -> Nat] /\ inode \in [Node -> Inode]
    BY DEF IInv, Types
  <2> DEFINE k == leaked[n] + 1
  <2>2. k \in Nat
    BY <2>1
  <2>3. /\ leaked' = [leaked EXCEPT ![n] = k] /\ inode' = [inode EXCEPT ![n] = Got(inode[n])]
        /\ UNCHANGED <<state, file, pwd>>
    BY DEF OpenExists
  <2> HIDE DEF k
  <2>4. leaked' \in [Node -> Nat] /\ \A m \in Node : leaked'[m] = IF m = n THEN k ELSE leaked[m]
    BY <2>1, <2>2, <2>3
  <2>5. /\ inode' = [m \in Node |-> inode'[m]]
        /\ \A m \in Node : inode'[m] = IF m = n THEN Got(inode[n]) ELSE inode[m]
    BY <2>1, <2>3
  <2>6. QED BY <2>3, <2>4, <2>5 DEF k
<1>4. Born'
  BY <1>3 DEF IInv, Born
<1>5. ASSUME NEW m \in Node
      PROVE  \E r, o \in Int : Balanced(m, r, o)
  <2>1. /\ Cardinality(Led(file, m)) \in Nat /\ Cardinality(Here(pwd, m)) \in Nat /\ leaked[m] \in Nat
        /\ Counted(inode[m], inode[m], 0, 0)
    BY Known, Untouched
  <2>2. CASE m = n
    <3>1. Balanced(m, 1, 0)
      BY <1>2, <1>3, <2>1, <2>2 DEF Balanced
    <3>2. QED BY <3>1
  <2>3. CASE m # n
    <3>1. Balanced(m, 0, 0)
      BY <1>3, <2>1, <2>3 DEF Balanced
    <3>2. QED BY <3>1
  <2>4. QED BY <2>2, <2>3
<1>6. IInv'
  <2>1. /\ state' \in [Proc -> {"unborn", "alive", "gone"}] /\ file' \in Table
        /\ pwd' \in [Proc -> Dir \cup {NONE}]
    BY <1>3 DEF IInv, Types
  <2>2. QED BY <1>3, <1>4, <1>5, <2>1, Balances
<1>7. QED BY <1>2, <1>3, <1>6

\* the descriptors of p in S are closed, by a close, an execve or before a failing one
LEMMA ClosesFacts ==
  ASSUME IInv, NEW p \in Proc, NEW S \in SUBSET Fd, NEW n \in Node
  PROVE  /\ Uses(p, S, n) = Cardinality(At(file, p, S, n)) /\ Uses(p, S, n) \in Nat
         /\ Counted(inode[n], Closed(inode[n], Uses(p, S, n)), 0 - Uses(p, S, n), 0 - Uses(p, S, n))
         /\ Seen(Closed(inode[n], Uses(p, S, n))) = Seen(inode[n])
         /\ Uses(p, S, n) <= inode[n].opens /\ Uses(p, S, n) <= inode[n].ref
<1>1. Uses(p, S, n) = Cardinality(At(file, p, S, n))
  BY DEF Uses, At
<1>2. Uses(p, S, n) \in Nat /\ Uses(p, S, n) <= Cardinality(Led(file, n))
  BY <1>1, AtFinite, Leads
<1>3. /\ inode[n] \in Inode /\ Sound(inode[n]) /\ inode[n].ref \in Nat /\ inode[n].opens \in Nat
      /\ inode[n].opens = Cardinality(Led(file, n)) /\ inode[n].ref >= inode[n].opens
  BY Known
<1>4. Uses(p, S, n) <= inode[n].opens /\ Uses(p, S, n) <= inode[n].ref
  BY <1>2, <1>3
<1>5. QED BY <1>1, <1>2, <1>3, <1>4, ClosedFacts

LEMMA ClosesStep ==
  ASSUME IInv, NEW p \in Proc, NEW S \in SUBSET Fd, Runs(p),
         file' = Cleared(file, p, S), ClosesAll(p, S), UNCHANGED <<state, pwd, leaked>>
  PROVE  IInv' /\ \A m \in Node : Seen(inode'[m]) = Seen(inode[m])
<1>1. file \in Table
  BY DEF IInv, Types
<1>2. /\ inode' = [m \in Node |-> inode'[m]]
      /\ \A m \in Node : inode'[m] = Closed(inode[m], Uses(p, S, m))
  BY DEF ClosesAll
<1>3. ASSUME NEW m \in Node
      PROVE  /\ \E r, o \in Int : Balanced(m, r, o)
             /\ Seen(inode'[m]) = Seen(inode[m])
  <2>1. /\ Uses(p, S, m) = Cardinality(At(file, p, S, m)) /\ Uses(p, S, m) \in Nat
        /\ Counted(inode[m], inode'[m], 0 - Uses(p, S, m), 0 - Uses(p, S, m))
        /\ Seen(inode'[m]) = Seen(inode[m])
    BY <1>2, ClosesFacts
  <2>2. Cardinality(Led(file', m)) = Cardinality(Led(file, m)) - Cardinality(At(file, p, S, m))
    BY <1>1, Drops
  <2>3. /\ Cardinality(Led(file, m)) \in Nat /\ Cardinality(Here(pwd, m)) \in Nat /\ leaked[m] \in Nat
    BY Known
  <2>4. Balanced(m, 0 - Uses(p, S, m), 0 - Uses(p, S, m))
    BY <2>1, <2>2, <2>3 DEF Balanced
  <2>5. 0 - Uses(p, S, m) \in Int
    BY <2>1
  <2>6. QED BY <2>1, <2>4, <2>5
<1>4. file' \in Table
  BY <1>1, Drops
<1>5. Born'
  BY DEF IInv, Born, Runs, Types, Table, Cleared
<1>6. /\ state' \in [Proc -> {"unborn", "alive", "gone"}]
      /\ pwd' \in [Proc -> Dir \cup {NONE}] /\ leaked' \in [Node -> Nat]
  BY DEF IInv, Types
<1>7. QED BY <1>2, <1>3, <1>4, <1>5, <1>6, Balances

LEMMA CloseStep ==
  ASSUME IInv, NEW p \in Proc, NEW fd \in Fd, Close(p, fd)
  PROVE  /\ IInv' /\ \A m \in Node : Seen(inode'[m]) = Seen(inode[m])
         /\ file' = Cleared(file, p, {fd})
<1>1. file' = Cleared(file, p, {fd})
  <2>1. file \in Table /\ file' = [file EXCEPT ![p][fd] = NONE]
    BY DEF IInv, Types, Close
  <2>2. file[p] \in [Fd -> Desc \cup {NONE}]
    BY <2>1 DEF Table
  <2>3. [file[p] EXCEPT ![fd] = NONE] = [x \in Fd |-> IF x \in {fd} THEN NONE ELSE file[p][x]]
    BY <2>2
  <2>4. file' = [file EXCEPT ![p] = [file[p] EXCEPT ![fd] = NONE]]
    BY <2>1
  <2>5. QED BY <2>3, <2>4 DEF Cleared
<1>2. Runs(p) /\ ClosesAll(p, {fd}) /\ UNCHANGED <<state, pwd, leaked>> /\ {fd} \in SUBSET Fd
  BY DEF Close
<1>3. QED BY <1>1, <1>2, ClosesStep

LEMMA ExecStep ==
  ASSUME IInv, NEW p \in Proc, Exec(p)
  PROVE  /\ IInv' /\ \A m \in Node : Seen(inode'[m]) = Seen(inode[m])
         /\ file' = Cleared(file, p, Above)
<1>1. file' = Cleared(file, p, Above)
  BY DEF Exec, Cleared, IInv, Types, Table
<1>2. Runs(p) /\ ClosesAll(p, Above) /\ UNCHANGED <<state, pwd, leaked>> /\ Above \in SUBSET Fd
  BY DEF Exec, Above
<1>3. QED BY <1>1, <1>2, ClosesStep

LEMMA DupStep ==
  ASSUME IInv, NEW p \in Proc, NEW from \in Fd, NEW to \in Fd, Dup(p, from, to)
  PROVE  IInv' /\ \A m \in Node : Seen(inode'[m]) = Seen(inode[m])
<1> DEFINE d == file[p][from]
           n == d.node
<1>1. d # NONE /\ Runs(p) /\ file[p][to] = NONE
  BY DEF Dup
<1>2. d \in Desc /\ n \in Node /\ inode[n].ref > 0
  BY <1>1, Leading
<1>3. file \in Table /\ inode \in [Node -> Inode]
  BY DEF IInv, Types
<1>4. /\ file' = Given(file, p, to, d) /\ inode' = [inode EXCEPT ![n] = Another(inode[n], 1)]
      /\ UNCHANGED <<state, pwd, leaked>>
  BY DEF Dup, Given
<1> HIDE DEF d
<1>5. ASSUME NEW m
      PROVE  /\ Cardinality(Led(file', m)) = Cardinality(Led(file, m)) + (IF n = m THEN 1 ELSE 0)
             /\ file' \in Table
  <2>1. /\ Cardinality(Led(Given(file, p, to, d), m)) =
             Cardinality(Led(file, m)) + (IF d.node = m THEN 1 ELSE 0)
        /\ Given(file, p, to, d) \in Table
    BY <1>1, <1>2, <1>3, Adds
  <2>2. QED BY <1>4, <2>1
<1>6. Counted(inode[n], Another(inode[n], 1), 1, 1) /\ Seen(Another(inode[n], 1)) = Seen(inode[n])
  <2>1. inode[n] \in Inode /\ Sound(inode[n])
    BY <1>2, Known
  <2>2. QED BY <1>2, <2>1, AnotherFacts
<1>7. /\ inode' = [m \in Node |-> inode'[m]]
      /\ \A m \in Node : inode'[m] = IF m = n THEN Another(inode[n], 1) ELSE inode[m]
  BY <1>3, <1>4
<1>8. Born'
  BY <1>1, <1>3, <1>4 DEF IInv, Born, Runs, Table, Given
<1>9. ASSUME NEW m \in Node
      PROVE  \E r, o \in Int : Balanced(m, r, o)
  <2>1. /\ Cardinality(Led(file, m)) \in Nat /\ Cardinality(Here(pwd, m)) \in Nat /\ leaked[m] \in Nat
        /\ Counted(inode[m], inode[m], 0, 0)
    BY Known, Untouched
  <2>2. CASE m = n
    <3>1. Balanced(m, 1, 1)
      BY <1>4, <1>5, <1>6, <1>7, <2>1, <2>2 DEF Balanced
    <3>2. QED BY <3>1
  <2>3. CASE m # n
    <3>1. Balanced(m, 0, 0)
      BY <1>4, <1>5, <1>7, <2>1, <2>3 DEF Balanced
    <3>2. QED BY <3>1
  <2>4. QED BY <2>2, <2>3
<1>10. IInv'
  <2>1. /\ state' \in [Proc -> {"unborn", "alive", "gone"}]
        /\ pwd' \in [Proc -> Dir \cup {NONE}] /\ leaked' \in [Node -> Nat]
    BY <1>4 DEF IInv, Types
  <2>2. file' \in Table
    BY <1>5
  <2>3. QED BY <1>7, <1>8, <1>9, <2>1, <2>2, Balances
<1>11. QED BY <1>6, <1>7, <1>10

LEMMA ChdirStep ==
  ASSUME IInv, NEW p \in Proc, NEW d \in Dir, Chdir(p, d)
  PROVE  IInv' /\ \A m \in Node : Seen(inode'[m]) = Seen(inode[m])
<1>1. /\ pwd' = Put(pwd, p, d) /\ pwd[p] # d /\ UNCHANGED <<state, file, leaked>>
      /\ inode' = [m \in Node |-> Moved(inode[m], m, pwd[p], d)]
  BY DEF Chdir, Put
<1>2. pwd \in [Proc -> Dir \cup {NONE}]
  BY DEF IInv, Types
<1>3. ASSUME NEW m
      PROVE  /\ pwd[p] = m => Cardinality(Here(pwd, m)) > 0
             /\ Cardinality(Here(pwd', m)) =
                  Cardinality(Here(pwd, m)) + (IF d = m THEN 1 ELSE IF pwd[p] = m THEN 0 - 1 ELSE 0)
             /\ pwd' \in [Proc -> Dir \cup {NONE}]
  BY <1>1, <1>2, Moves
<1>4. inode' = [m \in Node |-> inode'[m]]
  BY <1>1
<1>5. ASSUME NEW m \in Node
      PROVE  (\E r, o \in Int : Balanced(m, r, o)) /\ Seen(inode'[m]) = Seen(inode[m])
  <2>1. /\ Cardinality(Led(file, m)) \in Nat /\ Cardinality(Here(pwd, m)) \in Nat /\ leaked[m] \in Nat
        /\ Counted(inode[m], inode[m], 0, 0) /\ inode[m] \in Inode /\ Sound(inode[m]) /\ Kept(m) \in Nat
        /\ inode[m].ref = Cardinality(Led(file, m)) + Cardinality(Here(pwd, m)) + Kept(m) + leaked[m]
    BY Known, Untouched
  <2>2. CASE m = d
    <3>1. inode'[m] = Got(inode[m])
      BY <1>1, <2>2 DEF Moved
    <3>2. Counted(inode[m], inode'[m], 1, 0) /\ Seen(inode'[m]) = Seen(inode[m])
      BY <2>1, <3>1, GotFacts
    <3>3. Balanced(m, 1, 0)
      BY <1>1, <1>3, <2>1, <2>2, <3>2 DEF Balanced
    <3>4. QED BY <3>2, <3>3
  <2>3. CASE m # d /\ m = pwd[p]
    <3>1. inode'[m] = RefDec(inode[m], 1)
      BY <1>1, <2>3 DEF Moved
    <3>2. 1 <= inode[m].ref
      BY <1>3, <2>1, <2>3
    <3>3. Counted(inode[m], inode'[m], 0 - 1, 0) /\ Seen(inode'[m]) = Seen(inode[m])
      BY <2>1, <3>1, <3>2, RefDecFacts
    <3>4. Balanced(m, 0 - 1, 0)
      BY <1>1, <1>3, <2>1, <2>3, <3>3 DEF Balanced
    <3>5. QED BY <3>3, <3>4
  <2>4. CASE m # d /\ m # pwd[p]
    <3>1. inode'[m] = inode[m]
      BY <1>1, <2>4 DEF Moved
    <3>2. Balanced(m, 0, 0)
      BY <1>1, <1>3, <2>1, <2>4, <3>1 DEF Balanced
    <3>3. QED BY <3>1, <3>2
  <2>5. QED BY <2>2, <2>3, <2>4
<1>6. Born'
  BY <1>1, <1>2 DEF IInv, Born, Chdir, Runs, Put
<1>7. /\ state' \in [Proc -> {"unborn", "alive", "gone"}]
      /\ file' \in Table /\ leaked' \in [Node -> Nat]
  BY <1>1 DEF IInv, Types
<1>8. QED BY <1>3, <1>4, <1>5, <1>6, <1>7, Balances

LEMMA ForkStep ==
  ASSUME IInv, NEW p \in Proc, NEW c \in Proc, Fork(p, c)
  PROVE  IInv' /\ \A m \in Node : Seen(inode'[m]) = Seen(inode[m])
<1> DEFINE d == pwd[p]
<1>1. /\ state[p] = "alive" /\ state[c] = "unborn" /\ state' = [state EXCEPT ![c] = "alive"]
      /\ file' = Copied(file, p, c) /\ pwd' = Put(pwd, c, d) /\ UNCHANGED leaked
      /\ inode' = [n \in Node |->
                     LET i == Another(inode[n], Uses(p, Fd, n))
                     IN IF n = d THEN [i EXCEPT !.ref = @ + 1] ELSE i]
  BY DEF Fork, Runs, Copied, Put
<1>2. /\ file \in Table /\ pwd \in [Proc -> Dir \cup {NONE}]
      /\ state \in [Proc -> {"unborn", "alive", "gone"}]
  BY DEF IInv, Types
<1>3. d \in Dir /\ pwd[c] = NONE /\ pwd[c] # d /\ \A fd \in Fd : file[c][fd] = NONE
  BY <1>1, VfsAssumption DEF IInv, Born, VfsAssumption
<1> HIDE DEF d
<1>4. ASSUME NEW m \in Node
      PROVE  /\ Cardinality(Here(pwd', m)) = Cardinality(Here(pwd, m)) + (IF d = m THEN 1 ELSE 0)
             /\ pwd' \in [Proc -> Dir \cup {NONE}]
  <2>1. /\ Cardinality(Here(Put(pwd, c, d), m)) =
             Cardinality(Here(pwd, m)) + (IF d = m THEN 1 ELSE IF pwd[c] = m THEN 0 - 1 ELSE 0)
        /\ Put(pwd, c, d) \in [Proc -> Dir \cup {NONE}]
    BY <1>2, <1>3, Moves
  <2>2. m # NONE
    BY VfsAssumption DEF VfsAssumption, Node
  <2>3. QED BY <1>1, <1>3, <2>1, <2>2
<1>5. inode' = [m \in Node |-> inode'[m]]
  BY <1>1
<1>6. ASSUME NEW m \in Node
      PROVE  (\E r, o \in Int : Balanced(m, r, o)) /\ Seen(inode'[m]) = Seen(inode[m])
  <2> DEFINE k == Uses(p, Fd, m)
             a == Another(inode[m], k)
  <2>1. /\ Cardinality(Led(file, m)) \in Nat /\ Cardinality(Here(pwd, m)) \in Nat /\ leaked[m] \in Nat
        /\ inode[m] \in Inode /\ Sound(inode[m]) /\ Kept(m) \in Nat
        /\ inode[m].ref \in Nat /\ inode[m].opens \in Nat
        /\ inode[m].ref = Cardinality(Led(file, m)) + Cardinality(Here(pwd, m)) + Kept(m) + leaked[m]
    BY Known
  <2>2. k = Cardinality(At(file, p, Fd, m)) /\ k \in Nat /\ k <= inode[m].ref
    <3>1. Fd \in SUBSET Fd
      OBVIOUS
    <3>2. QED BY <3>1, ClosesFacts
  <2>3. inode'[m] = IF m = d THEN [a EXCEPT !.ref = @ + 1] ELSE a
    BY <1>1
  <2> HIDE DEF k
  <2>4. Counted(inode[m], a, k, k) /\ Seen(a) = Seen(inode[m])
    <3>1. k > 0 => inode[m].ref > 0
      BY <2>1, <2>2
    <3>2. QED BY <2>1, <2>2, <3>1, AnotherFacts
  <2> HIDE DEF a
  <2>5. a \in Inode /\ Sound(a) /\ a.ref = inode[m].ref + k /\ a.opens = inode[m].opens + k
    BY <2>4 DEF Counted
  <2>6. Cardinality(Led(file', m)) = Cardinality(Led(file, m)) + k
    <3>1. Cardinality(Led(Copied(file, p, c), m)) =
            Cardinality(Led(file, m)) + Cardinality(At(file, p, Fd, m))
      BY <1>2, <1>3, Copies
    <3>2. QED BY <1>1, <2>2, <3>1
  <2>7. CASE m = d
    <3>1. Cardinality(Here(pwd, m)) > 0
      <4>1. p \in Here(pwd, m)
        BY <2>7 DEF Here, d
      <4>2. IsFiniteSet(Here(pwd, m)) /\ Here(pwd, m) # {}
        BY <4>1, HereFinite
      <4>3. Cardinality(Here(pwd, m)) # 0
        BY <4>2, FS_EmptySet
      <4>4. QED BY <2>1, <4>3
    <3>2. a.ref > 0
      BY <2>1, <2>2, <2>5, <3>1
    <3>3. /\ Counted(a, [a EXCEPT !.ref = @ + 1], 1, 0)
          /\ Seen([a EXCEPT !.ref = @ + 1]) = Seen(a)
      BY <2>5, <3>2, HeldFacts
    <3>4. Counted(a, inode'[m], 1, 0) /\ Seen(inode'[m]) = Seen(a)
      BY <2>3, <2>7, <3>3
    <3>5. Counted(inode[m], inode'[m], k + 1, k)
      BY <2>1, <2>2, <2>5, <3>4 DEF Counted
    <3>6. Balanced(m, k + 1, k)
      BY <1>1, <1>4, <2>1, <2>2, <2>6, <2>7, <3>5 DEF Balanced
    <3>7. k \in Int /\ k + 1 \in Int
      BY <2>2
    <3>8. QED BY <2>4, <3>4, <3>6, <3>7
  <2>8. CASE m # d
    <3>1. inode'[m] = a
      BY <2>3, <2>8
    <3>2. Balanced(m, k, k)
      BY <1>1, <1>4, <2>1, <2>2, <2>4, <2>6, <2>8, <3>1 DEF Balanced
    <3>3. QED BY <2>2, <2>4, <3>1, <3>2
  <2>9. QED BY <2>7, <2>8
<1>7. file' \in Table
  BY <1>1, <1>2, <1>3, Copies
<1>8. Born'
  <2>1. \A q \in Proc : /\ pwd'[q] = IF q = c THEN d ELSE pwd[q]
                        /\ state'[q] = IF q = c THEN "alive" ELSE state[q]
    BY <1>1, <1>2 DEF Put
  <2>2. \A q \in Proc \ {c} : file'[q] = file[q]
    BY <1>1, <1>2 DEF Copied, Table
  <2>3. QED BY <1>3, <2>1, <2>2 DEF IInv, Born
<1>9. state' \in [Proc -> {"unborn", "alive", "gone"}] /\ leaked' \in [Node -> Nat]
  BY <1>1, <1>2 DEF IInv, Types
<1>10. pwd' \in [Proc -> Dir \cup {NONE}]
  BY <1>1, <1>2, <1>3 DEF Put
<1>11. QED BY <1>5, <1>6, <1>7, <1>8, <1>9, <1>10, Balances

LEMMA ExecFailsStep ==
  ASSUME IInv, NEW p \in Proc, NEW n \in File, ExecFails(p, n)
  PROVE  /\ IInv' /\ \A m \in Node : Seen(inode'[m]) = Seen(inode[m])
         /\ \A q \in Proc \ {p} : file'[q] = file[q]
<1> DEFINE kept == [fd \in Fd |-> IF fd \in Above THEN NONE ELSE file[p][fd]]
           S == {x \in Fd : kept[x] = NONE}
           fd == Lowest(S)
           d == [node |-> n, writable |-> FALSE]
           g == Cleared(file, p, Above)
<1>1. /\ Runs(p) /\ file' = [file EXCEPT ![p] = [kept EXCEPT ![fd] = d]]
      /\ state' = [state EXCEPT ![p] = "gone"] /\ UNCHANGED <<pwd, leaked>>
      /\ inode' = [m \in Node |-> LET i == Closed(inode[m], Uses(p, Above, m))
                                  IN IF m = n THEN [Got(i) EXCEPT !.opens = @ + 1] ELSE i]
  BY DEF ExecFails
<1>2. fd \in S
  <2>1. S \in SUBSET Fd /\ S # {}
    BY VfsAssumption DEF VfsAssumption, Above
  <2> HIDE DEF S
  <2>2. QED BY <2>1, LowestFree
<1>3. file \in Table /\ state \in [Proc -> {"unborn", "alive", "gone"}] /\ n \in Node
  BY DEF IInv, Types, Node
<1>4. Above \in SUBSET Fd /\ d \in Desc /\ d.node = n
  BY <1>3 DEF Above, Desc
<1>5. fd \in Fd /\ kept[fd] = NONE
  BY <1>2
<1> HIDE DEF fd, S, d
<1>6. g[p] = kept
  BY <1>3 DEF Cleared, Table
<1>7. file' = Given(g, p, fd, d)
  BY <1>1, <1>3, <1>6 DEF Given, Cleared, Table
<1> HIDE DEF g, kept
<1>8. ASSUME NEW m
      PROVE  /\ file' \in Table
             /\ Cardinality(Led(file', m)) = Cardinality(Led(file, m))
                  - Cardinality(At(file, p, Above, m)) + (IF n = m THEN 1 ELSE 0)
  <2>1. g \in Table /\ Cardinality(Led(g, m)) = Cardinality(Led(file, m)) - Cardinality(At(file, p, Above, m))
    BY <1>3, <1>4, Drops DEF g
  <2>2. g[p][fd] = NONE
    BY <1>5, <1>6
  <2>3. /\ Cardinality(Led(Given(g, p, fd, d), m)) =
             Cardinality(Led(g, m)) + (IF d.node = m THEN 1 ELSE 0)
        /\ Given(g, p, fd, d) \in Table
    BY <1>4, <1>5, <2>1, <2>2, Adds
  <2>4. QED BY <1>4, <1>7, <2>1, <2>3
<1>9. inode' = [m \in Node |-> inode'[m]]
  BY <1>1
<1>10. ASSUME NEW m \in Node
       PROVE  (\E r, o \in Int : Balanced(m, r, o)) /\ Seen(inode'[m]) = Seen(inode[m])
  <2> DEFINE k == Uses(p, Above, m)
             i == Closed(inode[m], k)
  <2>1. /\ Cardinality(Led(file, m)) \in Nat /\ Cardinality(Here(pwd, m)) \in Nat /\ leaked[m] \in Nat
        /\ inode[m].ref \in Nat /\ inode[m].opens \in Nat
    BY Known
  <2>2. /\ k = Cardinality(At(file, p, Above, m)) /\ k \in Nat
        /\ Counted(inode[m], i, 0 - k, 0 - k) /\ Seen(i) = Seen(inode[m])
    BY <1>4, ClosesFacts
  <2>3. inode'[m] = IF m = n THEN [Got(i) EXCEPT !.opens = @ + 1] ELSE i
    BY <1>1
  <2> HIDE DEF k, i
  <2>5. Cardinality(Led(file', m)) = Cardinality(Led(file, m)) - k + (IF n = m THEN 1 ELSE 0)
    BY <1>8, <2>2
  <2>4. i \in Inode /\ Sound(i) /\ i.ref = inode[m].ref - k /\ i.opens = inode[m].opens - k
    BY <2>1, <2>2 DEF Counted
  <2>6. CASE m = n
    <3>1. inode'[m] = Opened(i, FALSE)
      BY <2>3, <2>6 DEF Opened
    <3>2. Counted(i, inode'[m], 1, 1) /\ Seen(inode'[m]) = Seen(i)
      <4>1. Empty \in Value /\ FALSE \in BOOLEAN
        BY VfsAssumption DEF VfsAssumption
      <4>2. Counted(i, Opened(i, FALSE), 1, 1) /\ Seen(Opened(i, FALSE)) = Seen(i)
        BY <2>4, <4>1, OpenedFacts
      <4>3. QED BY <3>1, <4>2
    <3>3. Counted(inode[m], inode'[m], 1 - k, 1 - k)
      BY <2>1, <2>2, <2>4, <3>2 DEF Counted
    <3>4. Balanced(m, 1 - k, 1 - k)
      <4>1. Cardinality(Led(file', m)) = Cardinality(Led(file, m)) + (1 - k)
        BY <2>1, <2>2, <2>5, <2>6
      <4>2. UNCHANGED <<pwd, leaked>>
        BY <1>1
      <4>3. QED BY <2>1, <2>2, <3>3, <4>1, <4>2 DEF Balanced
    <3>5. 1 - k \in Int
      BY <2>2
    <3>6. QED BY <2>2, <3>2, <3>4, <3>5
  <2>7. CASE m # n
    <3>1. inode'[m] = i
      BY <2>3, <2>7
    <3>2. Balanced(m, 0 - k, 0 - k)
      <4>1. Cardinality(Led(file', m)) = Cardinality(Led(file, m)) + (0 - k)
        BY <2>1, <2>2, <2>5, <2>7
      <4>2. UNCHANGED <<pwd, leaked>>
        BY <1>1
      <4>3. QED BY <2>1, <2>2, <3>1, <4>1, <4>2 DEF Balanced
    <3>3. 0 - k \in Int
      BY <2>2
    <3>4. QED BY <2>2, <3>1, <3>2, <3>3
  <2>8. QED BY <2>6, <2>7
<1>11. \A q \in Proc \ {p} : file'[q] = file[q]
  BY <1>1, <1>3 DEF Table
<1>12. Born'
  BY <1>1, <1>3, <1>11 DEF IInv, Born
<1>13. /\ state' \in [Proc -> {"unborn", "alive", "gone"}]
       /\ pwd' \in [Proc -> Dir \cup {NONE}] /\ leaked' \in [Node -> Nat]
  BY <1>1, <1>3 DEF IInv, Types
<1>14. QED BY <1>8, <1>9, <1>10, <1>11, <1>12, <1>13, Balances

LEMMA ExitStep ==
  ASSUME IInv, NEW p \in Proc, Exit(p)
  PROVE  IInv'
<1>1. UNCHANGED <<file, pwd, inode, leaked>>
  BY DEF Exit
<1>2. Types' /\ Born'
  BY DEF IInv, Types, Born, Exit, Runs
<1>3. QED BY <1>1, <1>2 DEF IInv, CountsExact, Descriptors

------------------------------------------------------------------------------
(* The invariant, and the table of OpenFiles. *)

LEMMA NextIInv ==
  ASSUME IInv, Next
  PROVE  IInv'
<1>1. PICK p \in Proc :
        \/ \E n \in Node : \/ \E writable, empties \in BOOLEAN : Open(p, n, writable, empties)
                           \/ OpenExists(p, n) \/ OpenFails(p, n)
        \/ \E fd \in Fd : \/ Close(p, fd)
                          \/ \E to \in Fd : Dup(p, fd, to)
                          \/ \E v \in Value : Write(p, fd, v) \/ Seek(p, fd, v)
                          \/ Fsync(p, fd)
        \/ \E d \in Dir : Chdir(p, d)
        \/ \E c \in Proc : Fork(p, c)
        \/ Exec(p) \/ (\E n \in File : ExecFails(p, n)) \/ Exit(p)
  BY DEF Next
<1>2. CASE \E n \in Node : \/ \E writable, empties \in BOOLEAN : Open(p, n, writable, empties)
                           \/ OpenExists(p, n) \/ OpenFails(p, n)
  BY <1>2, OpenStep, OpenExistsStep, OpenFailsStep
<1>3. CASE \E fd \in Fd : \/ Close(p, fd)
                          \/ \E to \in Fd : Dup(p, fd, to)
                          \/ \E v \in Value : Write(p, fd, v) \/ Seek(p, fd, v)
                          \/ Fsync(p, fd)
  BY <1>3, CloseStep, DupStep, ChangeStep, FsyncStep
<1>4. CASE \/ \E d \in Dir : Chdir(p, d)
           \/ \E c \in Proc : Fork(p, c)
           \/ Exec(p) \/ (\E n \in File : ExecFails(p, n)) \/ Exit(p)
  BY <1>4, ChdirStep, ForkStep, ExecStep, ExecFailsStep, ExitStep
<1>5. QED BY <1>1, <1>2, <1>3, <1>4

LEMMA Invariance == Spec => []IInv
<1>1. IInv /\ [Next]_vars => IInv'
  <2>1. ASSUME IInv, UNCHANGED vars PROVE IInv'
    BY <2>1 DEF IInv, Types, Born, CountsExact, Descriptors, vars
  <2>2. QED BY <2>1, NextIInv
<1>2. QED BY <1>1, InitIInv, PTL DEF Spec

\* The counts of an inode are those of the descriptors, directories and lost references
\* that there are (inode.c, vfsfile.c, and fork, execve and exit of proc.c).
THEOREM CountsCorrect == Spec => []CountsExact
<1>1. IInv => CountsExact
  BY DEF IInv
<1>2. QED BY <1>1, Invariance, PTL

\* The last close of a file writes it to the disk, whoever else had it open, and what
\* leaves memory is on the disk (inode_open_dec and inode_ref_dec of inode.c).
THEOREM ClosedCorrect == Spec => []ClosedIsClean
<1>1. IInv => ClosedIsClean
  <2> SUFFICES ASSUME IInv, NEW n \in Node
               PROVE  inode[n].opens = 0 \/ inode[n].ref = 0 =>
                        ~inode[n].dirty /\ (inode[n].ref > 0 => inode[n].mem = inode[n].disk)
    BY DEF ClosedIsClean
  <2>1. QED BY DEF IInv, Sound
<1>2. QED BY <1>1, Invariance, PTL

LEMMA InitRefines == Init => Abstract!Init
<1> SUFFICES ASSUME Init PROVE Abstract!Init
  OBVIOUS
<1>1. \A n \in Node : Content(n) = Empty
  BY DEF Init, Content
<1>2. [n \in Node |-> Content(n)] \in [Node -> {Empty}]
  BY <1>1
<1>3. QED BY <1>2 DEF Init, Abstract!Init, Abstract!Node, Node

\* what is not written stays as it was seen
LEMMA SeenSame ==
  ASSUME \A n \in Node : Seen(inode'[n]) = Seen(inode[n])
  PROVE  [n \in Node |-> Content(n)]' = [n \in Node |-> Content(n)]
<1>1. \A n \in Node : Content(n)' = Content(n)
  BY DEF Content, Seen
<1>2. QED BY <1>1

LEMMA SeenChanged ==
  ASSUME NEW m \in Node, NEW v, \A n \in Node : Seen(inode'[n]) = IF n = m THEN v ELSE Seen(inode[n])
  PROVE  [n \in Node |-> Content(n)]' = [[n \in Node |-> Content(n)] EXCEPT ![m] = v]
<1>1. \A n \in Node : Content(n)' = IF n = m THEN v ELSE Content(n)
  BY DEF Content, Seen
<1>2. QED BY <1>1

LEMMA OpenRefines ==
  ASSUME IInv, NEW p \in Proc, NEW n \in Node, NEW writable \in BOOLEAN, NEW empties \in BOOLEAN,
         Open(p, n, writable, empties)
  PROVE  Abstract!Next
<1> DEFINE d == [node |-> n, writable |-> writable]
<1>1. PICK fd \in Fd : file[p][fd] = NONE /\ file' = [file EXCEPT ![p][fd] = d]
  BY OpenStep
<1>2. d \in Desc /\ d.node = n
  BY DEF Desc
<1>3. Abstract!Alive(p) /\ UNCHANGED <<state, pwd>>
  BY DEF Open, Runs, Abstract!Alive
<1> HIDE DEF d
<1>4. /\ empties => n \in File
      /\ \A m \in Node : Seen(inode'[m]) = IF m = n /\ empties THEN Empty ELSE Seen(inode[m])
  BY OpenStep
<1>5. Abstract!Open(p, fd, d)
  <2>1. CASE empties
    <3>1. [m \in Node |-> Content(m)]' = [[m \in Node |-> Content(m)] EXCEPT ![n] = Empty]
      BY <1>4, <2>1, SeenChanged
    <3>2. QED BY <1>1, <1>2, <1>3, <1>4, <2>1, <3>1 DEF Abstract!Open
  <2>2. CASE ~empties
    <3>1. [m \in Node |-> Content(m)]' = [m \in Node |-> Content(m)]
      BY <1>4, <2>2, SeenSame
    <3>2. QED BY <1>1, <1>2, <1>3, <3>1 DEF Abstract!Open
  <2>3. QED BY <2>1, <2>2
<1>6. d \in Abstract!Desc
  BY <1>2 DEF Desc, Node, Abstract!Desc, Abstract!Node
<1>7. QED BY <1>5, <1>6 DEF Abstract!Next

LEMMA ChangeRefines ==
  ASSUME IInv, NEW p \in Proc, NEW fd \in Fd, NEW v \in Value, Write(p, fd, v) \/ Seek(p, fd, v)
  PROVE  Abstract!Next
<1> DEFINE n == file[p][fd].node
<1>1. /\ n \in File
      /\ \A m \in Node : Seen(inode'[m]) = IF m = n THEN v ELSE Seen(inode[m])
  BY ChangeStep
<1>2. file[p][fd] # NONE /\ Abstract!Alive(p) /\ UNCHANGED <<state, file, pwd>>
  BY DEF Write, Seek, Runs, Abstract!Alive
<1>3. \E d \in Abstract!Described(p) : d.node = n
  BY <1>2 DEF Abstract!Described
<1> HIDE DEF n
<1>4. n \in Node
  BY <1>1 DEF Node
<1>5. [m \in Node |-> Content(m)]' = [[m \in Node |-> Content(m)] EXCEPT ![n] = v]
  BY <1>1, <1>4, SeenChanged
<1>6. Abstract!Update(p, n, v)
  BY <1>2, <1>3, <1>5 DEF Abstract!Update
<1>7. QED BY <1>1, <1>6 DEF Abstract!Next

LEMMA ClosesRefine ==
  ASSUME NEW p \in Proc, NEW S \in SUBSET Fd, Runs(p), UNCHANGED <<state, pwd>>,
         file' = Cleared(file, p, S), \A m \in Node : Seen(inode'[m]) = Seen(inode[m])
  PROVE  Abstract!Next
<1>1. [m \in Node |-> Content(m)]' = [m \in Node |-> Content(m)]
  BY SeenSame
<1>2. Abstract!Close(p, S)
  BY <1>1 DEF Abstract!Close, Cleared, Runs, Abstract!Alive
<1>3. QED BY <1>2 DEF Abstract!Next

LEMMA DupRefines ==
  ASSUME IInv, NEW p \in Proc, NEW from \in Fd, NEW to \in Fd, Dup(p, from, to)
  PROVE  Abstract!Next
<1>1. [m \in Node |-> Content(m)]' = [m \in Node |-> Content(m)]
  BY DupStep, SeenSame
<1>2. Abstract!Dup(p, from, to)
  BY <1>1 DEF Dup, Runs, Abstract!Dup, Abstract!Alive
<1>3. QED BY <1>2 DEF Abstract!Next

LEMMA ChdirRefines ==
  ASSUME IInv, NEW p \in Proc, NEW d \in Dir, Chdir(p, d)
  PROVE  Abstract!Next
<1>1. [m \in Node |-> Content(m)]' = [m \in Node |-> Content(m)]
  BY ChdirStep, SeenSame
<1>2. Abstract!Chdir(p, d)
  BY <1>1 DEF Chdir, Runs, Abstract!Chdir, Abstract!Alive
<1>3. QED BY <1>2 DEF Abstract!Next

LEMMA ForkRefines ==
  ASSUME IInv, NEW p \in Proc, NEW c \in Proc, Fork(p, c)
  PROVE  Abstract!Next
<1>1. [m \in Node |-> Content(m)]' = [m \in Node |-> Content(m)]
  BY ForkStep, SeenSame
<1>2. Abstract!Fork(p, c)
  BY <1>1 DEF Fork, Runs, Abstract!Fork, Abstract!Alive
<1>3. QED BY <1>2 DEF Abstract!Next

\* an execve that fails, and an exit
LEMMA GoesRefine ==
  ASSUME NEW p \in Proc, Runs(p), state' = [state EXCEPT ![p] = "gone"], UNCHANGED pwd,
         file' \in Table, \A q \in Proc \ {p} : file'[q] = file[q],
         \A m \in Node : Seen(inode'[m]) = Seen(inode[m])
  PROVE  Abstract!Next
<1>1. [m \in Node |-> Content(m)]' = [m \in Node |-> Content(m)]
  BY SeenSame
<1>2. file' \in [Proc -> [Fd -> Abstract!Desc \cup {NONE}]]
  BY DEF Table, Desc, Node, Abstract!Desc, Abstract!Node
<1>3. Abstract!Exit(p)
  BY <1>1, <1>2 DEF Runs, Abstract!Exit, Abstract!Alive
<1>4. QED BY <1>3 DEF Abstract!Next

LEMMA ExitRefines ==
  ASSUME IInv, NEW p \in Proc, Exit(p)
  PROVE  Abstract!Next
<1>1. /\ Runs(p) /\ state' = [state EXCEPT ![p] = "gone"] /\ UNCHANGED <<pwd, file, inode>>
      /\ file' \in Table
  BY DEF Exit, IInv, Types
<1>2. \A m \in Node : Seen(inode'[m]) = Seen(inode[m])
  BY <1>1
<1>3. \A q \in Proc \ {p} : file'[q] = file[q]
  BY <1>1
<1>4. QED BY <1>1, <1>2, <1>3, GoesRefine

LEMMA ExecFailsRefines ==
  ASSUME IInv, NEW p \in Proc, NEW n \in File, ExecFails(p, n)
  PROVE  Abstract!Next
<1>1. /\ IInv' /\ \A m \in Node : Seen(inode'[m]) = Seen(inode[m])
      /\ \A q \in Proc \ {p} : file'[q] = file[q]
  BY ExecFailsStep
<1>2. Runs(p) /\ state' = [state EXCEPT ![p] = "gone"] /\ UNCHANGED pwd
  BY DEF ExecFails
<1>3. file' \in Table
  BY <1>1 DEF IInv, Types
<1>4. QED BY <1>1, <1>2, <1>3, GoesRefine

\* the calls that the processes do not notice
LEMMA Unnoticed ==
  ASSUME UNCHANGED <<state, file, pwd>>, \A m \in Node : Seen(inode'[m]) = Seen(inode[m])
  PROVE  UNCHANGED Abstract!vars
<1>1. [m \in Node |-> Content(m)]' = [m \in Node |-> Content(m)]
  BY SeenSame
<1>2. QED BY <1>1 DEF Abstract!vars

LEMMA NextRefines ==
  ASSUME IInv, [Next]_vars
  PROVE  [Abstract!Next]_(Abstract!vars)
<1>1. CASE UNCHANGED vars
  BY <1>1, Unnoticed DEF vars
<1>2. ASSUME NEW p \in Proc, NEW n \in Node,
             \/ \E writable, empties \in BOOLEAN : Open(p, n, writable, empties)
             \/ OpenExists(p, n) \/ OpenFails(p, n)
      PROVE  [Abstract!Next]_(Abstract!vars)
  <2>1. CASE \E writable, empties \in BOOLEAN : Open(p, n, writable, empties)
    BY <2>1, OpenRefines
  <2>2. CASE OpenExists(p, n)
    <3>1. UNCHANGED <<state, file, pwd>>
      BY <2>2 DEF OpenExists
    <3>2. \A m \in Node : Seen(inode'[m]) = Seen(inode[m])
      BY <2>2, OpenExistsStep
    <3>3. QED BY <3>1, <3>2, Unnoticed
  <2>3. CASE OpenFails(p, n)
    <3>1. UNCHANGED <<state, file, pwd>>
      BY <2>3 DEF OpenFails
    <3>2. \A m \in Node : Seen(inode'[m]) = Seen(inode[m])
      BY <2>3, OpenFailsStep
    <3>3. QED BY <3>1, <3>2, Unnoticed
  <2>4. QED BY <1>2, <2>1, <2>2, <2>3
<1>3. ASSUME NEW p \in Proc, NEW fd \in Fd,
             \/ Close(p, fd)
             \/ \E to \in Fd : Dup(p, fd, to)
             \/ \E v \in Value : Write(p, fd, v) \/ Seek(p, fd, v)
             \/ Fsync(p, fd)
      PROVE  [Abstract!Next]_(Abstract!vars)
  <2>1. CASE Close(p, fd)
    <3>1. Runs(p) /\ UNCHANGED <<state, pwd>> /\ {fd} \in SUBSET Fd
      BY <2>1 DEF Close
    <3>2. file' = Cleared(file, p, {fd}) /\ \A m \in Node : Seen(inode'[m]) = Seen(inode[m])
      BY <2>1, CloseStep
    <3>3. QED BY <3>1, <3>2, ClosesRefine
  <2>2. CASE Fsync(p, fd)
    <3>1. UNCHANGED <<state, file, pwd>>
      BY <2>2 DEF Fsync
    <3>2. \A m \in Node : Seen(inode'[m]) = Seen(inode[m])
      BY <2>2, FsyncStep
    <3>3. QED BY <3>1, <3>2, Unnoticed
  <2>3. QED BY <1>3, <2>1, <2>2, DupRefines, ChangeRefines
<1>4. ASSUME NEW p \in Proc, Exec(p)
      PROVE  [Abstract!Next]_(Abstract!vars)
  <2>1. Runs(p) /\ UNCHANGED <<state, pwd>> /\ Above \in SUBSET Fd
    BY <1>4 DEF Exec, Above
  <2>2. file' = Cleared(file, p, Above) /\ \A m \in Node : Seen(inode'[m]) = Seen(inode[m])
    BY <1>4, ExecStep
  <2>3. QED BY <2>1, <2>2, ClosesRefine
<1>5. ASSUME NEW p \in Proc,
             \/ \E d \in Dir : Chdir(p, d)
             \/ \E c \in Proc : Fork(p, c)
             \/ (\E n \in File : ExecFails(p, n)) \/ Exit(p)
      PROVE  [Abstract!Next]_(Abstract!vars)
  BY <1>5, ChdirRefines, ForkRefines, ExecFailsRefines, ExitRefines
<1>6. CASE Next
  BY <1>2, <1>3, <1>4, <1>5, <1>6 DEF Next
<1>7. QED BY <1>1, <1>6

\* What the calls on files do is what OpenFiles promises: for the processes there are
\* no counts, no cache and no reclaimed inodes.
THEOREM Refinement == Spec => Implements
<1>1. Init => Abstract!Init
  BY InitRefines
<1>2. IInv /\ [Next]_vars => [Abstract!Next]_(Abstract!vars)
  BY NextRefines
<1>3. QED BY <1>1, <1>2, Invariance, PTL DEF Spec, Implements, Abstract!Spec
==============================================================================
