------------------------------ MODULE SfsProofs ------------------------------
(* The blocks of the simple file system, what reads return, and the refinement of *)
(* FileData, for a disk of any size and blocks of any size.                       *)
(*                                                                                *)
(* The argument: every block is free or in one place of one inode (Owned), and a  *)
(* file has a block at each index that it counts (Covered).  The functions of the  *)
(* file system are described by what they make of the bytes of the files: blocks   *)
(* are appended (Grows), taken away (Cuts), written (Wrote); an inode that is not   *)
(* dirty is the one on the disk (Clean).  For the refinement a file moreover has    *)
(* the blocks for its size (Enough) and holds zeros behind it (Blank), and no       *)
(* position is behind the end.                                                      *)
EXTENDS Sfs, Lemmas

------------------------------------------------------------------------------
(* Who owns a block. *)

\* an inode, a block and a file system
DiskInode == [size : 0..MaxFile, blocks : 0..NDirect+NEntries,
              direct : [0..NDirect-1 -> 0..NBlocks], indirect : 0..NBlocks]
DiskBlock == [data : [0..BlockSize-1 -> Byte], entry : [0..NEntries-1 -> 0..NBlocks]]
Store == [free : SUBSET Block, unused : Nat, block : [Block -> DiskBlock],
          din : [File -> DiskInode], dirty : [File -> BOOLEAN], ondisk : [File -> DiskInode]]

\* the places where the number of a block is kept: the entries of every file, and
\* its indirect block at -1
Spot == File \X (-1..NDirect+NEntries-1)
InSpot(s, x) == IF x[2] = -1 THEN s.din[x[1]].indirect ELSE Mapped(s, s.din[x[1]], x[2])
Layout(s) == [x \in Spot |-> InSpot(s, x)]
Owned(L, F, n) ==
  /\ \A x, y \in Spot : L[x] = L[y] /\ L[x] # NoBlock => x = y
  /\ \A x \in Spot : L[x] \notin F
  /\ \A b \in Block : b \in F \/ \E x \in Spot : L[x] = b
  /\ n = Cardinality(F)
Covered(s) == \A f \in File, i \in Index : i < s.din[f].blocks => Mapped(s, s.din[f], i) # NoBlock
Core(s) == s \in Store /\ Owned(Layout(s), s.free, s.unused) /\ Covered(s)

\* The constants.
LEMMA Constants ==
  /\ NBlocks \in Nat /\ NDirect \in Nat /\ NEntries \in Nat /\ BlockSize \in Nat
  /\ NBlocks > 0 /\ NDirect > 0 /\ NEntries > 0 /\ BlockSize > 0
  /\ Zero \in Byte /\ SeekTo \subseteq 0..MaxFile /\ MaxFile \in Nat
  /\ MaxFile = (NDirect + NEntries) * BlockSize
<1>1. /\ NBlocks \in Nat /\ NDirect \in Nat /\ NEntries \in Nat /\ BlockSize \in Nat
      /\ NBlocks > 0 /\ NDirect > 0 /\ NEntries > 0 /\ BlockSize > 0
      /\ Zero \in Byte /\ SeekTo \subseteq 0..MaxFile
  BY SfsAssumption DEF SfsAssumption
<1>2. MaxFile = (NDirect + NEntries) * BlockSize
  BY DEF MaxFile
<1>3. MaxFile \in Nat
  BY <1>1, <1>2
<1>4. QED BY <1>1, <1>2, <1>3

\* What is in a file system.
LEMMA StoreFacts ==
  ASSUME NEW s \in Store
  PROVE  /\ s.free \in SUBSET Block /\ s.unused \in Nat /\ s.block \in [Block -> DiskBlock]
         /\ s.din \in [File -> DiskInode] /\ s.dirty \in [File -> BOOLEAN]
         /\ s.ondisk \in [File -> DiskInode]
         /\ \A f \in File : s.din[f] \in DiskInode /\ s.ondisk[f] \in DiskInode
         /\ \A b \in Block : s.block[b] \in DiskBlock
BY DEF Store

\* What is in an inode.
LEMMA InodeFacts ==
  ASSUME NEW d \in DiskInode
  PROVE  /\ d.size \in 0..MaxFile /\ d.blocks \in 0..NDirect+NEntries
         /\ d.direct \in [0..NDirect-1 -> 0..NBlocks] /\ d.indirect \in 0..NBlocks
         /\ \A i \in 0..NDirect-1 : d.direct[i] \in 0..NBlocks
         /\ d.indirect # NoBlock => d.indirect \in Block
BY Constants DEF DiskInode, Block, NoBlock

\* What is in a block.
LEMMA BlockFacts ==
  ASSUME NEW b \in DiskBlock
  PROVE  /\ b.data \in [0..BlockSize-1 -> Byte] /\ b.entry \in [0..NEntries-1 -> 0..NBlocks]
         /\ \A i \in 0..NEntries-1 : b.entry[i] \in 0..NBlocks
BY DEF DiskBlock

\* What a spot holds is no block or a block.
LEMMA SpotIn ==
  ASSUME NEW s \in Store
  PROVE  /\ \A f \in File, i \in Index : Mapped(s, s.din[f], i) \in 0..NBlocks
         /\ Layout(s) \in [Spot -> 0..NBlocks]
<1>1. ASSUME NEW f \in File, NEW i \in Index PROVE Mapped(s, s.din[f], i) \in 0..NBlocks
  <2>1. s.din[f] \in DiskInode /\ \A b \in Block : s.block[b] \in DiskBlock
    BY StoreFacts
  <2>2. CASE i < NDirect
    <3>1. i \in 0..NDirect-1
      BY <2>2, Constants DEF Index
    <3>2. s.din[f].direct[i] \in 0..NBlocks
      BY <2>1, <3>1, InodeFacts
    <3>3. QED BY <2>2, <3>2 DEF Mapped
  <2>3. CASE ~(i < NDirect) /\ s.din[f].indirect = NoBlock
    BY <2>3, Constants DEF Mapped, NoBlock
  <2>4. CASE ~(i < NDirect) /\ s.din[f].indirect # NoBlock
    <3>1. i - NDirect \in 0..NEntries-1
      BY <2>4, Constants DEF Index
    <3>2. s.din[f].indirect \in Block
      BY <2>1, <2>4, InodeFacts
    <3>3. s.block[s.din[f].indirect].entry[i - NDirect] \in 0..NBlocks
      BY <2>1, <3>1, <3>2, BlockFacts
    <3>4. QED BY <2>4, <3>3 DEF Mapped
  <2>5. QED BY <2>2, <2>3, <2>4
<1>2. ASSUME NEW x \in Spot PROVE InSpot(s, x) \in 0..NBlocks
  <2>1. x[1] \in File /\ x[2] \in -1..NDirect+NEntries-1
    BY DEF Spot
  <2>2. CASE x[2] = -1
    <3>1. s.din[x[1]] \in DiskInode
      BY <2>1, StoreFacts
    <3>2. s.din[x[1]].indirect \in 0..NBlocks
      BY <3>1, InodeFacts
    <3>3. QED BY <2>2, <3>2 DEF InSpot
  <2>3. CASE x[2] # -1
    <3>1. x[2] \in Index
      BY <2>1, <2>3, Constants DEF Index
    <3>2. QED BY <1>1, <2>1, <2>3, <3>1 DEF InSpot
  <2>4. QED BY <2>2, <2>3
<1>3. QED BY <1>1, <1>2 DEF Layout

\* The spots of a file.
LEMMA SpotIs ==
  ASSUME NEW s, NEW f \in File
  PROVE  /\ \A i \in Index : <<f, i>> \in Spot /\ Layout(s)[<<f, i>>] = Mapped(s, s.din[f], i)
         /\ <<f, -1>> \in Spot /\ Layout(s)[<<f, -1>>] = s.din[f].indirect
<1>1. ASSUME NEW i \in Index
      PROVE  <<f, i>> \in Spot /\ Layout(s)[<<f, i>>] = Mapped(s, s.din[f], i)
  <2>1. i # -1 /\ i \in -1..NDirect+NEntries-1
    BY Constants DEF Index
  <2>2. <<f, i>> \in Spot
    BY <2>1 DEF Spot
  <2>3. Layout(s)[<<f, i>>] = InSpot(s, <<f, i>>)
    BY <2>2 DEF Layout
  <2>4. QED BY <2>1, <2>2, <2>3 DEF InSpot
<1>2. <<f, -1>> \in Spot
  BY Constants DEF Spot
<1>3. Layout(s)[<<f, -1>>] = s.din[f].indirect
  BY <1>2 DEF Layout, InSpot
<1>4. QED BY <1>1, <1>2, <1>3

\* The disk has finitely many blocks.
LEMMA FiniteBlocks == IsFiniteSet(Block)
<1>1. 1 \in Int /\ NBlocks \in Int
  BY Constants
<1>2. QED BY <1>1, FS_Interval DEF Block

\* A free block put in an empty spot.
LEMMA OwnsOneMore ==
  ASSUME NEW L \in [Spot -> 0..NBlocks], NEW F \in SUBSET Block, NEW n, Owned(L, F, n),
         NEW x \in Spot, L[x] = NoBlock, NEW b \in F
  PROVE  Owned([L EXCEPT ![x] = b], F \ {b}, n - 1) /\ n - 1 \in Nat
<1> DEFINE M == [L EXCEPT ![x] = b]
<1>1. \A y \in Spot : M[y] = IF y = x THEN b ELSE L[y]
  OBVIOUS
<1>2. b # NoBlock /\ \A y \in Spot : L[y] # b
  BY DEF Owned, Block, NoBlock
<1> HIDE DEF M
<1>3. \A y, z \in Spot : M[y] = M[z] /\ M[y] # NoBlock => y = z
  BY <1>1, <1>2 DEF Owned
<1>4. \A y \in Spot : M[y] \notin F \ {b}
  BY <1>1 DEF Owned
<1>5. ASSUME NEW c \in Block PROVE c \in F \ {b} \/ \E y \in Spot : M[y] = c
  <2>1. c \in F \/ \E y \in Spot : L[y] = c
    BY DEF Owned
  <2>2. CASE c = b
    BY <1>1, <2>2
  <2>3. CASE c # b /\ c \notin F
    <3>1. PICK y \in Spot : L[y] = c
      BY <2>1, <2>3
    <3>2. y # x
      BY <2>3, <3>1, Constants DEF Block, NoBlock
    <3>3. QED BY <1>1, <3>1, <3>2
  <2>4. QED BY <2>2, <2>3
<1>6. n - 1 = Cardinality(F \ {b}) /\ n - 1 \in Nat
  <2>1. IsFiniteSet(F)
    BY FiniteBlocks, FS_Subset
  <2>2. Cardinality(F \ {b}) = Cardinality(F) - 1 /\ IsFiniteSet(F \ {b})
    BY <2>1, FS_RemoveElement
  <2>3. QED BY <2>2, FS_CardinalityType DEF Owned
<1>7. Owned(M, F \ {b}, n - 1)
  BY <1>3, <1>4, <1>5, <1>6 DEF Owned
<1>8. QED BY <1>6, <1>7 DEF M

\* The block of a spot given back.
LEMMA OwnsOneLess ==
  ASSUME NEW L \in [Spot -> 0..NBlocks], NEW F \in SUBSET Block, NEW n, Owned(L, F, n),
         NEW x \in Spot, L[x] # NoBlock
  PROVE  /\ Owned([L EXCEPT ![x] = NoBlock], F \cup {L[x]}, n + 1) /\ n + 1 \in Nat
         /\ L[x] \in Block /\ L[x] \notin F
<1> DEFINE M == [L EXCEPT ![x] = NoBlock]
<1>b. PICK b : b = L[x]
  OBVIOUS
<1>1. \A y \in Spot : M[y] = IF y = x THEN NoBlock ELSE L[y]
  BY Constants DEF NoBlock
<1>2. b \in Block /\ b \notin F /\ \A y \in Spot : L[y] = b => y = x
  <2>1. b \in 0..NBlocks /\ b # 0
    BY <1>b DEF NoBlock
  <2>2. QED BY <1>b, <2>1, Constants DEF Owned, Block
<1> HIDE DEF M
<1>3. \A y, z \in Spot : M[y] = M[z] /\ M[y] # NoBlock => y = z
  BY <1>1 DEF Owned
<1>4. \A y \in Spot : M[y] \notin F \cup {b}
  <2>1. NoBlock \notin Block
    BY DEF NoBlock, Block
  <2>2. QED BY <1>1, <1>2, <2>1 DEF Owned
<1>5. \A c \in Block : c \in F \cup {b} \/ \E y \in Spot : M[y] = c
  BY <1>1, <1>b DEF Owned
<1>6. n + 1 = Cardinality(F \cup {b}) /\ n + 1 \in Nat
  <2>1. IsFiniteSet(F)
    BY FiniteBlocks, FS_Subset
  <2>2. Cardinality(F \cup {b}) = Cardinality(F) + 1
    BY <1>2, <2>1, FS_AddElement
  <2>3. QED BY <2>1, <2>2, FS_CardinalityType DEF Owned
<1>7. Owned(M, F \cup {b}, n + 1)
  BY <1>3, <1>4, <1>5, <1>6 DEF Owned
<1>8. QED BY <1>2, <1>6, <1>7, <1>b DEF M

\* Owned says of every block what BlocksExact says.
LEMMA OwnedUses ==
  ASSUME Core(fs), NEW b \in Block
  PROVE  Uses(b) = IF b \in fs.free THEN 0 ELSE 1
<1> DEFINE L == Layout(fs)
           A == {x \in File \X Index : Mapped(fs, fs.din[x[1]], x[2]) = b}
           B == {f \in File : fs.din[f].indirect = b}
<1>1. Owned(L, fs.free, fs.unused)
  BY DEF Core
<1>2. \A f \in File, i \in Index : <<f, i>> \in Spot /\ (<<f, i>> \in A <=> L[<<f, i>>] = b)
  BY SpotIs
<1>3. \A f \in File : <<f, -1>> \in Spot /\ (f \in B <=> L[<<f, -1>>] = b)
  BY SpotIs
<1>4. \A x \in A : x[1] \in File /\ x[2] \in Index /\ x = <<x[1], x[2]>>
  OBVIOUS
<1>5. \A x \in Spot : \E f \in File : x = <<f, -1>> \/ \E i \in Index : x = <<f, i>>
  <2> SUFFICES ASSUME NEW x \in Spot PROVE \E f \in File : x = <<f, -1>> \/ \E i \in Index : x = <<f, i>>
    OBVIOUS
  <2>1. x[1] \in File /\ x[2] \in -1..NDirect+NEntries-1 /\ x = <<x[1], x[2]>>
    BY DEF Spot
  <2>2. x[2] = -1 \/ x[2] \in Index
    BY <2>1, Constants DEF Index
  <2>3. QED BY <2>1, <2>2
<1>6. Uses(b) = Cardinality(A) + Cardinality(B)
  BY DEF Uses
<1>7. b # NoBlock
  BY DEF Block, NoBlock
<1>8. Cardinality({}) = 0
  BY FS_EmptySet
<1> HIDE DEF L, A, B
<1>9. CASE b \in fs.free
  <2>1. \A x \in Spot : L[x] # b
    BY <1>1, <1>9 DEF Owned
  <2>2. A = {}
    BY <1>2, <1>4, <2>1
  <2>3. B = {}
    <3>1. \A f \in B : f \in File
      BY DEF B
    <3>2. QED BY <1>3, <2>1, <3>1
  <2>4. QED BY <1>6, <1>8, <1>9, <2>2, <2>3
<1>10. CASE b \notin fs.free
  <2>1. PICK x \in Spot : L[x] = b
    BY <1>1, <1>10 DEF Owned
  <2>2. \A y \in Spot : L[y] = b => y = x
    BY <1>1, <1>7, <2>1 DEF Owned
  <2>3. PICK f \in File : x = <<f, -1>> \/ \E i \in Index : x = <<f, i>>
    BY <1>5
  <2>4. CASE x = <<f, -1>>
    <3>1. f \in B /\ \A g \in B : g = f
      <4>1. f \in B
        BY <1>3, <2>1, <2>4
      <4>2. ASSUME NEW g \in B PROVE g = f
        <5>1. g \in File
          BY DEF B
        <5>2. <<g, -1>> = x
          BY <1>3, <2>2, <5>1
        <5>3. QED BY <2>4, <5>2
      <4>3. QED BY <4>1, <4>2
    <3>2. Cardinality(B) = 1
      BY <3>1, CountOne
    <3>3. A = {}
      <4> SUFFICES ASSUME NEW y \in A PROVE FALSE
        OBVIOUS
      <4>1. y = x /\ y[2] \in Index
        BY <1>2, <1>4, <2>2
      <4>2. y[2] = -1
        BY <2>4, <4>1
      <4>3. QED BY <4>1, <4>2, Constants DEF Index
    <3>4. QED BY <1>6, <1>8, <1>10, <3>2, <3>3
  <2>5. ASSUME NEW i \in Index, x = <<f, i>> PROVE Uses(b) = 1
    <3>1. x \in A /\ \A y \in A : y = x
      BY <1>2, <1>4, <2>1, <2>2, <2>5
    <3>2. Cardinality(A) = 1
      BY <3>1, CountOne
    <3>3. B = {}
      <4> SUFFICES ASSUME NEW g \in B PROVE FALSE
        OBVIOUS
      <4>1. g \in File
        BY DEF B
      <4>2. <<g, -1>> = <<f, i>>
        BY <1>3, <2>2, <2>5, <4>1
      <4>3. i = -1
        BY <4>2
      <4>4. QED BY <4>3, Constants DEF Index
    <3>4. QED BY <1>6, <1>8, <3>2, <3>3
  <2>6. QED BY <1>10, <2>3, <2>4, <2>5
<1>11. QED BY <1>9, <1>10

------------------------------------------------------------------------------
(* A block put into a file. *)

\* files other than f stay as they are, and so does what is on the disk
Others(s, t, f) ==
  /\ \A g \in File : g # f => t.din[g] = s.din[g] /\ t.dirty[g] = s.dirty[g]
  /\ t.ondisk = s.ondisk

\* the map of f changes only if f becomes dirty
Noted(s, t, f) ==
  ~t.dirty[f] => /\ ~s.dirty[f] /\ t.din[f].direct = s.din[f].direct
                 /\ t.din[f].indirect = s.din[f].indirect

\* t is s with the free block b, cleared, in spot i of f
Takes(s, t, f, i, b) ==
  /\ t \in Store /\ b \in s.free /\ Layout(s)[<<f, i>>] = NoBlock
  /\ t.free = s.free \ {b} /\ t.unused = s.unused - 1
  /\ Layout(t) = [Layout(s) EXCEPT ![<<f, i>>] = b]
  /\ \A c \in Block : t.block[c].data = IF c = b THEN Cleared.data ELSE s.block[c].data
  /\ Others(s, t, f) /\ Noted(s, t, f)
  /\ t.din[f].size = s.din[f].size /\ t.din[f].blocks = s.din[f].blocks

\* sfs_block_alloc takes a free block, if there is one.
LEMMA NewIn ==
  ASSUME NEW s \in Store, s.free # {}
  PROVE  New(s) \in s.free
<1>1. s.free \subseteq Nat
  BY StoreFacts, Constants DEF Block
<1>2. PICK m : m \in s.free /\ \A c \in s.free : m <= c
  BY <1>1, MinIn
<1>3. QED BY <1>2 DEF New

\* What is in a block that has been cleared.
LEMMA ClearedFacts ==
  /\ Cleared \in DiskBlock
  /\ \A j \in 0..BlockSize-1 : Cleared.data[j] = Zero
  /\ \A k \in 0..NEntries-1 : Cleared.entry[k] = NoBlock
BY Constants DEF Cleared, DiskBlock, NoBlock

\* sfs_block_alloc, field by field.
LEMMA AllocFacts ==
  ASSUME NEW s \in Store, NEW a, a = Alloc(s), NEW b, b = New(s)
  PROVE  /\ a = [free |-> s.free \ {b}, unused |-> s.unused - 1,
                 block |-> [s.block EXCEPT ![b] = Cleared], din |-> s.din,
                 dirty |-> s.dirty, ondisk |-> s.ondisk]
BY DEF Alloc, Store

\* t maps spot i of f to b, and everything else as s does
Maps(s, t, f, i, b) ==
  /\ \A g \in File : t.din[g].indirect = IF g = f /\ i = -1 THEN b ELSE s.din[g].indirect
  /\ \A g \in File, k \in Index :
       Mapped(t, t.din[g], k) = IF g = f /\ k = i THEN b ELSE Mapped(s, s.din[g], k)

\* A layout from its parts.
LEMMA LayoutIs ==
  ASSUME NEW s \in Store, NEW t \in Store, NEW f \in File, NEW i \in -1..NDirect+NEntries-1, NEW b,
         Maps(s, t, f, i, b)
  PROVE  Layout(t) = [Layout(s) EXCEPT ![<<f, i>>] = b]
<1> USE DEF Maps
<1>1. ASSUME NEW x \in Spot PROVE InSpot(t, x) = IF x = <<f, i>> THEN b ELSE InSpot(s, x)
  <2>1. PICK g \in File, k \in -1..NDirect+NEntries-1 : x = <<g, k>>
    BY DEF Spot
  <2>2. x[1] = g /\ x[2] = k /\ (x = <<f, i>> <=> g = f /\ k = i)
    BY <2>1
  <2>3. CASE k = -1
    BY <2>2, <2>3 DEF InSpot
  <2>4. CASE k # -1
    <3>1. k \in Index
      BY <2>4, Constants DEF Index
    <3>2. InSpot(t, x) = Mapped(t, t.din[g], k) /\ InSpot(s, x) = Mapped(s, s.din[g], k)
      BY <2>2, <2>4 DEF InSpot
    <3>3. QED BY <2>2, <3>1, <3>2
  <2>5. QED BY <2>3, <2>4
<1>2. QED BY <1>1 DEF Layout

\* The block in a spot is not free.
LEMMA IndirectUsed ==
  ASSUME NEW s, Core(s)
  PROVE  /\ \A g \in File : s.din[g].indirect \notin s.free
         /\ \A g \in File, h \in File :
              s.din[g].indirect = s.din[h].indirect /\ s.din[g].indirect # NoBlock => g = h
         /\ \A g \in File, i \in Index, h \in File, k \in Index :
              /\ Mapped(s, s.din[g], i) \notin s.free
              /\ Mapped(s, s.din[g], i) # NoBlock =>
                   /\ Mapped(s, s.din[g], i) = Mapped(s, s.din[h], k) => g = h /\ i = k
                   /\ Mapped(s, s.din[g], i) # s.din[h].indirect
<1> DEFINE L == Layout(s)
<1>1. (\A x, y \in Spot : L[x] = L[y] /\ L[x] # NoBlock => x = y) /\ \A x \in Spot : L[x] \notin s.free
  BY DEF Core, Owned
<1>2. \A g \in File : /\ \A i \in Index : <<g, i>> \in Spot /\ L[<<g, i>>] = Mapped(s, s.din[g], i)
                      /\ <<g, -1>> \in Spot /\ L[<<g, -1>>] = s.din[g].indirect
  BY SpotIs
<1>3. \A i \in Index : i # -1
  BY Constants DEF Index
<1> HIDE DEF L
<1>4. ASSUME NEW g \in File PROVE s.din[g].indirect \notin s.free
  BY <1>1, <1>2
<1>5. ASSUME NEW g \in File, NEW h \in File, s.din[g].indirect = s.din[h].indirect, s.din[g].indirect # NoBlock
      PROVE  g = h
  <2>1. <<g, -1>> = <<h, -1>>
    BY <1>1, <1>2, <1>5
  <2>2. QED BY <2>1
<1>6. ASSUME NEW g \in File, NEW i \in Index, NEW h \in File, NEW k \in Index
      PROVE  /\ Mapped(s, s.din[g], i) \notin s.free
             /\ Mapped(s, s.din[g], i) # NoBlock =>
                  /\ Mapped(s, s.din[g], i) = Mapped(s, s.din[h], k) => g = h /\ i = k
                  /\ Mapped(s, s.din[g], i) # s.din[h].indirect
  <2>1. Mapped(s, s.din[g], i) \notin s.free
    BY <1>1, <1>2
  <2>2. ASSUME Mapped(s, s.din[g], i) # NoBlock, Mapped(s, s.din[g], i) = Mapped(s, s.din[h], k)
        PROVE  g = h /\ i = k
    <3>1. PICK x, y : x = <<g, i>> /\ y = <<h, k>>
      OBVIOUS
    <3>2. x \in Spot /\ y \in Spot /\ L[x] = L[y] /\ L[x] # NoBlock
      BY <1>2, <2>2, <3>1
    <3>3. x = y
      BY <1>1, <3>2
    <3>4. QED BY <3>1, <3>3
  <2>3. ASSUME Mapped(s, s.din[g], i) # NoBlock, Mapped(s, s.din[g], i) = s.din[h].indirect
        PROVE  FALSE
    <3>1. PICK x, y : x = <<g, i>> /\ y = <<h, -1>>
      OBVIOUS
    <3>2. x \in Spot /\ y \in Spot /\ L[x] = L[y] /\ L[x] # NoBlock
      BY <1>2, <2>3, <3>1
    <3>3. x = y
      BY <1>1, <3>2
    <3>4. i = -1
      BY <3>1, <3>3
    <3>5. QED BY <1>3, <3>4
  <2>4. QED BY <2>1, <2>2, <2>3
<1>7. QED BY <1>4, <1>5, <1>6

\* a direct entry
LEMMA TakesDirect ==
  ASSUME NEW s, Core(s), s.free # {}, NEW f \in File, NEW i \in 0..NDirect-1,
         s.din[f].direct[i] = NoBlock
  PROVE  Takes(s, [Alloc(s) EXCEPT !.din[f].direct[i] = New(s), !.dirty[f] = TRUE], f, i, New(s))
<1> DEFINE t == [Alloc(s) EXCEPT !.din[f].direct[i] = New(s), !.dirty[f] = TRUE]
<1>0. s \in Store /\ Owned(Layout(s), s.free, s.unused)
  BY DEF Core
<1>b. PICK b : b = New(s)
  OBVIOUS
<1>1. b \in s.free /\ b \in Block /\ b \in 0..NBlocks
  <2>1. b \in s.free
    BY <1>0, <1>b, NewIn
  <2>2. s.free \in SUBSET Block
    BY <1>0, StoreFacts
  <2>3. QED BY <2>1, <2>2, Constants DEF Block
<1>2. s.din[f] \in DiskInode /\ i \in Index /\ i \in -1..NDirect+NEntries-1 /\ i < NDirect
  BY <1>0, StoreFacts, Constants DEF Index
<1>d. PICK d : d = [s.din[f] EXCEPT !.direct = [s.din[f].direct EXCEPT ![i] = b]]
  OBVIOUS
<1>3. /\ d \in DiskInode /\ d.size = s.din[f].size /\ d.blocks = s.din[f].blocks
      /\ d.indirect = s.din[f].indirect
      /\ \A k \in 0..NDirect-1 : d.direct[k] = IF k = i THEN b ELSE s.din[f].direct[k]
  BY <1>1, <1>2, <1>d DEF DiskInode
<1>4. t = [free |-> s.free \ {b}, unused |-> s.unused - 1,
           block |-> [s.block EXCEPT ![b] = Cleared], din |-> [s.din EXCEPT ![f] = d],
           dirty |-> [s.dirty EXCEPT ![f] = TRUE], ondisk |-> s.ondisk]
  <2>1. PICK a : a = Alloc(s)
    OBVIOUS
  <2>2. a = [free |-> s.free \ {b}, unused |-> s.unused - 1,
           block |-> [s.block EXCEPT ![b] = Cleared], din |-> s.din,
           dirty |-> s.dirty, ondisk |-> s.ondisk]
    BY <1>0, <1>b, <2>1, AllocFacts
  <2>3. t = [a EXCEPT !.din[f].direct[i] = b, !.dirty[f] = TRUE]
    BY <1>b, <2>1
  <2>4. t = [a EXCEPT !.din = [s.din EXCEPT ![f] = d], !.dirty = [s.dirty EXCEPT ![f] = TRUE]]
    BY <1>d, <2>2, <2>3
  <2> HIDE DEF t
  <2>5. QED BY <2>2, <2>4
<1> HIDE DEF t
<1>5. Owned([Layout(s) EXCEPT ![<<f, i>>] = b], s.free \ {b}, s.unused - 1) /\ s.unused - 1 \in Nat
      /\ Layout(s)[<<f, i>>] = NoBlock
  <2>1. <<f, i>> \in Spot /\ Layout(s)[<<f, i>>] = Mapped(s, s.din[f], i)
    BY <1>2, SpotIs
  <2>2. Mapped(s, s.din[f], i) = NoBlock
    BY <1>2 DEF Mapped
  <2>3. Layout(s) \in [Spot -> 0..NBlocks] /\ s.free \in SUBSET Block
    BY <1>0, SpotIn, StoreFacts
  <2>4. QED BY <1>0, <1>1, <2>1, <2>2, <2>3, OwnsOneMore
<1>6. /\ t \in Store /\ t.free = s.free \ {b} /\ t.unused = s.unused - 1 /\ t.ondisk = s.ondisk
      /\ t.din[f] = d /\ t.dirty[f]
      /\ \A g \in File : g # f => t.din[g] = s.din[g] /\ t.dirty[g] = s.dirty[g]
      /\ \A c \in Block : t.block[c] = IF c = b THEN Cleared ELSE s.block[c]
  BY <1>0, <1>1, <1>3, <1>4, <1>5, ClearedFacts DEF Store
<1>7. Layout(t) = [Layout(s) EXCEPT ![<<f, i>>] = b]
  <2>1. \A g \in File : t.din[g].indirect = IF g = f /\ i = -1 THEN b ELSE s.din[g].indirect
    BY <1>2, <1>3, <1>6
  <2>2. ASSUME NEW g \in File, NEW k \in Index
        PROVE  Mapped(t, t.din[g], k) = IF g = f /\ k = i THEN b ELSE Mapped(s, s.din[g], k)
    <3>1. k < NDirect => k \in 0..NDirect-1
      BY Constants DEF Index
    <3>2. t.din[g].indirect = s.din[g].indirect
      BY <1>3, <1>6
    <3>3. s.din[g].indirect # NoBlock => t.block[s.din[g].indirect] = s.block[s.din[g].indirect]
      <4>1. s.din[g].indirect \notin s.free /\ (s.din[g].indirect # NoBlock => s.din[g].indirect \in Block)
        BY <1>0, IndirectUsed, StoreFacts, InodeFacts
      <4>2. QED BY <1>1, <1>6, <4>1
    <3>4. CASE k < NDirect
      BY <1>3, <1>6, <3>1, <3>4 DEF Mapped
    <3>5. CASE ~(k < NDirect)
      BY <1>2, <3>2, <3>3, <3>5 DEF Mapped
    <3>6. QED BY <3>4, <3>5
  <2>3. Maps(s, t, f, i, b)
    BY <2>1, <2>2 DEF Maps
  <2>4. QED BY <1>0, <1>2, <1>6, <2>3, LayoutIs
<1>8. Others(s, t, f) /\ Noted(s, t, f)
  BY <1>6 DEF Others, Noted
<1>9. Takes(s, t, f, i, b)
  BY <1>1, <1>3, <1>5, <1>6, <1>7, <1>8 DEF Takes
<1>10. QED BY <1>9, <1>b DEF t

------------------------------------------------------------------------------
(* Mapping a block. *)

\* the indirect block of a file that has none
LEMMA TakesIndirect ==
  ASSUME NEW s, Core(s), s.free # {}, NEW f \in File, s.din[f].indirect = NoBlock
  PROVE  Takes(s, [Alloc(s) EXCEPT !.din[f].indirect = New(s), !.dirty[f] = TRUE], f, -1, New(s))
<1> DEFINE t == [Alloc(s) EXCEPT !.din[f].indirect = New(s), !.dirty[f] = TRUE]
<1>0. s \in Store /\ Owned(Layout(s), s.free, s.unused)
  BY DEF Core
<1>b. PICK b : b = New(s)
  OBVIOUS
<1>1. b \in s.free /\ b \in Block /\ b \in 0..NBlocks
  <2>1. b \in s.free
    BY <1>0, <1>b, NewIn
  <2>2. s.free \in SUBSET Block
    BY <1>0, StoreFacts
  <2>3. QED BY <2>1, <2>2, Constants DEF Block
<1>2. s.din[f] \in DiskInode /\ -1 \in -1..NDirect+NEntries-1
  BY <1>0, StoreFacts, Constants
<1>d. PICK d : d = [s.din[f] EXCEPT !.indirect = b]
  OBVIOUS
<1>3. /\ d \in DiskInode /\ d.size = s.din[f].size /\ d.blocks = s.din[f].blocks
      /\ d.indirect = b /\ d.direct = s.din[f].direct
  BY <1>1, <1>2, <1>d DEF DiskInode
<1>4. t = [free |-> s.free \ {b}, unused |-> s.unused - 1,
           block |-> [s.block EXCEPT ![b] = Cleared], din |-> [s.din EXCEPT ![f] = d],
           dirty |-> [s.dirty EXCEPT ![f] = TRUE], ondisk |-> s.ondisk]
  <2>1. PICK a : a = Alloc(s)
    OBVIOUS
  <2>2. a = [free |-> s.free \ {b}, unused |-> s.unused - 1,
           block |-> [s.block EXCEPT ![b] = Cleared], din |-> s.din,
           dirty |-> s.dirty, ondisk |-> s.ondisk]
    BY <1>0, <1>b, <2>1, AllocFacts
  <2>3. t = [a EXCEPT !.din[f].indirect = b, !.dirty[f] = TRUE]
    BY <1>b, <2>1
  <2>4. t = [a EXCEPT !.din = [s.din EXCEPT ![f] = d], !.dirty = [s.dirty EXCEPT ![f] = TRUE]]
    BY <1>d, <2>2, <2>3
  <2> HIDE DEF t
  <2>5. QED BY <2>2, <2>4
<1> HIDE DEF t
<1>5. Owned([Layout(s) EXCEPT ![<<f, -1>>] = b], s.free \ {b}, s.unused - 1) /\ s.unused - 1 \in Nat
      /\ Layout(s)[<<f, -1>>] = NoBlock
  <2>1. <<f, -1>> \in Spot /\ Layout(s)[<<f, -1>>] = NoBlock
    BY SpotIs
  <2>3. Layout(s) \in [Spot -> 0..NBlocks] /\ s.free \in SUBSET Block
    BY <1>0, SpotIn, StoreFacts
  <2>4. QED BY <1>0, <1>1, <2>1, <2>3, OwnsOneMore
<1>6. /\ t \in Store /\ t.free = s.free \ {b} /\ t.unused = s.unused - 1 /\ t.ondisk = s.ondisk
      /\ t.din[f] = d /\ t.dirty[f]
      /\ \A g \in File : g # f => t.din[g] = s.din[g] /\ t.dirty[g] = s.dirty[g]
      /\ \A c \in Block : t.block[c] = IF c = b THEN Cleared ELSE s.block[c]
  BY <1>0, <1>1, <1>3, <1>4, <1>5, ClearedFacts DEF Store
<1>7. Layout(t) = [Layout(s) EXCEPT ![<<f, -1>>] = b]
  <2>1. \A g \in File : t.din[g].indirect = IF g = f THEN b ELSE s.din[g].indirect
    BY <1>2, <1>3, <1>6
  <2>2. ASSUME NEW g \in File, NEW k \in Index
        PROVE  Mapped(t, t.din[g], k) = Mapped(s, s.din[g], k)
    <3>3. s.din[g].indirect # NoBlock => t.block[s.din[g].indirect] = s.block[s.din[g].indirect]
      <4>1. s.din[g].indirect \notin s.free /\ (s.din[g].indirect # NoBlock => s.din[g].indirect \in Block)
        BY <1>0, IndirectUsed, StoreFacts, InodeFacts
      <4>2. QED BY <1>1, <1>6, <4>1
    <3>4. CASE k < NDirect
      BY <1>3, <1>6, <3>4 DEF Mapped
    <3>5. CASE ~(k < NDirect) /\ g # f
      BY <1>6, <3>3, <3>5 DEF Mapped
    <3>6. CASE ~(k < NDirect) /\ g = f
      <4>1. k - NDirect \in 0..NEntries-1
        BY <3>6, Constants DEF Index
      <4>2. t.din[g].indirect = b /\ b # NoBlock /\ t.block[b] = Cleared
        BY <1>1, <1>3, <1>6, <3>6 DEF Block, NoBlock
      <4>3. Mapped(t, t.din[g], k) = NoBlock
        BY <3>6, <4>1, <4>2, ClearedFacts DEF Mapped
      <4>4. Mapped(s, s.din[g], k) = NoBlock
        BY <3>6 DEF Mapped
      <4>5. QED BY <4>3, <4>4
    <3>7. QED BY <3>4, <3>5, <3>6
  <2>3. \A k \in Index : k # -1
    BY Constants DEF Index
  <2>4. Maps(s, t, f, -1, b)
    BY <2>1, <2>2, <2>3 DEF Maps
  <2>5. QED BY <1>0, <1>2, <1>6, <2>4, LayoutIs
<1>8. Others(s, t, f) /\ Noted(s, t, f)
  BY <1>6 DEF Others, Noted
<1>9. Takes(s, t, f, -1, b)
  BY <1>1, <1>3, <1>5, <1>6, <1>7, <1>8 DEF Takes
<1>10. QED BY <1>9, <1>b DEF t

\* an entry of the indirect block
LEMMA TakesEntry ==
  ASSUME NEW s, Core(s), s.free # {}, NEW f \in File, s.din[f].indirect # NoBlock,
         NEW i \in Index, ~(i < NDirect), Mapped(s, s.din[f], i) = NoBlock
  PROVE  Takes(s, [Alloc(s) EXCEPT !.block[s.din[f].indirect].entry[i - NDirect] = New(s)], f, i, New(s))
<1> DEFINE t == [Alloc(s) EXCEPT !.block[s.din[f].indirect].entry[i - NDirect] = New(s)]
<1>0. s \in Store /\ Owned(Layout(s), s.free, s.unused)
  BY DEF Core
<1>b. PICK b : b = New(s)
  OBVIOUS
<1>c. PICK c : c = s.din[f].indirect
  OBVIOUS
<1>n. PICK n : n = i - NDirect
  OBVIOUS
<1>1. b \in s.free /\ b \in Block /\ b \in 0..NBlocks
  <2>1. b \in s.free
    BY <1>0, <1>b, NewIn
  <2>2. s.free \in SUBSET Block
    BY <1>0, StoreFacts
  <2>3. QED BY <2>1, <2>2, Constants DEF Block
<1>2. c \in Block /\ c \notin s.free /\ c # b /\ s.block[c] \in DiskBlock /\ n \in 0..NEntries-1
      /\ i \in -1..NDirect+NEntries-1
  BY <1>0, <1>1, <1>c, <1>n, StoreFacts, InodeFacts, IndirectUsed, Constants DEF Index
<1>d. PICK d : d = [s.block[c] EXCEPT !.entry = [s.block[c].entry EXCEPT ![n] = b]]
  OBVIOUS
<1>3. /\ d \in DiskBlock /\ d.data = s.block[c].data
      /\ \A k \in 0..NEntries-1 : d.entry[k] = IF k = n THEN b ELSE s.block[c].entry[k]
  BY <1>1, <1>2, <1>d DEF DiskBlock
<1>4. t = [free |-> s.free \ {b}, unused |-> s.unused - 1,
           block |-> [[s.block EXCEPT ![b] = Cleared] EXCEPT ![c] = d], din |-> s.din,
           dirty |-> s.dirty, ondisk |-> s.ondisk]
  <2>1. PICK a : a = Alloc(s)
    OBVIOUS
  <2>2. a = [free |-> s.free \ {b}, unused |-> s.unused - 1,
           block |-> [s.block EXCEPT ![b] = Cleared], din |-> s.din,
           dirty |-> s.dirty, ondisk |-> s.ondisk]
    BY <1>0, <1>b, <2>1, AllocFacts
  <2>3. t = [a EXCEPT !.block[c].entry[n] = b]
    BY <1>b, <1>c, <1>n, <2>1
  <2>4. a.block[c] = s.block[c]
    BY <1>0, <1>2, <2>2 DEF Store
  <2>5. t = [a EXCEPT !.block = [a.block EXCEPT ![c] = d]]
    BY <1>d, <2>2, <2>3, <2>4
  <2> HIDE DEF t
  <2>6. QED BY <2>2, <2>5
<1> HIDE DEF t
<1>5. Owned([Layout(s) EXCEPT ![<<f, i>>] = b], s.free \ {b}, s.unused - 1) /\ s.unused - 1 \in Nat
      /\ Layout(s)[<<f, i>>] = NoBlock
  <2>1. <<f, i>> \in Spot /\ Layout(s)[<<f, i>>] = NoBlock
    BY SpotIs
  <2>3. Layout(s) \in [Spot -> 0..NBlocks] /\ s.free \in SUBSET Block
    BY <1>0, SpotIn, StoreFacts
  <2>4. QED BY <1>0, <1>1, <2>1, <2>3, OwnsOneMore
<1>6. /\ t \in Store /\ t.free = s.free \ {b} /\ t.unused = s.unused - 1 /\ t.ondisk = s.ondisk
      /\ t.din = s.din /\ t.dirty = s.dirty
      /\ \A k \in Block : t.block[k] = IF k = c THEN d ELSE IF k = b THEN Cleared ELSE s.block[k]
  BY <1>0, <1>1, <1>2, <1>3, <1>4, <1>5, ClearedFacts DEF Store
<1>7. Layout(t) = [Layout(s) EXCEPT ![<<f, i>>] = b]
  <2>1. \A g \in File : t.din[g].indirect = IF g = f /\ i = -1 THEN b ELSE s.din[g].indirect
    BY <1>6, Constants DEF Index
  <2>2. ASSUME NEW g \in File, NEW k \in Index
        PROVE  Mapped(t, t.din[g], k) = IF g = f /\ k = i THEN b ELSE Mapped(s, s.din[g], k)
    <3>1. t.din[g] = s.din[g]
      BY <1>6
    <3>2. CASE k < NDirect
      BY <3>1, <3>2 DEF Mapped
    <3>3. CASE ~(k < NDirect) /\ s.din[g].indirect = NoBlock
      BY <3>1, <3>3 DEF Mapped
    <3>4. CASE ~(k < NDirect) /\ s.din[g].indirect # NoBlock
      <4>e. PICK e, m : e = s.din[g].indirect /\ m = k - NDirect
        OBVIOUS
      <4>1. e \in Block /\ e \notin s.free /\ (e = c => g = f) /\ e # b /\ m \in 0..NEntries-1
        BY <1>0, <1>1, <1>c, <3>4, <4>e, StoreFacts, InodeFacts, IndirectUsed, Constants DEF Index
      <4>2. Mapped(t, t.din[g], k) = t.block[e].entry[m] /\ Mapped(s, s.din[g], k) = s.block[e].entry[m]
        BY <3>1, <3>4, <4>e DEF Mapped
      <4>3. CASE e = c
        <5>1. t.block[e].entry[m] = IF m = n THEN b ELSE s.block[e].entry[m]
          BY <1>3, <1>6, <4>1, <4>3
        <5>2. m = n <=> k = i
          BY <1>n, <4>e, Constants DEF Index
        <5>3. QED BY <4>1, <4>2, <4>3, <5>1, <5>2
      <4>4. CASE e # c
        <5>1. g # f
          BY <1>c, <4>e, <4>4
        <5>2. QED BY <1>6, <4>1, <4>2, <4>4, <5>1
      <4>5. QED BY <4>3, <4>4
    <3>5. QED BY <3>2, <3>3, <3>4
  <2>3. Maps(s, t, f, i, b)
    BY <2>1, <2>2 DEF Maps
  <2>4. QED BY <1>0, <1>2, <1>6, <2>3, LayoutIs
<1>8. Others(s, t, f) /\ Noted(s, t, f)
  BY <1>6 DEF Others, Noted
<1>9. Takes(s, t, f, i, b)
  <2>1. \A k \in Block : t.block[k].data = IF k = b THEN Cleared.data ELSE s.block[k].data
    BY <1>2, <1>3, <1>6
  <2>2. QED BY <1>1, <1>5, <1>6, <1>7, <1>8, <2>1 DEF Takes
<1>10. QED BY <1>9, <1>b DEF t

------------------------------------------------------------------------------
(* The bytes of a file. *)

\* the offsets that a file has bytes at
Offset == 0..MaxFile-1

\* the byte of a file at an offset; the blocks it has not got read as zeros
At(s, f, q) ==
  LET b == Mapped(s, s.din[f], q \div BlockSize)
  IN IF b = NoBlock THEN Zero ELSE s.block[b].data[q % BlockSize]

\* t is s with more blocks in f, which hold nothing
Grows(s, t, f) ==
  /\ Core(t) /\ Others(s, t, f) /\ Noted(s, t, f)
  /\ t.din[f].size = s.din[f].size /\ s.din[f].blocks <= t.din[f].blocks
  /\ \A g \in File, q \in Offset : At(t, g, q) = At(s, g, q)

\* An offset is in the first k blocks if it is smaller than their size.
LEMMA InFirst ==
  ASSUME NEW q \in Nat, NEW k \in Nat
  PROVE  (q \div BlockSize < k <=> q < k * BlockSize) /\ q \div BlockSize \in Nat /\ q % BlockSize \in 0..BlockSize-1
<1>b. PICK m \in Nat \ {0} : m = BlockSize
  BY Constants
<1>1. q % m \in 0..m-1 /\ q \div m \in Int /\ q = m * (q \div m) + (q % m)
  OBVIOUS
<1>2. PICK d \in Int : d = q \div m
  BY <1>1
<1>3. PICK r \in 0..m-1 : r = q % m
  BY <1>1
<1>4. q = m * d + r
  BY <1>1, <1>2, <1>3
<1>5. d >= 0
  <2>1. CASE d <= -1
    <3>1. m * d <= -m
      BY <2>1
    <3>2. QED BY <3>1, <1>4
  <2>2. QED BY <2>1
<1>6. CASE d < k
  <2>1. m * (d + 1) <= m * k
    BY <1>6
  <2>2. q < k * m
    BY <1>4, <2>1
  <2>3. QED BY <1>b, <1>2, <1>3, <1>5, <1>6, <2>2
<1>7. CASE ~(d < k)
  <2>1. m * k <= m * d
    BY <1>7
  <2>2. ~(q < k * m)
    BY <1>4, <2>1
  <2>3. QED BY <1>b, <1>2, <1>3, <1>5, <1>7, <2>2
<1>8. QED BY <1>6, <1>7

\* The index of an offset and its place in the block.
LEMMA OffsetIn ==
  ASSUME NEW q \in Offset
  PROVE  q \div BlockSize \in Index /\ q % BlockSize \in 0..BlockSize-1
<1>1. q \in Nat /\ q < MaxFile
  BY Constants DEF Offset
<1>2. NDirect + NEntries \in Nat /\ MaxFile = (NDirect + NEntries) * BlockSize
  BY Constants
<1>3. q \div BlockSize < NDirect + NEntries /\ q \div BlockSize \in Nat /\ q % BlockSize \in 0..BlockSize-1
  BY <1>1, <1>2, InFirst
<1>4. PICK d : d = q \div BlockSize
  OBVIOUS
<1>5. d \in Index
  BY <1>2, <1>3, <1>4, Constants DEF Index
<1>6. QED BY <1>3, <1>4, <1>5

\* The byte at an offset from the block it is in.
LEMMA AtIs ==
  ASSUME NEW s \in Store, NEW g \in File, NEW q \in Offset
  PROVE  \E k \in Index, j \in 0..BlockSize-1 :
           /\ k = q \div BlockSize /\ j = q % BlockSize
           /\ At(s, g, q) = IF Mapped(s, s.din[g], k) = NoBlock THEN Zero
                            ELSE s.block[Mapped(s, s.din[g], k)].data[j]
           /\ Mapped(s, s.din[g], k) # NoBlock => Mapped(s, s.din[g], k) \in Block
<1>1. q \div BlockSize \in Index /\ q % BlockSize \in 0..BlockSize-1
  BY OffsetIn
<1>2. PICK k \in Index, j \in 0..BlockSize-1 : k = q \div BlockSize /\ j = q % BlockSize
  BY <1>1
<1>3. Mapped(s, s.din[g], k) \in 0..NBlocks
  BY SpotIn
<1>4. Mapped(s, s.din[g], k) # NoBlock => Mapped(s, s.din[g], k) \in Block
  BY <1>3, Constants DEF Block, NoBlock
<1>5. QED BY <1>2, <1>4 DEF At

\* Files hold the same bytes when their blocks do.
LEMMA AtSame ==
  ASSUME NEW s \in Store, NEW t \in Store, NEW g \in File, NEW q \in Offset,
         \A k \in Index : Mapped(t, t.din[g], k) = Mapped(s, s.din[g], k),
         \A k \in Index : Mapped(s, s.din[g], k) \in Block =>
           t.block[Mapped(s, s.din[g], k)].data = s.block[Mapped(s, s.din[g], k)].data
  PROVE  At(t, g, q) = At(s, g, q)
<1>1. PICK k \in Index, j \in 0..BlockSize-1 :
        /\ k = q \div BlockSize /\ j = q % BlockSize
        /\ At(s, g, q) = IF Mapped(s, s.din[g], k) = NoBlock THEN Zero
                         ELSE s.block[Mapped(s, s.din[g], k)].data[j]
        /\ Mapped(s, s.din[g], k) # NoBlock => Mapped(s, s.din[g], k) \in Block
  BY AtIs
<1>2. At(t, g, q) = IF Mapped(t, t.din[g], k) = NoBlock THEN Zero
                    ELSE t.block[Mapped(t, t.din[g], k)].data[j]
  BY <1>1 DEF At
<1>3. QED BY <1>1, <1>2

\* Nothing has to be appended.
LEMMA GrowsNot ==
  ASSUME NEW s, Core(s), NEW f \in File
  PROVE  Grows(s, s, f)
<1>1. s.din[f] \in DiskInode
  BY StoreFacts DEF Core
<1>2. s.din[f].blocks \in Int
  BY <1>1, Constants, InodeFacts
<1>3. QED BY <1>2 DEF Grows, Others, Noted

\* What grows twice grows.
LEMMA GrowsOn ==
  ASSUME NEW s, NEW t, NEW u, NEW f \in File, Core(s), Grows(s, t, f), Grows(t, u, f)
  PROVE  Grows(s, u, f)
<1>1. s.din[f] \in DiskInode /\ t.din[f] \in DiskInode /\ u.din[f] \in DiskInode
  BY StoreFacts DEF Core, Grows
<1>2. s.din[f].blocks \in Int /\ t.din[f].blocks \in Int /\ u.din[f].blocks \in Int
  BY <1>1, Constants, InodeFacts
<1>3. Others(s, u, f)
  BY DEF Others, Grows
<1>4. Noted(s, u, f)
  BY DEF Noted, Grows
<1>5. \A g \in File, q \in Offset : At(u, g, q) = At(s, g, q)
  BY DEF Grows
<1>6. Core(u) /\ u.din[f].size = s.din[f].size
  BY DEF Grows
<1>7. s.din[f].blocks <= u.din[f].blocks
  BY <1>2 DEF Grows
<1>8. QED BY <1>3, <1>4, <1>5, <1>6, <1>7 DEF Grows

\* A free block put into a file makes it grow.
LEMMA TakesGrows ==
  ASSUME NEW s, Core(s), NEW t, NEW f \in File, NEW i \in -1..NDirect+NEntries-1, NEW b,
         Takes(s, t, f, i, b)
  PROVE  Grows(s, t, f)
<1>0. s \in Store /\ t \in Store /\ Owned(Layout(s), s.free, s.unused) /\ b \in s.free /\ b \in Block
      /\ b # NoBlock
  BY StoreFacts DEF Core, Takes, Block, NoBlock
<1>1. <<f, i>> \in Spot
  BY DEF Spot
<1>2. Owned(Layout(t), t.free, t.unused)
  <2>1. Layout(s) \in [Spot -> 0..NBlocks] /\ s.free \in SUBSET Block /\ Layout(s)[<<f, i>>] = NoBlock
    BY <1>0, SpotIn, StoreFacts DEF Takes
  <2>2. Owned([Layout(s) EXCEPT ![<<f, i>>] = b], s.free \ {b}, s.unused - 1)
    BY <1>0, <1>1, <2>1, OwnsOneMore
  <2>3. QED BY <2>2 DEF Takes
<1>3. ASSUME NEW g \in File, NEW k \in Index
      PROVE  /\ Mapped(t, t.din[g], k) = IF g = f /\ k = i THEN b ELSE Mapped(s, s.din[g], k)
             /\ g = f /\ k = i => Mapped(s, s.din[g], k) = NoBlock
  <2>1. /\ <<g, k>> \in Spot /\ Layout(s)[<<g, k>>] = Mapped(s, s.din[g], k)
        /\ Layout(t)[<<g, k>>] = Mapped(t, t.din[g], k)
    BY SpotIs
  <2>2. PICK x, y : x = <<g, k>> /\ y = <<f, i>>
    OBVIOUS
  <2>3. x = y <=> g = f /\ k = i
    BY <2>2
  <2>4. Layout(t) = [Layout(s) EXCEPT ![y] = b] /\ Layout(s)[y] = NoBlock
    BY <2>2 DEF Takes
  <2>5. DOMAIN Layout(s) = Spot
    BY DEF Layout
  <2>6. Layout(t)[x] = IF x = y THEN b ELSE Layout(s)[x]
    BY <2>1, <2>2, <2>4, <2>5
  <2>7. QED BY <2>1, <2>2, <2>3, <2>4, <2>6
<1>4. \A g \in File : t.din[g].blocks = s.din[g].blocks
  BY DEF Takes, Others
<1>5. Covered(t)
  BY <1>0, <1>3, <1>4 DEF Covered, Core
<1>6. ASSUME NEW g \in File, NEW q \in Offset PROVE At(t, g, q) = At(s, g, q)
  <2>1. PICK k \in Index, j \in 0..BlockSize-1 :
        /\ k = q \div BlockSize /\ j = q % BlockSize
        /\ At(s, g, q) = IF Mapped(s, s.din[g], k) = NoBlock THEN Zero
                         ELSE s.block[Mapped(s, s.din[g], k)].data[j]
        /\ Mapped(s, s.din[g], k) # NoBlock => Mapped(s, s.din[g], k) \in Block
    BY <1>0, AtIs
  <2>2. At(t, g, q) = IF Mapped(t, t.din[g], k) = NoBlock THEN Zero
                      ELSE t.block[Mapped(t, t.din[g], k)].data[j]
    BY <2>1 DEF At
  <2>3. CASE g = f /\ k = i
    <3>1. Mapped(t, t.din[g], k) = b /\ Mapped(s, s.din[g], k) = NoBlock
      BY <1>3, <2>3
    <3>2. t.block[b].data[j] = Zero
      BY <1>0, ClearedFacts DEF Takes
    <3>3. QED BY <1>0, <2>1, <2>2, <3>1, <3>2
  <2>4. CASE ~(g = f /\ k = i)
    <3>1. PICK c : c = Mapped(s, s.din[g], k)
      OBVIOUS
    <3>2. Mapped(t, t.din[g], k) = c
      BY <1>3, <2>4, <3>1
    <3>3. c # b
      BY <1>0, <3>1, IndirectUsed
    <3>4. c # NoBlock => t.block[c].data = s.block[c].data
      BY <2>1, <3>1, <3>3 DEF Takes
    <3>5. QED BY <2>1, <2>2, <3>1, <3>2, <3>4
  <2>5. QED BY <2>3, <2>4
<1>7. Core(t)
  BY <1>0, <1>2, <1>5 DEF Core
<1>8. s.din[f].blocks \in Int
  BY <1>0, StoreFacts, InodeFacts, Constants
<1>9. QED BY <1>6, <1>7, <1>8 DEF Grows, Takes

\* A block allocated and given back leaves everything as it was, but cleared.
LEMMA GivesBackGrows ==
  ASSUME NEW s, Core(s), s.free # {}, NEW f \in File
  PROVE  /\ Grows(s, FreeBlock(Alloc(s), New(s)), f)
         /\ FreeBlock(Alloc(s), New(s)).din = s.din
         /\ \A k \in Index : Mapped(FreeBlock(Alloc(s), New(s)), s.din[f], k) = Mapped(s, s.din[f], k)
<1> DEFINE t == FreeBlock(Alloc(s), New(s))
<1>0. s \in Store /\ Owned(Layout(s), s.free, s.unused)
  BY DEF Core
<1>b. PICK b : b = New(s)
  OBVIOUS
<1>1. b \in s.free /\ b \in Block /\ b \in 0..NBlocks
  <2>1. b \in s.free
    BY <1>0, <1>b, NewIn
  <2>2. s.free \in SUBSET Block
    BY <1>0, StoreFacts
  <2>3. QED BY <2>1, <2>2, Constants DEF Block
<1>2. t = [free |-> (s.free \ {b}) \cup {b}, unused |-> (s.unused - 1) + 1,
           block |-> [s.block EXCEPT ![b] = Cleared], din |-> s.din,
           dirty |-> s.dirty, ondisk |-> s.ondisk]
  <2>1. PICK a : a = Alloc(s)
    OBVIOUS
  <2>2. a = [free |-> s.free \ {b}, unused |-> s.unused - 1,
           block |-> [s.block EXCEPT ![b] = Cleared], din |-> s.din,
           dirty |-> s.dirty, ondisk |-> s.ondisk]
    BY <1>0, <1>b, <2>1, AllocFacts
  <2>3. t = [a EXCEPT !.free = a.free \cup {b}, !.unused = a.unused + 1]
    BY <1>b, <2>1 DEF FreeBlock
  <2> HIDE DEF t
  <2>4. QED BY <2>2, <2>3
<1> HIDE DEF t
<1>3. /\ t \in Store /\ t.free = s.free /\ t.unused = s.unused /\ t.ondisk = s.ondisk
      /\ t.din = s.din /\ t.dirty = s.dirty
      /\ \A c \in Block : t.block[c] = IF c = b THEN Cleared ELSE s.block[c]
  <2>1. (s.free \ {b}) \cup {b} = s.free /\ (s.unused - 1) + 1 = s.unused
    BY <1>0, <1>1, StoreFacts
  <2>2. QED BY <1>0, <1>1, <1>2, <2>1, ClearedFacts DEF Store
<1>4. ASSUME NEW g \in File, NEW k \in Index PROVE Mapped(t, s.din[g], k) = Mapped(s, s.din[g], k)
  <2>1. s.din[g].indirect # NoBlock => t.block[s.din[g].indirect] = s.block[s.din[g].indirect]
    <3>1. s.din[g].indirect \notin s.free /\ (s.din[g].indirect # NoBlock => s.din[g].indirect \in Block)
      BY <1>0, IndirectUsed, StoreFacts, InodeFacts
    <3>2. QED BY <1>1, <1>3, <3>1
  <2>2. CASE k < NDirect
    BY <2>2 DEF Mapped
  <2>3. CASE ~(k < NDirect)
    BY <2>1, <2>3 DEF Mapped
  <2>4. QED BY <2>2, <2>3
<1>5. Layout(t) = Layout(s)
  <2>1. Maps(s, t, f, -1, s.din[f].indirect)
    <3>1. \A k \in Index : k # -1
      BY Constants DEF Index
    <3>2. QED BY <1>3, <1>4, <3>1 DEF Maps
  <2>2. -1 \in -1..NDirect+NEntries-1
    BY Constants
  <2>3. Layout(t) = [Layout(s) EXCEPT ![<<f, -1>>] = s.din[f].indirect]
    BY <1>0, <1>3, <2>1, <2>2, LayoutIs
  <2>4. Layout(s)[<<f, -1>>] = s.din[f].indirect
    BY SpotIs
  <2>5. Layout(s) \in [Spot -> 0..NBlocks]
    BY <1>0, SpotIn
  <2>6. QED BY <2>3, <2>4, <2>5
<1>6. Core(t)
  <2>1. Covered(t)
    BY <1>3, <1>4 DEF Core, Covered
  <2>2. QED BY <1>0, <1>3, <1>5, <2>1 DEF Core
<1>7. ASSUME NEW g \in File, NEW q \in Offset PROVE At(t, g, q) = At(s, g, q)
  <2>1. \A k \in Index : Mapped(t, t.din[g], k) = Mapped(s, s.din[g], k)
    BY <1>3, <1>4
  <2>2. ASSUME NEW k \in Index, Mapped(s, s.din[g], k) \in Block
        PROVE  t.block[Mapped(s, s.din[g], k)].data = s.block[Mapped(s, s.din[g], k)].data
    <3>1. Mapped(s, s.din[g], k) # b
      BY <1>1, IndirectUsed
    <3>2. QED BY <1>3, <2>2, <3>1
  <2>3. QED BY <1>0, <1>3, <2>1, <2>2, AtSame
<1>8. Others(s, t, f) /\ Noted(s, t, f)
  BY <1>3 DEF Others, Noted
<1>9. s.din[f].blocks \in Int
  BY <1>0, StoreFacts, InodeFacts, Constants
<1>10. Grows(s, t, f)
  BY <1>3, <1>6, <1>7, <1>8, <1>9 DEF Grows
<1>11. QED BY <1>3, <1>4, <1>10 DEF t

\* sfs_bmap_get_nolock changes nothing that a file holds.  Without room it maps
\* nothing.
LEMMA GetGrows ==
  ASSUME NEW s, Core(s), NEW f \in File, NEW i \in Index
  PROVE  Grows(s, Get(s, f, i), f) /\ Get(s, f, i).din[f].blocks = s.din[f].blocks
<1> DEFINE t == Get(s, f, i)
           n == Needed(s, s.din[f], i)
<1>0. s \in Store
  BY DEF Core
<1>1. n \in {0, 1, 2} /\ (n = 0 <=> Mapped(s, s.din[f], i) # NoBlock)
      /\ (n = 2 <=> Mapped(s, s.din[f], i) = NoBlock /\ ~(i < NDirect) /\ s.din[f].indirect = NoBlock)
  BY DEF Needed
<1>2. IsFiniteSet(s.free) /\ Cardinality(s.free) \in Nat /\ (s.free = {} <=> Cardinality(s.free) = 0)
  <2>1. IsFiniteSet(s.free)
    BY <1>0, StoreFacts, FiniteBlocks, FS_Subset
  <2>2. QED BY <2>1, FS_CardinalityType, FS_EmptySet
<1>3. CASE n = 0
  <2>0. ~(n > Cardinality(s.free))
    BY <1>2, <1>3
  <2>1. t = s
    BY <1>3, <2>0 DEF Get
  <2>2. QED BY <2>1, GrowsNot
<1>4. CASE n # 0 /\ n > Cardinality(s.free)
  <2>1. t = GivesBack(s, s.din[f], i)
    BY <1>4 DEF Get
  <2>2. CASE n = 2 /\ s.free # {}
    <3>1. t = FreeBlock(Alloc(s), New(s))
      BY <2>1, <2>2 DEF GivesBack
    <3>2. QED BY <2>2, <3>1, GivesBackGrows
  <2>3. CASE ~(n = 2 /\ s.free # {})
    <3>1. t = s
      BY <2>1, <2>3 DEF GivesBack
    <3>2. QED BY <3>1, GrowsNot
  <2>4. QED BY <2>2, <2>3
<1>5. ASSUME n # 0, ~(n > Cardinality(s.free)) PROVE Grows(s, t, f) /\ t.din[f].blocks = s.din[f].blocks
  <2>1. s.free # {}
    BY <1>1, <1>2, <1>5
  <2>2. CASE i < NDirect
    <3>1. t = [Alloc(s) EXCEPT !.din[f].direct[i] = New(s), !.dirty[f] = TRUE]
      BY <1>5, <2>2 DEF Get
    <3>2. i \in 0..NDirect-1 /\ i \in -1..NDirect+NEntries-1 /\ s.din[f].direct[i] = NoBlock
      BY <1>1, <1>5, <2>2, Constants DEF Index, Mapped
    <3> HIDE DEF t
    <3>3. Takes(s, t, f, i, New(s))
      BY <2>1, <3>1, <3>2, TakesDirect
    <3>4. QED BY <3>2, <3>3, TakesGrows DEF Takes
  <2>3. CASE ~(i < NDirect) /\ s.din[f].indirect # NoBlock
    <3>1. t = [Alloc(s) EXCEPT !.block[s.din[f].indirect].entry[i - NDirect] = New(s)]
      BY <1>5, <2>3 DEF Get
    <3>2. i \in -1..NDirect+NEntries-1 /\ Mapped(s, s.din[f], i) = NoBlock
      BY <1>1, <1>5, Constants DEF Index
    <3> HIDE DEF t
    <3>3. Takes(s, t, f, i, New(s))
      BY <2>1, <2>3, <3>1, <3>2, TakesEntry
    <3>4. QED BY <3>2, <3>3, TakesGrows DEF Takes
  <2>4. CASE ~(i < NDirect) /\ s.din[f].indirect = NoBlock
    <3> DEFINE a == Alloc(s)
               u == [a EXCEPT !.din[f].indirect = New(s), !.dirty[f] = TRUE]
    <3>1. t = [Alloc(a) EXCEPT !.block[New(s)].entry[i - NDirect] = New(a),
                               !.din[f].indirect = New(s), !.dirty[f] = TRUE]
      BY <1>5, <2>4 DEF Get
    <3>2. Takes(s, u, f, -1, New(s))
      BY <2>1, <2>4, TakesIndirect
    <3>i. i \in -1..NDirect+NEntries-1 /\ -1 \in -1..NDirect+NEntries-1
      BY Constants DEF Index
    <3>b. PICK b : b = New(s)
      OBVIOUS
    <3>3. b \in s.free /\ b \in Block /\ b # NoBlock
      BY <1>0, <2>1, <3>b, NewIn, StoreFacts DEF Block, NoBlock
    <3>4. a = [free |-> s.free \ {b}, unused |-> s.unused - 1,
               block |-> [s.block EXCEPT ![b] = Cleared], din |-> s.din,
               dirty |-> s.dirty, ondisk |-> s.ondisk]
      BY <1>0, <3>b, AllocFacts
    <3>d. PICK d : d = [s.din[f] EXCEPT !.indirect = b]
      OBVIOUS
    <3>5. u = [free |-> s.free \ {b}, unused |-> s.unused - 1,
               block |-> [s.block EXCEPT ![b] = Cleared], din |-> [s.din EXCEPT ![f] = d],
               dirty |-> [s.dirty EXCEPT ![f] = TRUE], ondisk |-> s.ondisk]
      <4>1. u = [a EXCEPT !.din[f].indirect = b, !.dirty[f] = TRUE]
        BY <3>b
      <4> HIDE DEF a, u
      <4>2. u = [a EXCEPT !.din = [s.din EXCEPT ![f] = d], !.dirty = [s.dirty EXCEPT ![f] = TRUE]]
        BY <3>d, <3>4, <4>1
      <4>3. QED BY <3>4, <4>2
    <3>6. Grows(s, u, f)
      BY <3>2, <3>i, TakesGrows
    <3>7. Core(u) /\ u.din[f].indirect = b /\ u.free = s.free \ {b} /\ u.din[f].blocks = s.din[f].blocks
      <4>1. u.din[f].indirect = b
        <5>1. s.din \in [File -> DiskInode] /\ s.din[f] \in DiskInode
          BY <1>0, StoreFacts
        <5>2. d.indirect = b
          BY <3>d, <5>1 DEF DiskInode
        <5> HIDE DEF u
        <5>3. u.din[f] = d
          BY <3>5, <5>1
        <5>4. QED BY <5>2, <5>3
      <4>2. u.free = s.free \ {b} /\ u.din[f].blocks = s.din[f].blocks
        BY <3>2, <3>b DEF Takes
      <4> HIDE DEF u
      <4>3. QED BY <3>6, <4>1, <4>2 DEF Grows
    <3>8. Mapped(u, u.din[f], i) = NoBlock
      <4>1. u.block[b] = Cleared
        <5>1. s.block \in [Block -> DiskBlock]
          BY <1>0, StoreFacts
        <5> HIDE DEF u
        <5>2. QED BY <3>3, <3>5, <5>1
      <4>2. i - NDirect \in 0..NEntries-1
        BY <2>4, Constants DEF Index
      <4> HIDE DEF u
      <4>3. QED BY <2>4, <3>3, <3>7, <4>1, <4>2, ClearedFacts DEF Mapped
    <3>9. u.free # {}
      <4>1. n = 2
        BY <1>1, <1>5, <2>4
      <4>2. Cardinality(s.free) >= 2
        BY <1>2, <1>5, <4>1
      <4>3. Cardinality(s.free \ {b}) = Cardinality(s.free) - 1
        BY <1>2, <3>3, FS_RemoveElement
      <4>4. Cardinality(s.free \ {b}) # 0
        BY <1>2, <4>2, <4>3
      <4>5. QED BY <3>7, <4>4, FS_EmptySet
    <3>10. New(u) = New(a)
      BY <3>4, <3>7 DEF New
    <3>e. PICK e, m : e = New(a) /\ m = i - NDirect
      OBVIOUS
    <3>11. [Alloc(u) EXCEPT !.block[u.din[f].indirect].entry[i - NDirect] = New(u)] = t
      <4>1. Alloc(u) = [free |-> u.free \ {e}, unused |-> u.unused - 1,
                        block |-> [u.block EXCEPT ![e] = Cleared], din |-> u.din,
                        dirty |-> u.dirty, ondisk |-> u.ondisk]
        <5>1. u \in Store /\ e = New(u)
          BY <3>7, <3>10, <3>e DEF Core
        <5> HIDE DEF u
        <5>2. QED BY <5>1, AllocFacts
      <4>2. Alloc(a) = [free |-> a.free \ {e}, unused |-> a.unused - 1,
                        block |-> [a.block EXCEPT ![e] = Cleared], din |-> a.din,
                        dirty |-> a.dirty, ondisk |-> a.ondisk]
        <5> HIDE DEF a
        <5>1. Alloc(a) = [a EXCEPT !.free = a.free \ {e}, !.unused = a.unused - 1,
                                   !.block = [a.block EXCEPT ![e] = Cleared]]
          BY <3>e, <3>4 DEF Alloc
        <5>2. QED BY <3>4, <5>1
      <4>p. PICK p, q : p = Alloc(u) /\ q = Alloc(a)
        OBVIOUS
      <4>3. t = [q EXCEPT !.block[b].entry[m] = e, !.din[f].indirect = b, !.dirty[f] = TRUE]
        BY <3>1, <3>b, <3>e, <4>p
      <4>4. [Alloc(u) EXCEPT !.block[u.din[f].indirect].entry[i - NDirect] = New(u)]
              = [p EXCEPT !.block[b].entry[m] = e]
        BY <3>7, <3>10, <3>e, <4>p
      <4> DEFINE B == [s.block EXCEPT ![b] = Cleared]
                 C == [B EXCEPT ![e] = Cleared]
      <4>5. p = [free |-> (s.free \ {b}) \ {e}, unused |-> (s.unused - 1) - 1,
                 block |-> C, din |-> [s.din EXCEPT ![f] = d],
                 dirty |-> [s.dirty EXCEPT ![f] = TRUE], ondisk |-> s.ondisk]
        <5> HIDE DEF u
        <5>1. QED BY <3>5, <4>1, <4>p
      <4>6. q = [free |-> (s.free \ {b}) \ {e}, unused |-> (s.unused - 1) - 1,
                 block |-> C, din |-> s.din, dirty |-> s.dirty, ondisk |-> s.ondisk]
        <5> HIDE DEF a
        <5>1. QED BY <3>4, <4>2, <4>p
      <4> HIDE DEF t, u, a, C
      <4>g. PICK G : G = [C EXCEPT ![b].entry[m] = e]
        OBVIOUS
      <4>r. PICK r : r = [p EXCEPT !.block[b].entry[m] = e]
        OBVIOUS
      <4>7. r
              = [free |-> (s.free \ {b}) \ {e}, unused |-> (s.unused - 1) - 1,
                 block |-> G, din |-> [s.din EXCEPT ![f] = d],
                 dirty |-> [s.dirty EXCEPT ![f] = TRUE], ondisk |-> s.ondisk]
        <5>1. p.block = C
          BY <4>5
        <5>2. r = [p EXCEPT !.block = [p.block EXCEPT ![b].entry[m] = e]]
          BY <4>r
        <5>3. r = [p EXCEPT !.block = G]
          BY <4>g, <5>1, <5>2
        <5>4. QED BY <4>5, <5>3
      <4>8. t = [free |-> (s.free \ {b}) \ {e}, unused |-> (s.unused - 1) - 1,
                 block |-> G, din |-> [s.din EXCEPT ![f] = d],
                 dirty |-> [s.dirty EXCEPT ![f] = TRUE], ondisk |-> s.ondisk]
        BY <3>d, <4>3, <4>6, <4>g
      <4>9. QED BY <4>4, <4>7, <4>8, <4>r
    <3> HIDE DEF t, u, a
    <3>12. Takes(u, t, f, i, New(u))
      BY <2>4, <3>3, <3>7, <3>8, <3>9, <3>11, TakesEntry
    <3>13. Grows(u, t, f)
      BY <3>7, <3>12, <3>i, TakesGrows
    <3>14. Grows(s, t, f)
      BY <3>6, <3>13, GrowsOn
    <3>15. t.din[f].blocks = s.din[f].blocks
      BY <3>7, <3>12 DEF Takes
    <3>16. QED BY <3>14, <3>15
  <2>5. QED BY <2>2, <2>3, <2>4
<1>6. QED BY <1>3, <1>4, <1>5

------------------------------------------------------------------------------
(* Appending a block. *)

\* what the functions that may fail return
Call == [s : Store, ok : BOOLEAN, bad : BOOLEAN, bytes : Seq(Byte)]

\* One more block belongs to a file.
LEMMA OneMore ==
  ASSUME NEW s, Core(s), NEW f \in File, s.din[f].blocks \in Index,
         Mapped(s, s.din[f], s.din[f].blocks) # NoBlock
  PROVE  /\ Grows(s, [s EXCEPT !.din[f].blocks = @ + 1], f)
         /\ [s EXCEPT !.din[f].blocks = @ + 1].din[f].blocks = s.din[f].blocks + 1
         /\ Mapped([s EXCEPT !.din[f].blocks = @ + 1], [s EXCEPT !.din[f].blocks = @ + 1].din[f], s.din[f].blocks)
              # NoBlock
<1> DEFINE t == [s EXCEPT !.din[f].blocks = @ + 1]
<1>0. s \in Store /\ s.din[f] \in DiskInode /\ s.din \in [File -> DiskInode]
  BY StoreFacts DEF Core
<1>i. PICK i : i = s.din[f].blocks
  OBVIOUS
<1>d. PICK d : d = [s.din[f] EXCEPT !.blocks = i + 1]
  OBVIOUS
<1>1. /\ d \in DiskInode /\ d.size = s.din[f].size /\ d.direct = s.din[f].direct
      /\ d.indirect = s.din[f].indirect /\ d.blocks = i + 1
  <2>1. i + 1 \in 0..NDirect+NEntries
    BY <1>i, Constants DEF Index
  <2>2. QED BY <1>0, <1>d, <2>1 DEF DiskInode
<1>2. t = [s EXCEPT !.din = [s.din EXCEPT ![f] = d]]
  BY <1>d, <1>i
<1> HIDE DEF t
<1>3. /\ t \in Store /\ t.free = s.free /\ t.unused = s.unused /\ t.ondisk = s.ondisk
      /\ t.block = s.block /\ t.dirty = s.dirty /\ t.din[f] = d
      /\ \A g \in File : g # f => t.din[g] = s.din[g]
  BY <1>0, <1>1, <1>2 DEF Store
<1>4. \A g \in File : \A k \in Index : Mapped(t, t.din[g], k) = Mapped(s, s.din[g], k)
  BY <1>1, <1>3 DEF Mapped
<1>5. Layout(t) = Layout(s)
  <2>1. Maps(s, t, f, -1, s.din[f].indirect)
    <3>1. \A k \in Index : k # -1
      BY Constants DEF Index
    <3>2. \A g \in File : t.din[g].indirect = s.din[g].indirect
      BY <1>1, <1>3
    <3>3. QED BY <1>4, <3>1, <3>2 DEF Maps
  <2>2. -1 \in -1..NDirect+NEntries-1
    BY Constants
  <2>3. Layout(t) = [Layout(s) EXCEPT ![<<f, -1>>] = s.din[f].indirect]
    BY <1>0, <1>3, <2>1, <2>2, LayoutIs
  <2>4. Layout(s)[<<f, -1>>] = s.din[f].indirect
    BY SpotIs
  <2>5. Layout(s) \in [Spot -> 0..NBlocks]
    BY <1>0, SpotIn
  <2>6. QED BY <2>3, <2>4, <2>5
<1>6. Covered(t)
  <2> SUFFICES ASSUME NEW g \in File, NEW k \in Index, k < t.din[g].blocks
               PROVE  Mapped(t, t.din[g], k) # NoBlock
    BY DEF Covered
  <2>1. k < s.din[g].blocks => Mapped(s, s.din[g], k) # NoBlock
    BY DEF Core, Covered
  <2>2. CASE g = f
    <3>1. k < i \/ k = i
      BY <1>1, <1>3, <1>i, <2>2, Constants DEF Index
    <3>2. QED BY <1>4, <1>i, <2>1, <2>2, <3>1
  <2>3. CASE g # f
    BY <1>3, <1>4, <2>1, <2>3
  <2>4. QED BY <2>2, <2>3
<1>7. Core(t)
  BY <1>3, <1>5, <1>6 DEF Core
<1>8. ASSUME NEW g \in File, NEW q \in Offset PROVE At(t, g, q) = At(s, g, q)
  <2>1. \A k \in Index : Mapped(t, t.din[g], k) = Mapped(s, s.din[g], k)
    BY <1>4
  <2>2. QED BY <1>0, <1>3, <2>1, AtSame
<1>9. Others(s, t, f) /\ Noted(s, t, f)
  BY <1>1, <1>3 DEF Others, Noted
<1>10. i \in Int
  BY <1>i, Constants DEF Index
<1>11. Grows(s, t, f)
  BY <1>1, <1>3, <1>7, <1>8, <1>9, <1>10, <1>i DEF Grows
<1>12. t.din[f].blocks = s.din[f].blocks + 1 /\ Mapped(t, t.din[f], s.din[f].blocks) # NoBlock
  BY <1>1, <1>3, <1>4, <1>i
<1>13. QED BY <1>11, <1>12 DEF t

\* sfs_bmap_load_nolock maps an index that the file has or appends one block.
LEMMA LoadFacts ==
  ASSUME NEW a \in Call, Core(a.s), NEW f \in File, NEW i \in Index, NEW l, l = Load(a, f, i)
  PROVE  /\ l \in Call /\ l.bytes = a.bytes /\ Grows(a.s, l.s, f)
         /\ i > a.s.din[f].blocks => l.bad /\ ~l.ok
         /\ i <= a.s.din[f].blocks => l.bad = a.bad
         /\ i < a.s.din[f].blocks => l = a
         /\ i <= a.s.din[f].blocks /\ l.ok => i < l.s.din[f].blocks /\ Mapped(l.s, l.s.din[f], i) # NoBlock
         /\ i = a.s.din[f].blocks /\ l.ok => l.s.din[f].blocks = i + 1
<1>s. PICK s : s = a.s
  OBVIOUS
<1>n. PICK n : n = s.din[f].blocks
  OBVIOUS
<1>0. s \in Store /\ a.ok \in BOOLEAN /\ a.bad \in BOOLEAN /\ a.bytes \in Seq(Byte) /\ Core(s)
  BY <1>s DEF Call
<1>1. n \in Nat /\ i \in Nat
  BY <1>0, <1>n, StoreFacts, InodeFacts, Constants DEF Index
<1>2. CASE i > n
  <2>0. ~(i < n) /\ ~(i <= n) /\ i # n
    BY <1>1, <1>2
  <2>1. l = [a EXCEPT !.ok = FALSE, !.bad = TRUE]
    BY <1>1, <1>2, <1>n, <1>s DEF Load
  <2>2. l \in Call /\ l.s = s /\ l.bytes = a.bytes /\ l.bad /\ ~l.ok
    BY <1>0, <1>s, <2>1 DEF Call
  <2>3. Grows(s, s, f)
    BY <1>0, GrowsNot
  <2>4. QED BY <1>n, <1>s, <2>0, <2>2, <2>3
<1>3. CASE i < n
  <2>1. Mapped(s, s.din[f], i) # NoBlock
    BY <1>0, <1>3, <1>n DEF Core, Covered
  <2>2. l = a
    BY <1>1, <1>3, <1>n, <1>s, <2>1 DEF Load
  <2>3. Grows(s, s, f)
    BY <1>0, GrowsNot
  <2>4. QED BY <1>1, <1>3, <1>n, <1>s, <2>1, <2>2, <2>3
<1>4. CASE i = n
  <2>t. PICK t : t = Get(s, f, i)
    OBVIOUS
  <2>1. Grows(s, t, f) /\ t.din[f].blocks = i
    BY <1>0, <1>4, <1>n, <2>t, GetGrows
  <2>2. Core(t) /\ t \in Store
    BY <2>1 DEF Grows, Core
  <2>c. ~(i > a.s.din[f].blocks) /\ ~(i < a.s.din[f].blocks) /\ i = a.s.din[f].blocks
    BY <1>1, <1>4, <1>n, <1>s
  <2>l. l = IF Mapped(t, t.din[f], i) = NoBlock THEN [a EXCEPT !.s = t, !.ok = FALSE]
            ELSE [a EXCEPT !.s = [t EXCEPT !.din[f].blocks = @ + 1]]
    <3>1. t = Get(a.s, f, i)
      BY <1>s, <2>t
    <3>2. l = IF Mapped(Get(a.s, f, i), Get(a.s, f, i).din[f], i) = NoBlock
              THEN [a EXCEPT !.s = Get(a.s, f, i), !.ok = FALSE]
              ELSE [a EXCEPT !.s = [Get(a.s, f, i) EXCEPT !.din[f].blocks = @ + 1]]
      BY <2>c DEF Load
    <3>3. QED BY <3>1, <3>2
  <2>3. CASE Mapped(t, t.din[f], i) = NoBlock
    <3>1. l = [a EXCEPT !.s = t, !.ok = FALSE]
      BY <2>l, <2>3
    <3>2. l \in Call /\ l.s = t /\ l.bytes = a.bytes /\ l.bad = a.bad /\ ~l.ok
      BY <1>0, <2>2, <3>1 DEF Call
    <3>3. QED BY <1>1, <1>4, <1>n, <1>s, <2>1, <3>2
  <2>4. CASE Mapped(t, t.din[f], i) # NoBlock
    <3>u. PICK u : u = [t EXCEPT !.din[f].blocks = @ + 1]
      OBVIOUS
    <3>1. Grows(t, u, f) /\ u.din[f].blocks = i + 1 /\ Mapped(u, u.din[f], i) # NoBlock
      BY <2>1, <2>2, <2>4, <3>u, OneMore
    <3>2. l = [a EXCEPT !.s = u]
      BY <2>l, <2>4, <3>u
    <3>3. Grows(s, u, f)
      BY <1>0, <2>1, <3>1, GrowsOn
    <3>4. u \in Store
      BY <3>3 DEF Grows, Core
    <3>5. l \in Call /\ l.s = u /\ l.bytes = a.bytes /\ l.bad = a.bad
      BY <1>0, <3>2, <3>4 DEF Call
    <3>6. QED BY <1>1, <1>4, <1>n, <1>s, <3>1, <3>3, <3>5
  <2>5. QED BY <2>3, <2>4
<1>5. QED BY <1>1, <1>2, <1>3, <1>4

------------------------------------------------------------------------------
(* Taking a block away. *)

\* t is s with the blocks of f behind the first n taken away
Cuts(s, t, f, n) ==
  /\ Core(t) /\ Others(s, t, f) /\ t.din[f].size = s.din[f].size /\ t.din[f].blocks = n
  /\ \A g \in File, q \in Offset : g # f => At(t, g, q) = At(s, g, q)
  /\ \A q \in Offset :
       At(t, f, q) = IF n <= q \div BlockSize /\ q \div BlockSize < s.din[f].blocks
                     THEN Zero ELSE At(s, f, q)

\* What sfs_bmap_free_sub_nolock does to the file system, in either case.
Gives(s, t, f, i, b) ==
  /\ t \in Store /\ t.free = s.free \cup {b} /\ t.unused = s.unused + 1
  /\ Maps(s, t, f, i, NoBlock)
  /\ \A c \in Block : t.block[c].data = s.block[c].data
  /\ Others(s, t, f)
  /\ t.din[f].size = s.din[f].size /\ t.din[f].blocks = i /\ t.dirty[f]

\* The last block given back, with its bytes.
LEMMA GivesCuts ==
  ASSUME NEW s, Core(s), NEW t, NEW f \in File, NEW i \in Index, s.din[f].blocks = i + 1,
         NEW b, b = Mapped(s, s.din[f], i), Gives(s, t, f, i, b)
  PROVE  Cuts(s, t, f, i)
<1>0. s \in Store /\ t \in Store /\ Owned(Layout(s), s.free, s.unused) /\ i \in -1..NDirect+NEntries-1
  BY Constants DEF Core, Gives, Index
<1>1. b # NoBlock
  BY Constants DEF Core, Covered, Index
<1>2. Layout(t) = [Layout(s) EXCEPT ![<<f, i>>] = NoBlock]
  BY <1>0, LayoutIs DEF Gives
<1>3. Owned(Layout(t), t.free, t.unused)
  <2>1. <<f, i>> \in Spot /\ Layout(s)[<<f, i>>] = b
    BY SpotIs
  <2>2. Layout(s) \in [Spot -> 0..NBlocks] /\ s.free \in SUBSET Block
    BY <1>0, SpotIn, StoreFacts
  <2>3. Owned([Layout(s) EXCEPT ![<<f, i>>] = NoBlock], s.free \cup {b}, s.unused + 1)
    BY <1>0, <1>1, <2>1, <2>2, OwnsOneLess
  <2>4. QED BY <1>2, <2>3 DEF Gives
<1>4. ASSUME NEW g \in File, NEW k \in Index
      PROVE  Mapped(t, t.din[g], k) = IF g = f /\ k = i THEN NoBlock ELSE Mapped(s, s.din[g], k)
  BY DEF Gives, Maps
<1>5. Covered(t)
  <2> SUFFICES ASSUME NEW g \in File, NEW k \in Index, k < t.din[g].blocks
               PROVE  Mapped(t, t.din[g], k) # NoBlock
    BY DEF Covered
  <2>1. CASE g = f
    <3>1. k < i /\ k < s.din[f].blocks
      BY <2>1, Constants DEF Index, Gives
    <3>2. Mapped(s, s.din[f], k) # NoBlock
      BY <3>1 DEF Core, Covered
    <3>3. k # i
      BY <3>1, Constants DEF Index
    <3>4. QED BY <1>4, <2>1, <3>2, <3>3
  <2>2. CASE g # f
    <3>1. t.din[g] = s.din[g]
      BY <2>2 DEF Gives, Others
    <3>2. Mapped(s, s.din[g], k) # NoBlock
      BY <3>1 DEF Core, Covered
    <3>3. QED BY <1>4, <2>2, <3>2
  <2>3. QED BY <2>1, <2>2
<1>6. ASSUME NEW g \in File, NEW q \in Offset
      PROVE  At(t, g, q) = IF g = f /\ q \div BlockSize = i THEN Zero ELSE At(s, g, q)
  <2>1. PICK k \in Index, j \in 0..BlockSize-1 :
        /\ k = q \div BlockSize /\ j = q % BlockSize
        /\ At(s, g, q) = IF Mapped(s, s.din[g], k) = NoBlock THEN Zero
                         ELSE s.block[Mapped(s, s.din[g], k)].data[j]
        /\ Mapped(s, s.din[g], k) # NoBlock => Mapped(s, s.din[g], k) \in Block
    BY <1>0, AtIs
  <2>2. At(t, g, q) = IF Mapped(t, t.din[g], k) = NoBlock THEN Zero
                      ELSE t.block[Mapped(t, t.din[g], k)].data[j]
    BY <2>1 DEF At
  <2>3. CASE g = f /\ k = i
    BY <1>4, <2>1, <2>2, <2>3
  <2>4. CASE ~(g = f /\ k = i)
    <3>1. Mapped(t, t.din[g], k) = Mapped(s, s.din[g], k)
      BY <1>4, <2>4
    <3>2. QED BY <2>1, <2>2, <2>4, <3>1 DEF Gives
  <2>5. QED BY <2>3, <2>4
<1>7. ASSUME NEW q \in Offset PROVE q \div BlockSize = i <=> i <= q \div BlockSize /\ q \div BlockSize < i + 1
  <2>1. PICK k \in Index : k = q \div BlockSize
    BY OffsetIn
  <2>2. QED BY <2>1, Constants DEF Index
<1>8. Core(t)
  BY <1>0, <1>3, <1>5 DEF Core
<1>9. QED BY <1>6, <1>7, <1>8 DEF Cuts, Gives

\* sfs_block_free, field by field.
LEMMA FreeBlockFacts ==
  ASSUME NEW s \in Store, NEW b \in Block, NEW a, a = FreeBlock(s, b)
  PROVE  a = [free |-> s.free \cup {b}, unused |-> s.unused + 1, block |-> s.block,
              din |-> s.din, dirty |-> s.dirty, ondisk |-> s.ondisk]
BY DEF FreeBlock, Store

\* sfs_bmap_truncate_nolock takes the last block away, and the bytes in it.
LEMMA ShrinkCuts ==
  ASSUME NEW s, Core(s), NEW f \in File, s.din[f].blocks # 0
  PROVE  Cuts(s, Shrink(s, f), f, s.din[f].blocks - 1)
<1>i. PICK i : i = s.din[f].blocks - 1
  OBVIOUS
<1>0. s \in Store /\ s.din[f] \in DiskInode /\ s.din \in [File -> DiskInode]
  BY StoreFacts DEF Core
<1>1. i \in Index /\ s.din[f].blocks = i + 1 /\ i < s.din[f].blocks /\ i \in 0..NDirect+NEntries
  <2>1. s.din[f].blocks \in 0..NDirect+NEntries
    BY <1>0, InodeFacts
  <2>2. QED BY <1>i, <2>1, Constants DEF Index
<1>b. PICK b : b = Mapped(s, s.din[f], i)
  OBVIOUS
<1>2. b # NoBlock /\ b \in Block /\ b \notin s.free
  <2>1. b # NoBlock /\ b \notin s.free
    BY <1>1, <1>b, IndirectUsed DEF Core, Covered
  <2>2. b \in 0..NBlocks
    BY <1>0, <1>1, <1>b, SpotIn
  <2>3. QED BY <2>1, <2>2, Constants DEF Block, NoBlock
<1>a. PICK a : a = FreeBlock(s, b)
  OBVIOUS
<1>3. a = [free |-> s.free \cup {b}, unused |-> s.unused + 1, block |-> s.block,
           din |-> s.din, dirty |-> s.dirty, ondisk |-> s.ondisk]
  BY <1>0, <1>2, <1>a, FreeBlockFacts
<1>u. PICK u : u = Shrink(s, f)
  OBVIOUS
<1>n. NoBlock \in 0..NBlocks
  BY Constants DEF NoBlock
<1>4. CASE i < NDirect
  <2>1. u = [[a EXCEPT !.din[f].direct[i] = NoBlock] EXCEPT !.din[f].blocks = i, !.dirty[f] = TRUE]
    BY <1>2, <1>4, <1>a, <1>b, <1>i, <1>u DEF Shrink
  <2>d. PICK d : d = [s.din[f] EXCEPT !.direct = [s.din[f].direct EXCEPT ![i] = NoBlock]]
    OBVIOUS
  <2>e. PICK e : e = [d EXCEPT !.blocks = i]
    OBVIOUS
  <2>2. /\ e \in DiskInode /\ e.size = s.din[f].size /\ e.blocks = i
        /\ e.indirect = s.din[f].indirect
        /\ \A k \in 0..NDirect-1 : e.direct[k] = IF k = i THEN NoBlock ELSE s.din[f].direct[k]
    <3>1. /\ d \in DiskInode /\ d.size = s.din[f].size
          /\ d.indirect = s.din[f].indirect
          /\ \A k \in 0..NDirect-1 : d.direct[k] = IF k = i THEN NoBlock ELSE s.din[f].direct[k]
      BY <1>0, <1>n, <2>d DEF DiskInode
    <3>2. QED BY <1>1, <2>e, <3>1 DEF DiskInode
  <2>p. PICK p : p = [a EXCEPT !.din[f].direct[i] = NoBlock]
    OBVIOUS
  <2>3. p = [free |-> s.free \cup {b}, unused |-> s.unused + 1, block |-> s.block,
             din |-> [s.din EXCEPT ![f] = d], dirty |-> s.dirty, ondisk |-> s.ondisk]
    <3>1. p = [a EXCEPT !.din = [s.din EXCEPT ![f] = d]]
      BY <1>3, <2>d, <2>p
    <3>2. QED BY <1>3, <3>1
  <2>4. u = [free |-> s.free \cup {b}, unused |-> s.unused + 1, block |-> s.block,
             din |-> [s.din EXCEPT ![f] = e], dirty |-> [s.dirty EXCEPT ![f] = TRUE], ondisk |-> s.ondisk]
    <3>1. u = [p EXCEPT !.din[f].blocks = i, !.dirty[f] = TRUE]
      BY <2>1, <2>p
    <3>2. p.din = [s.din EXCEPT ![f] = d] /\ p.dirty = s.dirty
      BY <2>3
    <3>3. u = [p EXCEPT !.din = [p.din EXCEPT ![f].blocks = i], !.dirty = [p.dirty EXCEPT ![f] = TRUE]]
      BY <3>1
    <3>4. [p.din EXCEPT ![f].blocks = i] = [s.din EXCEPT ![f] = e]
      BY <1>0, <2>e, <3>2
    <3>5. u = [p EXCEPT !.din = [s.din EXCEPT ![f] = e], !.dirty = [s.dirty EXCEPT ![f] = TRUE]]
      BY <3>2, <3>3, <3>4
    <3>6. QED BY <2>3, <3>5
  <2>5. /\ u \in Store /\ u.free = s.free \cup {b} /\ u.unused = s.unused + 1 /\ u.block = s.block
        /\ u.din[f] = e /\ u.dirty[f] /\ u.ondisk = s.ondisk
        /\ \A g \in File : g # f => u.din[g] = s.din[g] /\ u.dirty[g] = s.dirty[g]
    BY <1>0, <1>2, <2>2, <2>4 DEF Store
  <2>6. Maps(s, u, f, i, NoBlock)
    <3>1. \A g \in File : u.din[g].indirect = s.din[g].indirect
      BY <2>2, <2>5
    <3>2. \A g \in File, k \in Index :
            Mapped(u, u.din[g], k) = IF g = f /\ k = i THEN NoBlock ELSE Mapped(s, s.din[g], k)
      <4> SUFFICES ASSUME NEW g \in File, NEW k \in Index
                   PROVE  Mapped(u, u.din[g], k) = IF g = f /\ k = i THEN NoBlock ELSE Mapped(s, s.din[g], k)
        OBVIOUS
      <4>1. CASE k < NDirect
        <5>1. k \in 0..NDirect-1
          BY <4>1, Constants DEF Index
        <5>2. QED BY <2>2, <2>5, <4>1, <5>1 DEF Mapped
      <4>2. CASE ~(k < NDirect)
        BY <1>4, <2>5, <3>1, <4>2 DEF Mapped
      <4>3. QED BY <4>1, <4>2
    <3>3. i # -1
      BY <1>1, Constants DEF Index
    <3>4. QED BY <3>1, <3>2, <3>3 DEF Maps
  <2>7. Gives(s, u, f, i, b)
    BY <2>2, <2>5, <2>6 DEF Gives, Others
  <2>8. QED BY <1>1, <1>b, <1>i, <1>u, <2>7, GivesCuts
<1>5. CASE ~(i < NDirect)
  <2>c. PICK c : c = s.din[f].indirect
    OBVIOUS
  <2>m. PICK m : m = i - NDirect
    OBVIOUS
  <2>0. c # NoBlock /\ c \in Block /\ m \in 0..NEntries-1 /\ s.block[c] \in DiskBlock
        /\ b = s.block[c].entry[m]
    <3>1. c # NoBlock
      BY <1>2, <1>5, <1>b, <2>c DEF Mapped
    <3>2. c \in Block /\ s.block[c] \in DiskBlock
      BY <1>0, <2>c, <3>1, StoreFacts, InodeFacts
    <3>3. QED BY <1>1, <1>5, <1>b, <2>c, <2>m, <3>1, <3>2, Constants DEF Index, Mapped
  <2>1. u = [[a EXCEPT !.block[c].entry[m] = NoBlock] EXCEPT !.din[f].blocks = i, !.dirty[f] = TRUE]
    BY <1>2, <1>5, <1>a, <1>b, <1>i, <1>u, <2>c, <2>m DEF Shrink
  <2>d. PICK d : d = [s.block[c] EXCEPT !.entry = [s.block[c].entry EXCEPT ![m] = NoBlock]]
    OBVIOUS
  <2>e. PICK e : e = [s.din[f] EXCEPT !.blocks = i]
    OBVIOUS
  <2>2. /\ d \in DiskBlock /\ d.data = s.block[c].data
        /\ \A k \in 0..NEntries-1 : d.entry[k] = IF k = m THEN NoBlock ELSE s.block[c].entry[k]
    BY <1>n, <2>0, <2>d DEF DiskBlock
  <2>3. /\ e \in DiskInode /\ e.size = s.din[f].size /\ e.blocks = i /\ e.direct = s.din[f].direct
        /\ e.indirect = c
    BY <1>0, <1>1, <2>c, <2>e DEF DiskInode
  <2>p. PICK p : p = [a EXCEPT !.block[c].entry[m] = NoBlock]
    OBVIOUS
  <2>4. p = [free |-> s.free \cup {b}, unused |-> s.unused + 1, block |-> [s.block EXCEPT ![c] = d],
             din |-> s.din, dirty |-> s.dirty, ondisk |-> s.ondisk]
    <3>1. p = [a EXCEPT !.block = [s.block EXCEPT ![c] = d]]
      BY <1>3, <2>d, <2>p
    <3>2. QED BY <1>3, <3>1
  <2>5. u = [free |-> s.free \cup {b}, unused |-> s.unused + 1, block |-> [s.block EXCEPT ![c] = d],
             din |-> [s.din EXCEPT ![f] = e], dirty |-> [s.dirty EXCEPT ![f] = TRUE], ondisk |-> s.ondisk]
    <3>1. u = [p EXCEPT !.din[f].blocks = i, !.dirty[f] = TRUE]
      BY <2>1, <2>p
    <3>2. u = [p EXCEPT !.din = [s.din EXCEPT ![f] = e], !.dirty = [s.dirty EXCEPT ![f] = TRUE]]
      BY <2>4, <2>e, <3>1
    <3>3. QED BY <2>4, <3>2
  <2>6. /\ u \in Store /\ u.free = s.free \cup {b} /\ u.unused = s.unused + 1
        /\ \A k \in Block : u.block[k] = IF k = c THEN d ELSE s.block[k]
        /\ u.din[f] = e /\ u.dirty[f] /\ u.ondisk = s.ondisk
        /\ \A g \in File : g # f => u.din[g] = s.din[g] /\ u.dirty[g] = s.dirty[g]
    BY <1>0, <1>2, <2>0, <2>2, <2>3, <2>5 DEF Store
  <2>7. Maps(s, u, f, i, NoBlock)
    <3>1. \A g \in File : u.din[g].indirect = s.din[g].indirect
      BY <2>3, <2>6, <2>c
    <3>2. ASSUME NEW g \in File, NEW k \in Index
          PROVE  Mapped(u, u.din[g], k) = IF g = f /\ k = i THEN NoBlock ELSE Mapped(s, s.din[g], k)
      <4>1. CASE k < NDirect
        BY <1>5, <2>3, <2>6, <4>1 DEF Mapped
      <4>2. CASE ~(k < NDirect) /\ s.din[g].indirect = NoBlock
        BY <2>0, <2>c, <3>1, <4>2 DEF Mapped
      <4>3. CASE ~(k < NDirect) /\ s.din[g].indirect # NoBlock
        <5>h. PICK h, n : h = s.din[g].indirect /\ n = k - NDirect
          OBVIOUS
        <5>1. h \in Block /\ (h = c <=> g = f) /\ n \in 0..NEntries-1 /\ (n = m <=> k = i)
          BY <1>0, <1>1, <2>c, <2>m, <4>3, <5>h, StoreFacts, InodeFacts, IndirectUsed, Constants DEF Index
        <5>2. Mapped(u, u.din[g], k) = u.block[h].entry[n] /\ Mapped(s, s.din[g], k) = s.block[h].entry[n]
          BY <3>1, <4>3, <5>h DEF Mapped
        <5>3. u.block[h].entry[n] = IF h = c /\ n = m THEN NoBlock ELSE s.block[h].entry[n]
          BY <2>2, <2>6, <5>1
        <5>4. QED BY <5>1, <5>2, <5>3
      <4>4. QED BY <4>1, <4>2, <4>3
    <3>3. i # -1
      BY <1>1, Constants DEF Index
    <3>4. QED BY <3>1, <3>2, <3>3 DEF Maps
  <2>8. \A k \in Block : u.block[k].data = s.block[k].data
    BY <2>2, <2>6
  <2>9. Gives(s, u, f, i, b)
    BY <2>3, <2>6, <2>7, <2>8 DEF Gives, Others
  <2>10. QED BY <1>1, <1>b, <1>i, <1>u, <2>9, GivesCuts
<1>6. QED BY <1>4, <1>5

------------------------------------------------------------------------------
(* The loops of sfs_truncfile. *)

------------------------------------------------------------------------------
(* sfs_truncfile *)

\* A loop of n steps, each defined where the ones before it have kept Z.
LEMMA LoopThere ==
  ASSUME NEW n \in Nat, NEW A, NEW a \in A, NEW step \in Steps(A), NEW Z,
         <<0, a>> \in Z, StaysIn(n, A, step, Z)
  PROVE  \E h : /\ h \in [0..n -> A] /\ h[0] = a
                /\ \A k \in 1..n : <<k - 1, h[k - 1]>> \in Z /\ h[k] = step[<<k - 1, h[k - 1]>>]
<1>1. PICK g : Follows(g, A, a, step) /\ Along(n, g, Z)
  BY LoopTo
<1>2. g \in [Nat -> A] /\ g[0] = a /\ \A k \in Nat : g[k + 1] = step[<<k, g[k]>>]
  BY <1>1 DEF Follows
<1> DEFINE h == [k \in 0..n |-> g[k]]
<1>3. h \in [0..n -> A] /\ h[0] = a /\ \A k \in 0..n : h[k] = g[k]
  BY <1>2
<1> HIDE DEF h
<1>4. ASSUME NEW k \in 1..n
      PROVE  <<k - 1, h[k - 1]>> \in Z /\ h[k] = step[<<k - 1, h[k - 1]>>]
  <2>1. PICK m : m = k - 1
    OBVIOUS
  <2>2. m \in Nat /\ m \in 0..n /\ m + 1 = k /\ k \in 0..n
    BY <2>1
  <2>3. g[k] = step[<<m, g[m]>>]
    BY <1>2, <2>2
  <2>4. <<m, g[m]>> \in Z
    BY <1>1, <2>2 DEF Along
  <2>5. h[m] = g[m] /\ h[k] = g[k]
    BY <1>3, <2>2
  <2>6. QED BY <2>1, <2>3, <2>4, <2>5
<1>5. QED BY <1>3, <1>4

\* the values h of a loop, and what each step finds
Loops(h, n, A, a, step, Z) ==
  /\ h \in [0..n -> A] /\ h[0] = a
  /\ \A k \in 1..n : \E j \in 0..n - 1, x \in A :
       /\ j = k - 1 /\ x = h[k - 1] /\ <<j, x>> \in Z /\ h[k] = step[<<j, x>>]

\* LoopThere, with what each step finds spelled out.
LEMMA LoopGoes ==
  ASSUME NEW n \in Nat, NEW A, NEW a \in A, NEW step \in Steps(A), NEW Z,
         <<0, a>> \in Z, StaysIn(n, A, step, Z)
  PROVE  \E h : Loops(h, n, A, a, step, Z)
<1>1. PICK h : /\ h \in [0..n -> A] /\ h[0] = a
               /\ \A k \in 1..n : <<k - 1, h[k - 1]>> \in Z /\ h[k] = step[<<k - 1, h[k - 1]>>]
  BY LoopThere
<1>2. ASSUME NEW k \in 1..n
      PROVE  \E j \in 0..n - 1, x \in A :
               /\ j = k - 1 /\ x = h[k - 1] /\ <<j, x>> \in Z /\ h[k] = step[<<j, x>>]
  <2>1. PICK j, x : j = k - 1 /\ x = h[k - 1]
    OBVIOUS
  <2>2. j \in 0..n - 1 /\ j \in 0..n
    BY <2>1
  <2>3. x \in A
    BY <1>1, <2>1, <2>2
  <2>4. <<j, x>> \in Z /\ h[k] = step[<<j, x>>]
    BY <1>1, <2>1
  <2>5. QED BY <2>1, <2>2, <2>3, <2>4
<1>3. QED BY <1>1, <1>2 DEF Loops

\* One block less again.
LEMMA CutsOn ==
  ASSUME NEW s, NEW t, NEW u, NEW f \in File, NEW n \in Nat, n < s.din[f].blocks,
         Core(s), Cuts(s, t, f, n + 1), Cuts(t, u, f, n)
  PROVE  Cuts(s, u, f, n)
<1>1. s.din[f] \in DiskInode
  BY StoreFacts DEF Core
<1>2. s.din[f].blocks \in Nat
  BY <1>1, InodeFacts, Constants
<1>3. t.din[f].blocks = n + 1
  BY DEF Cuts
<1>4. ASSUME NEW q \in Offset
      PROVE  At(u, f, q) = IF n <= q \div BlockSize /\ q \div BlockSize < s.din[f].blocks
                           THEN Zero ELSE At(s, f, q)
  <2>1. PICK k : k = q \div BlockSize
    OBVIOUS
  <2>2. k \in Nat
    BY <2>1, OffsetIn, Constants DEF Index
  <2>3. At(u, f, q) = IF n <= k /\ k < n + 1 THEN Zero ELSE At(t, f, q)
    BY <1>3, <2>1 DEF Cuts
  <2>4. At(t, f, q) = IF n + 1 <= k /\ k < s.din[f].blocks THEN Zero ELSE At(s, f, q)
    BY <2>1 DEF Cuts
  <2>5. QED BY <1>2, <2>1, <2>2, <2>3, <2>4
<1>5. Others(s, u, f)
  BY DEF Cuts, Others
<1>6. \A g \in File, q \in Offset : g # f => At(u, g, q) = At(s, g, q)
  BY DEF Cuts
<1>7. Core(u) /\ u.din[f].size = s.din[f].size /\ u.din[f].blocks = n
  BY DEF Cuts
<1>8. QED BY <1>4, <1>5, <1>6, <1>7 DEF Cuts

\* The loop over the blocks that are taken away.
LEMMA ShrunkCuts ==
  ASSUME NEW s, Core(s), NEW f \in File, NEW n \in Nat, n <= s.din[f].blocks
  PROVE  Cuts(s, Shrunk(s, f, n), f, s.din[f].blocks - n)
<1>m. PICK m : m = s.din[f].blocks
  OBVIOUS
<1>0. s \in Store /\ m \in Nat /\ n <= m
  BY <1>m, StoreFacts, InodeFacts, Constants DEF Core
<1> DEFINE Z == {z \in Nat \X Store : z[1] <= n /\ Cuts(s, z[2], f, m - z[1])}
           step == [x \in Nat \X Store |-> IF <<x[1] + 1, Shrink(x[2], f)>> \in Z
                                           THEN Shrink(x[2], f) ELSE x[2]]
<1>1. \A k \in Nat, x \in Store : <<k, x>> \in Z <=> k <= n /\ Cuts(s, x, f, m - k)
  OBVIOUS
<1>2. \A z \in Z : z[2] \in Store
  OBVIOUS
<1>z. \A k, x : <<k, x>> \in Z => k \in Nat /\ x \in Store
  OBVIOUS
<1> HIDE DEF Z
<1>3. ASSUME NEW k \in 0..n - 1, NEW x \in Store, <<k, x>> \in Z
      PROVE  <<k + 1, Shrink(x, f)>> \in Z
  <2>1. Cuts(s, x, f, m - k) /\ k \in Nat
    BY <1>1, <1>3
  <2>2. Core(x) /\ x.din[f].blocks = m - k /\ m - k # 0
    BY <1>0, <2>1 DEF Cuts
  <2>j. PICK j : j = m - (k + 1)
    OBVIOUS
  <2>3. j \in Nat /\ m - k = j + 1 /\ j < m /\ k + 1 \in Nat /\ k + 1 <= n /\ (j + 1) - 1 = j
    BY <1>0, <2>j
  <2>4. Cuts(x, Shrink(x, f), f, x.din[f].blocks - 1)
    BY <2>2, ShrinkCuts
  <2>5. Cuts(x, Shrink(x, f), f, j)
    BY <2>2, <2>3, <2>4
  <2>6. Cuts(s, Shrink(x, f), f, j)
    BY <1>m, <2>1, <2>3, <2>5, CutsOn
  <2>7. Shrink(x, f) \in Store
    BY <2>6 DEF Cuts, Core
  <2>8. QED BY <1>1, <2>3, <2>6, <2>7, <2>j
<1>4. step \in Steps(Store)
  <2>1. \A x \in Nat \X Store : x[1] \in Nat /\ x[2] \in Store
    OBVIOUS
  <2>2. \A x \in Nat \X Store :
          (IF <<x[1] + 1, Shrink(x[2], f)>> \in Z THEN Shrink(x[2], f) ELSE x[2]) \in Store
    BY <1>z, <2>1
  <2>3. QED BY <2>2 DEF Steps
<1>5. \A k \in Nat, x \in Store :
        step[<<k, x>>] = IF <<k + 1, Shrink(x, f)>> \in Z THEN Shrink(x, f) ELSE x
  OBVIOUS
<1> HIDE DEF step
<1>6. <<0, s>> \in Z
  <2>1. \A q \in Offset : ~(m <= q \div BlockSize /\ q \div BlockSize < m)
    <3> TAKE q \in Offset
    <3>1. PICK k \in Index : k = q \div BlockSize
      BY OffsetIn
    <3>2. k \in Nat
      BY <3>1, Constants DEF Index
    <3>3. QED BY <1>0, <3>1, <3>2
  <2>2. Cuts(s, s, f, m)
    BY <1>m, <2>1 DEF Cuts, Others
  <2>3. m - 0 = m
    BY <1>0
  <2>4. QED BY <1>0, <1>1, <2>2, <2>3
<1>7. StaysIn(n, Store, step, Z)
  <2> SUFFICES ASSUME NEW k \in 0..n - 1, NEW x \in Store, <<k, x>> \in Z
               PROVE  <<k + 1, step[<<k, x>>]>> \in Z
    BY DEF StaysIn
  <2>1. k \in Nat /\ <<k + 1, Shrink(x, f)>> \in Z
    BY <1>3
  <2>2. step[<<k, x>>] = Shrink(x, f)
    BY <1>5, <2>1
  <2>3. QED BY <2>1, <2>2
<1>l. PICK h : Loops(h, n, Store, s, step, Z)
  BY <1>0, <1>4, <1>6, <1>7, LoopGoes
<1>8. /\ h \in [0..n -> Store] /\ h[0] = s
      /\ \A k \in 1..n : \E j \in 0..n - 1, x \in Store :
           /\ j = k - 1 /\ x = h[k - 1] /\ <<j, x>> \in Z /\ h[k] = step[<<j, x>>]
  BY <1>l DEF Loops
<1>9. ASSUME NEW k \in 1..n PROVE h[k] = Shrink(h[k - 1], f)
  <2>1. PICK j \in 0..n - 1, x \in Store :
          j = k - 1 /\ x = h[k - 1] /\ <<j, x>> \in Z /\ h[k] = step[<<j, x>>]
    BY <1>8
  <2>2. j \in Nat
    OBVIOUS
  <2>3. <<j + 1, Shrink(x, f)>> \in Z
    BY <1>3, <2>1
  <2>4. step[<<j, x>>] = Shrink(x, f)
    BY <1>5, <2>2, <2>3
  <2>5. QED BY <2>1, <2>4
<1>10. h = [k \in 0..n |-> IF k = 0 THEN s ELSE Shrink(h[k - 1], f)]
  <2>1. \A k \in 0..n : h[k] = IF k = 0 THEN s ELSE Shrink(h[k - 1], f)
    BY <1>8, <1>9
  <2>2. h \in [0..n -> Store]
    BY <1>8
  <2>3. QED BY <2>1, <2>2
<1> DEFINE c == CHOOSE g : g = [k \in 0..n |-> IF k = 0 THEN s ELSE Shrink(g[k - 1], f)]
<1>11. c = [k \in 0..n |-> IF k = 0 THEN s ELSE Shrink(c[k - 1], f)]
  BY <1>10
<1>12. Shrunk(s, f, n) = c[n]
  BY Zenon DEF Shrunk
<1> HIDE DEF c
<1> DEFINE Q == {k \in 0..n : <<k, c[k]>> \in Z}
<1>13. 0 \in Q
  BY <1>6, <1>11
<1>14. ASSUME NEW k \in 0..n - 1, k \in Q PROVE k + 1 \in Q
  <2>1. <<k, c[k]>> \in Z /\ c[k] \in Store
    BY <1>2, <1>14
  <2>2. <<k + 1, Shrink(c[k], f)>> \in Z
    BY <1>3, <2>1
  <2>3. k + 1 \in 0..n /\ k + 1 # 0 /\ (k + 1) - 1 = k
    OBVIOUS
  <2>4. c[k + 1] = Shrink(c[k], f)
    BY <1>11, <2>3
  <2>5. QED BY <2>2, <2>3, <2>4
<1> HIDE DEF Q
<1>15. \A k \in 0..n : k \in Q
  BY <1>13, <1>14, ReachesUpTo
<1>16. <<n, c[n]>> \in Z
  BY <1>15 DEF Q
<1>17. c[n] \in Store
  BY <1>2, <1>16
<1>18. QED BY <1>1, <1>12, <1>16, <1>17, <1>m

\* A call that has done nothing.
LEMMA BeginFacts ==
  ASSUME NEW s \in Store
  PROVE  Begin(s) \in Call /\ Begin(s).s = s /\ Begin(s).ok /\ ~Begin(s).bad /\ Begin(s).bytes = <<>>
BY DEF Begin, Call

\* what n blocks appended, or as many as there is room for, make of f
GrownBy(s, x, f, n) == ~x.bad /\ Grows(s, x.s, f) /\ (x.ok => x.s.din[f].blocks = n)

\* one step of it
Goes(a, f, i) == IF a.ok THEN Load(a, f, i) ELSE a

\* The loop over the blocks that are appended.
LEMMA GrownGrows ==
  ASSUME NEW s, Core(s), NEW f \in File, NEW n \in Nat, s.din[f].blocks + n <= NDirect + NEntries
  PROVE  /\ Grown(s, f, n) \in Call /\ ~Grown(s, f, n).bad /\ Grows(s, Grown(s, f, n).s, f)
         /\ Grown(s, f, n).ok => Grown(s, f, n).s.din[f].blocks = s.din[f].blocks + n
<1>m. PICK m : m = s.din[f].blocks
  OBVIOUS
<1>0. s \in Store /\ m \in Nat /\ m + n <= NDirect + NEntries
  BY <1>m, StoreFacts, InodeFacts, Constants DEF Core
<1>b. PICK b : b = Begin(s)
  OBVIOUS
<1>c. b \in Call /\ b.s = s /\ b.ok /\ ~b.bad
  BY <1>0, <1>b, BeginFacts
<1> DEFINE Z == {z \in Nat \X Call : GrownBy(s, z[2], f, m + z[1])}
           step == [x \in Nat \X Call |-> IF <<x[1] + 1, Goes(x[2], f, m + x[1])>> \in Z
                                          THEN Goes(x[2], f, m + x[1]) ELSE x[2]]
<1>1. \A k \in Nat, x \in Call : <<k, x>> \in Z <=> GrownBy(s, x, f, m + k)
  OBVIOUS
<1>2. \A z \in Z : z[2] \in Call
  OBVIOUS
<1>z. \A k, x : <<k, x>> \in Z => k \in Nat /\ x \in Call
  OBVIOUS
<1> HIDE DEF Z
<1>3. ASSUME NEW k \in 0..n - 1, NEW x \in Call, <<k, x>> \in Z
      PROVE  <<k + 1, Goes(x, f, m + k)>> \in Z
  <2>1. ~x.bad /\ Grows(s, x.s, f) /\ (x.ok => x.s.din[f].blocks = m + k) /\ k \in Nat /\ k + 1 \in Nat
    BY <1>1, <1>3 DEF GrownBy
  <2>2. Core(x.s)
    BY <2>1 DEF Grows
  <2>i. PICK i : i = m + k
    OBVIOUS
  <2>3. i \in Index /\ m + (k + 1) = i + 1 /\ i <= i
    BY <1>0, <2>i, Constants DEF Index
  <2>4. CASE x.ok
    <3>l. PICK l : l = Load(x, f, i)
      OBVIOUS
    <3>1. Goes(x, f, m + k) = l
      BY <2>i, <2>4, <3>l DEF Goes
    <3>2. x.s.din[f].blocks = i
      BY <2>1, <2>4, <2>i
    <3>3. l \in Call /\ l.bad = x.bad /\ Grows(x.s, l.s, f) /\ (l.ok => l.s.din[f].blocks = i + 1)
      BY <2>2, <2>3, <3>2, <3>l, LoadFacts
    <3>4. Grows(s, l.s, f)
      BY <2>1, <3>3, GrowsOn
    <3>5. QED BY <1>1, <2>1, <2>3, <3>1, <3>3, <3>4 DEF GrownBy
  <2>5. CASE ~x.ok
    <3>1. Goes(x, f, m + k) = x
      BY <2>5 DEF Goes
    <3>2. QED BY <1>1, <2>1, <2>5, <3>1 DEF GrownBy
  <2>6. QED BY <2>4, <2>5
<1>4. step \in Steps(Call)
  <2>1. \A x \in Nat \X Call : x[1] \in Nat /\ x[2] \in Call
    OBVIOUS
  <2>2. \A x \in Nat \X Call :
          (IF <<x[1] + 1, Goes(x[2], f, m + x[1])>> \in Z THEN Goes(x[2], f, m + x[1]) ELSE x[2]) \in Call
    BY <1>z, <2>1
  <2>3. QED BY <2>2 DEF Steps
<1>5. \A k \in Nat, x \in Call :
        step[<<k, x>>] = IF <<k + 1, Goes(x, f, m + k)>> \in Z THEN Goes(x, f, m + k) ELSE x
  OBVIOUS
<1> HIDE DEF step
<1>6. <<0, b>> \in Z
  <2>1. Grows(s, b.s, f)
    BY <1>c, GrowsNot
  <2>2. b.s.din[f].blocks = m + 0
    BY <1>0, <1>c, <1>m
  <2>3. QED BY <1>1, <1>c, <2>1, <2>2 DEF GrownBy
<1>7. StaysIn(n, Call, step, Z)
  <2> SUFFICES ASSUME NEW k \in 0..n - 1, NEW x \in Call, <<k, x>> \in Z
               PROVE  <<k + 1, step[<<k, x>>]>> \in Z
    BY DEF StaysIn
  <2>1. k \in Nat /\ <<k + 1, Goes(x, f, m + k)>> \in Z
    BY <1>3
  <2>2. step[<<k, x>>] = Goes(x, f, m + k)
    BY <1>5, <2>1
  <2>3. QED BY <2>1, <2>2
<1>l. PICK h : Loops(h, n, Call, b, step, Z)
  BY <1>c, <1>4, <1>6, <1>7, LoopGoes
<1>8. /\ h \in [0..n -> Call] /\ h[0] = b
      /\ \A k \in 1..n : \E j \in 0..n - 1, x \in Call :
           /\ j = k - 1 /\ x = h[k - 1] /\ <<j, x>> \in Z /\ h[k] = step[<<j, x>>]
  BY <1>l DEF Loops
<1>9. ASSUME NEW k \in 1..n PROVE h[k] = Goes(h[k - 1], f, m + k - 1)
  <2>1. PICK j \in 0..n - 1, x \in Call :
          j = k - 1 /\ x = h[k - 1] /\ <<j, x>> \in Z /\ h[k] = step[<<j, x>>]
    BY <1>8
  <2>2. j \in Nat /\ m + k - 1 = m + j
    BY <1>0, <2>1
  <2>3. <<j + 1, Goes(x, f, m + j)>> \in Z
    BY <1>3, <2>1
  <2>4. step[<<j, x>>] = Goes(x, f, m + j)
    BY <1>5, <2>2, <2>3
  <2>5. QED BY <2>1, <2>2, <2>4
<1>10. h = [k \in 0..n |-> IF k = 0 THEN b ELSE Goes(h[k - 1], f, m + k - 1)]
  <2>1. \A k \in 0..n : h[k] = IF k = 0 THEN b ELSE Goes(h[k - 1], f, m + k - 1)
    BY <1>8, <1>9
  <2>2. h \in [0..n -> Call]
    BY <1>8
  <2>3. QED BY <2>1, <2>2
<1> DEFINE c == CHOOSE g : g = [k \in 0..n |-> IF k = 0 THEN Begin(s)
                                  ELSE LET a == g[k - 1]
                                       IN IF a.ok THEN Load(a, f, s.din[f].blocks + k - 1) ELSE a]
<1>11. c = [k \in 0..n |-> IF k = 0 THEN b ELSE Goes(c[k - 1], f, m + k - 1)]
  BY <1>10, <1>b, <1>m DEF Goes
<1>12. Grown(s, f, n) = c[n]
  BY Zenon DEF Grown
<1> HIDE DEF c
<1> DEFINE Q == {k \in 0..n : <<k, c[k]>> \in Z}
<1>13. 0 \in Q
  BY <1>6, <1>11
<1>14. ASSUME NEW k \in 0..n - 1, k \in Q PROVE k + 1 \in Q
  <2>1. <<k, c[k]>> \in Z /\ c[k] \in Call
    BY <1>2, <1>14
  <2>2. <<k + 1, Goes(c[k], f, m + k)>> \in Z
    BY <1>3, <2>1
  <2>3. k + 1 \in 0..n /\ k + 1 # 0 /\ (k + 1) - 1 = k
    OBVIOUS
  <2>4. c[k + 1] = Goes(c[k], f, m + k)
    <3>1. m + (k + 1) - 1 = m + k
      BY <1>0
    <3>2. QED BY <1>11, <2>3, <3>1
  <2>5. QED BY <2>2, <2>3, <2>4
<1> HIDE DEF Q
<1>15. \A k \in 0..n : k \in Q
  BY <1>13, <1>14, ReachesUpTo
<1>16. <<n, c[n]>> \in Z
  BY <1>15 DEF Q
<1>17. c[n] \in Call
  BY <1>2, <1>16
<1>18. QED BY <1>1, <1>12, <1>16, <1>17, <1>m DEF GrownBy

------------------------------------------------------------------------------
(* The inodes. *)

\* an inode has a block for every byte of its size
Enough(d) == d.size <= d.blocks * BlockSize

\* what is on the disk of an inode that is not dirty; the number of its blocks may
\* be older, as sfs_bmap_load_nolock does not mark the inode
Clean(s, f) ==
  ~s.dirty[f] => /\ s.ondisk[f].size = s.din[f].size
                 /\ s.ondisk[f].direct = s.din[f].direct
                 /\ s.ondisk[f].indirect = s.din[f].indirect
                 /\ s.ondisk[f].blocks <= s.din[f].blocks

\* behind its end a file holds zeros
Blank(s, f) == \A q \in Offset : s.din[f].size <= q => At(s, f, q) = Zero

\* A file is as it should be between two calls.
Whole(s, f) == Enough(s.din[f]) /\ Enough(s.ondisk[f]) /\ Clean(s, f) /\ Blank(s, f)
Fine(s) == Core(s) /\ \A f \in File : Whole(s, f)

\* More blocks are enough blocks.
LEMMA MoreBlocks ==
  ASSUME NEW n \in Nat, NEW m \in Nat, n <= m, NEW k \in Nat, k <= n * BlockSize
  PROVE  k <= m * BlockSize
<1>b. PICK b \in Nat : b = BlockSize
  BY Constants
<1>1. n * b <= m * b
  OBVIOUS
<1>2. n * b \in Int /\ m * b \in Int
  OBVIOUS
<1>3. QED BY <1>b, <1>1, <1>2

\* More blocks are enough for the same size.
LEMMA EnoughMore ==
  ASSUME NEW d \in DiskInode, NEW e \in DiskInode, e.size = d.size, d.blocks <= e.blocks, Enough(d)
  PROVE  Enough(e)
<1>1. d.blocks \in Nat /\ e.blocks \in Nat /\ d.size \in Nat
  BY InodeFacts, Constants
<1>2. d.size <= e.blocks * BlockSize
  BY <1>1, MoreBlocks DEF Enough
<1>3. QED BY <1>2 DEF Enough

\* A file that nothing happens to stays whole.
LEMMA OthersWhole ==
  ASSUME NEW s, NEW t, NEW f \in File, NEW g \in File, g # f, Others(s, t, f), Whole(s, g),
         \A q \in Offset : At(t, g, q) = At(s, g, q)
  PROVE  Whole(t, g)
<1>1. t.din[g] = s.din[g] /\ t.dirty[g] = s.dirty[g] /\ t.ondisk[g] = s.ondisk[g]
  BY DEF Others
<1>2. Clean(t, g)
  BY <1>1 DEF Clean, Whole
<1>3. QED BY <1>1, <1>2 DEF Whole, Blank

\* Blocks appended to a file leave it whole.
LEMMA GrowsFine ==
  ASSUME NEW s, NEW t, NEW f \in File, Fine(s), Grows(s, t, f)
  PROVE  Fine(t)
<1>0. s \in Store /\ t \in Store /\ Core(t) /\ Whole(s, f)
  BY DEF Fine, Core, Grows
<1>1. s.din[f] \in DiskInode /\ t.din[f] \in DiskInode /\ t.ondisk = s.ondisk /\ s.ondisk[f] \in DiskInode
  BY <1>0, StoreFacts DEF Grows, Others
<1>2. \A g \in File : g # f => Whole(t, g)
  BY OthersWhole DEF Fine, Grows
<1>3. Enough(t.din[f])
  BY <1>0, <1>1, EnoughMore DEF Grows, Whole
<1>4. Clean(t, f)
  <2>1. s.din[f].blocks \in Nat /\ t.din[f].blocks \in Nat /\ s.ondisk[f].blocks \in Nat
    BY <1>1, InodeFacts, Constants
  <2>2. SUFFICES ASSUME ~t.dirty[f]
                 PROVE  /\ s.ondisk[f].size = t.din[f].size
                        /\ s.ondisk[f].direct = t.din[f].direct
                        /\ s.ondisk[f].indirect = t.din[f].indirect
                        /\ s.ondisk[f].blocks <= t.din[f].blocks
    BY <1>1 DEF Clean
  <2>3. ~s.dirty[f] /\ t.din[f].direct = s.din[f].direct /\ t.din[f].indirect = s.din[f].indirect
    BY <2>2 DEF Grows, Noted
  <2>4. QED BY <1>0, <2>1, <2>3 DEF Whole, Clean, Grows
<1>5. Blank(t, f)
  BY <1>0 DEF Grows, Whole, Blank
<1>6. Whole(t, f)
  BY <1>0, <1>1, <1>3, <1>4, <1>5 DEF Whole
<1>7. QED BY <1>0, <1>2, <1>6 DEF Fine

\* t is s with another size of f
Sets(s, t, f, n) ==
  /\ Core(t) /\ Others(s, t, f) /\ t.dirty[f] /\ t.din[f].size = n /\ t.din[f].blocks = s.din[f].blocks
  /\ \A g \in File, q \in Offset : At(t, g, q) = At(s, g, q)

\* The size of the inode assigned.
LEMMA SizeSets ==
  ASSUME NEW s, Core(s), NEW f \in File, NEW n \in 0..MaxFile
  PROVE  Sets(s, [s EXCEPT !.din[f].size = n, !.dirty[f] = TRUE], f, n)
<1> DEFINE t == [s EXCEPT !.din[f].size = n, !.dirty[f] = TRUE]
<1>0. s \in Store /\ s.din[f] \in DiskInode /\ s.din \in [File -> DiskInode]
  BY StoreFacts DEF Core
<1>d. PICK d : d = [s.din[f] EXCEPT !.size = n]
  OBVIOUS
<1>1. /\ d \in DiskInode /\ d.size = n /\ d.direct = s.din[f].direct
      /\ d.indirect = s.din[f].indirect /\ d.blocks = s.din[f].blocks
  BY <1>0, <1>d DEF DiskInode
<1>2. t = [s EXCEPT !.din = [s.din EXCEPT ![f] = d], !.dirty = [s.dirty EXCEPT ![f] = TRUE]]
  BY <1>d
<1> HIDE DEF t
<1>3. /\ t \in Store /\ t.free = s.free /\ t.unused = s.unused /\ t.ondisk = s.ondisk
      /\ t.block = s.block /\ t.dirty[f] /\ t.din[f] = d
      /\ \A g \in File : g # f => t.din[g] = s.din[g] /\ t.dirty[g] = s.dirty[g]
  BY <1>0, <1>1, <1>2 DEF Store
<1>4. \A g \in File : \A k \in Index : Mapped(t, t.din[g], k) = Mapped(s, s.din[g], k)
  BY <1>1, <1>3 DEF Mapped
<1>5. Layout(t) = Layout(s)
  <2>1. Maps(s, t, f, -1, s.din[f].indirect)
    <3>1. \A k \in Index : k # -1
      BY Constants DEF Index
    <3>2. \A g \in File : t.din[g].indirect = s.din[g].indirect
      BY <1>1, <1>3
    <3>3. QED BY <1>4, <3>1, <3>2 DEF Maps
  <2>2. -1 \in -1..NDirect+NEntries-1
    BY Constants
  <2>3. Layout(t) = [Layout(s) EXCEPT ![<<f, -1>>] = s.din[f].indirect]
    BY <1>0, <1>3, <2>1, <2>2, LayoutIs
  <2>4. Layout(s)[<<f, -1>>] = s.din[f].indirect
    BY SpotIs
  <2>5. Layout(s) \in [Spot -> 0..NBlocks]
    BY <1>0, SpotIn
  <2>6. QED BY <2>3, <2>4, <2>5
<1>6. Covered(t)
  <2>1. \A g \in File : t.din[g].blocks = s.din[g].blocks
    BY <1>1, <1>3
  <2>2. QED BY <1>4, <2>1 DEF Core, Covered
<1>7. Core(t)
  BY <1>3, <1>5, <1>6 DEF Core
<1>8. ASSUME NEW g \in File, NEW q \in Offset PROVE At(t, g, q) = At(s, g, q)
  <2>1. \A k \in Index : Mapped(t, t.din[g], k) = Mapped(s, s.din[g], k)
    BY <1>4
  <2>2. QED BY <1>0, <1>3, <2>1, AtSame
<1>9. Sets(s, t, f, n)
  BY <1>1, <1>3, <1>7, <1>8 DEF Sets, Others
<1>10. QED BY <1>9 DEF t

\* The size assigned when the call has not failed.
LEMMA ResizedFacts ==
  ASSUME NEW a \in Call, Core(a.s), NEW f \in File, NEW n \in 0..MaxFile
  PROVE  /\ Resized(a, f, n) \in Call /\ Sets(a.s, Resized(a, f, n).s, f, n)
         /\ Resized(a, f, n).ok = a.ok /\ Resized(a, f, n).bad = a.bad /\ Resized(a, f, n).bytes = a.bytes
<1>s. PICK s : s = a.s
  OBVIOUS
<1>t. PICK t : t = [s EXCEPT !.din[f].size = n, !.dirty[f] = TRUE]
  OBVIOUS
<1>1. Sets(s, t, f, n)
  BY <1>s, <1>t, SizeSets
<1>2. t \in Store
  BY <1>1 DEF Sets, Core
<1>r. PICK r : r = Resized(a, f, n)
  OBVIOUS
<1>3. r = [a EXCEPT !.s = t]
  BY <1>r, <1>s, <1>t DEF Resized
<1>4. r \in Call /\ r.s = t /\ r.ok = a.ok /\ r.bad = a.bad /\ r.bytes = a.bytes
  BY <1>2, <1>3 DEF Call
<1>5. QED BY <1>1, <1>4, <1>r, <1>s

\* A new size leaves a file whole, if it has the blocks and holds zeros behind it.
LEMMA SetsFine ==
  ASSUME NEW s, NEW t, NEW f \in File, NEW n \in 0..MaxFile, Core(s), Sets(s, t, f, n),
         \A g \in File : g # f => Whole(s, g), Enough(s.ondisk[f]),
         n <= s.din[f].blocks * BlockSize, \A q \in Offset : n <= q => At(s, f, q) = Zero
  PROVE  Fine(t)
<1>1. \A g \in File : g # f => Whole(t, g)
  BY OthersWhole DEF Sets
<1>2. Whole(t, f)
  BY DEF Whole, Sets, Others, Enough, Clean, Blank
<1>3. QED BY <1>1, <1>2 DEF Fine, Sets

\* The number of blocks for a size.
LEMMA BlocksForFacts ==
  ASSUME NEW n \in 0..MaxFile
  PROVE  /\ BlocksFor(n) \in 0..NDirect+NEntries /\ n <= BlocksFor(n) * BlockSize
         /\ n = 0 => BlocksFor(n) = 0
<1>b. PICK b \in Nat \ {0} : b = BlockSize
  BY Constants
<1>p. PICK p \in Nat : p = n + b - 1
  BY Constants
<1>m. PICK m \in Nat : m = NDirect + NEntries
  BY Constants
<1>t. PICK t : t = BlocksFor(n)
  OBVIOUS
<1>1. t = p \div b
  BY <1>b, <1>p, <1>t DEF BlocksFor
<1>2. t \in Nat
  BY <1>1, <1>b, <1>p, InFirst
<1>3. \A k \in Nat : t < k <=> p < k * b
  BY <1>1, <1>b, <1>p, InFirst
<1>4. n \in Nat /\ n <= m * b
  BY <1>b, <1>m, Constants
<1>5. t <= m
  <2>1. (m + 1) * b = m * b + b
    BY <1>b, <1>m
  <2>2. p < (m + 1) * b
    BY <1>4, <1>p, <2>1
  <2>3. m + 1 \in Nat
    OBVIOUS
  <2>4. t < m + 1
    BY <1>3, <2>2, <2>3
  <2>5. QED BY <1>2, <2>4
<1>6. n <= t * b
  <2>1. (t + 1) * b = t * b + b /\ t * b \in Int
    BY <1>2, <1>b
  <2>2. t + 1 \in Nat /\ t < t + 1
    BY <1>2
  <2>3. p < (t + 1) * b
    BY <1>3, <2>2
  <2>4. QED BY <1>4, <1>p, <2>1, <2>3
<1>7. n = 0 => t = 0
  <2>1. n = 0 => p < 1 * b
    BY <1>p
  <2>2. n = 0 => t < 1
    BY <1>3, <2>1
  <2>3. QED BY <1>2, <2>2
<1>8. QED BY <1>2, <1>5, <1>6, <1>7, <1>b, <1>m, <1>t

\* What a file keeps when another one is truncated or enlarged.
Spares(s, t, f) ==
  /\ Fine(t)
  /\ \A g \in File : g # f => /\ t.din[g].size = s.din[g].size
                              /\ \A q \in Offset : At(t, g, q) = At(s, g, q)

\* the bytes of a file that is cut off at k
Leaves(s, t, f, k) ==
  /\ \A q \in Offset : k <= q => At(t, f, q) = Zero
  /\ k # 0 => \A q \in Offset : At(t, f, q) = At(s, f, q)

\* The blocks taken away hold no byte of the file that stays in it.
LEMMA CutsZero ==
  ASSUME NEW s, NEW t, NEW f \in File, NEW n \in 0..NDirect+NEntries, NEW k \in 0..MaxFile, Fine(s),
         Cuts(s, t, f, n), k <= n * BlockSize, k = 0 => n = 0, k = 0 \/ s.din[f].size <= k
  PROVE  Leaves(s, t, f, k)
<1>0. s \in Store /\ s.din[f] \in DiskInode /\ Whole(s, f) /\ n \in Nat /\ k \in Nat
  BY StoreFacts, Constants DEF Fine, Core
<1>m. PICK m \in Nat : m = s.din[f].blocks
  BY <1>0, InodeFacts, Constants
<1>z. PICK z \in Nat : z = s.din[f].size
  BY <1>0, InodeFacts, Constants
<1>1. z <= m * BlockSize
  BY <1>0, <1>m, <1>z DEF Whole, Enough
<1>2. \A q \in Offset : z <= q => At(s, f, q) = Zero
  BY <1>0, <1>z DEF Whole, Blank
<1>3. ASSUME NEW q \in Offset
      PROVE  /\ k <= q => At(t, f, q) = Zero
             /\ k # 0 => At(t, f, q) = At(s, f, q)
  <2>0. q \in Nat /\ n * BlockSize \in Int /\ m * BlockSize \in Int
    BY <1>0, Constants DEF Offset
  <2>i. PICK i \in Nat : i = q \div BlockSize
    BY OffsetIn, Constants DEF Index
  <2>1. (i < n <=> q < n * BlockSize) /\ (i < m <=> q < m * BlockSize)
    BY <1>0, <2>0, <2>i, InFirst
  <2>2. At(t, f, q) = IF n <= i /\ i < m THEN Zero ELSE At(s, f, q)
    BY <1>m, <2>i DEF Cuts
  <2>3. CASE n <= i /\ i < m
    <3>1. At(t, f, q) = Zero
      BY <2>2, <2>3
    <3>2. k # 0 => z <= q
      BY <1>0, <1>z, <2>0, <2>1, <2>3
    <3>3. QED BY <1>2, <3>1, <3>2
  <2>4. CASE ~(n <= i /\ i < m)
    <3>1. At(t, f, q) = At(s, f, q)
      BY <2>2, <2>4
    <3>2. k <= q => z <= q
      <4>1. CASE m <= i
        BY <1>1, <2>0, <2>1, <4>1
      <4>2. CASE i < m
        <5>1. i < n
          BY <1>0, <2>4, <4>2
        <5>2. QED BY <1>0, <1>z, <2>0, <5>1
      <4>3. QED BY <4>1, <4>2
    <3>3. QED BY <1>2, <3>1, <3>2
  <2>5. QED BY <2>3, <2>4
<1>4. QED BY <1>3 DEF Leaves

------------------------------------------------------------------------------
(* Truncation. *)

\* What sfs_truncfile leaves when it is called for a new size behind the end, or 0.
Truncated(s, a, f, n) ==
  /\ a \in Call /\ Spares(s, a.s, f)
  /\ a.s.din[f].size = IF a.ok THEN n ELSE s.din[f].size
  /\ n = 0 => a.ok
  /\ n # 0 => \A q \in Offset : At(a.s, f, q) = At(s, f, q)

\* sfs_truncfile from 0 blocks up or down to 0.
LEMMA TruncateDoes ==
  ASSUME NEW s, Fine(s), NEW f \in File, NEW n \in 0..MaxFile, n = 0 \/ s.din[f].size < n,
         NEW a, a = Truncate(s, f, n), ~a.bad
  PROVE  Truncated(s, a, f, n)
<1>0. s \in Store /\ Core(s) /\ s.din[f] \in DiskInode /\ Whole(s, f) /\ n \in Nat
      /\ \A g \in File : Whole(s, g)
  BY StoreFacts, Constants DEF Fine, Core
<1>m. PICK m \in 0..NDirect+NEntries : m = s.din[f].blocks
  BY <1>0, InodeFacts
<1>z. PICK z \in 0..MaxFile : z = s.din[f].size
  BY <1>0, InodeFacts
<1>t. PICK to \in 0..NDirect+NEntries : to = BlocksFor(n)
  BY BlocksForFacts
<1>1. n <= to * BlockSize /\ (n = 0 => to = 0) /\ to \in Nat /\ m \in Nat /\ z \in Nat
  BY <1>t, BlocksForFacts, Constants
<1>b. Begin(s) \in Call /\ Begin(s).s = s /\ Begin(s).ok /\ ~Begin(s).bad
  BY <1>0, BeginFacts
<1>2. CASE z = n
  <2>b. PICK b : b = Begin(s)
    OBVIOUS
  <2>1. a = [b EXCEPT !.bad = (to # m)]
    BY <1>2, <1>m, <1>t, <1>z, <2>b DEF Truncate
  <2>2. a.s = s /\ a.ok /\ a \in Call
    BY <1>b, <2>1, <2>b DEF Call
  <2>3. n = 0
    BY <1>2, <1>z, <1>1
  <2>4. Spares(s, s, f)
    BY DEF Spares
  <2>5. QED BY <1>2, <1>z, <2>2, <2>3, <2>4 DEF Truncated
<1>3. ASSUME NEW x \in Call, Core(x.s), x.ok, a = Resized(x, f, n), Others(s, x.s, f),
             \A g \in File, q \in Offset : g # f => At(x.s, g, q) = At(s, g, q),
             x.s.din[f].blocks = to,
             \A q \in Offset : n <= q => At(x.s, f, q) = Zero,
             n # 0 => \A q \in Offset : At(x.s, f, q) = At(s, f, q)
      PROVE  Truncated(s, a, f, n)
  <2>1. a \in Call /\ Sets(x.s, a.s, f, n) /\ a.ok = x.ok
    BY <1>3, ResizedFacts
  <2>2. \A g \in File : g # f => Whole(x.s, g)
    BY <1>0, <1>3, OthersWhole
  <2>3. Enough(x.s.ondisk[f])
    BY <1>0, <1>3 DEF Others, Whole
  <2>4. n <= x.s.din[f].blocks * BlockSize
    BY <1>1, <1>3
  <2>5. Fine(a.s)
    <3>1. PICK u, v : u = x.s /\ v = a.s
      OBVIOUS
    <3>2. Core(u) /\ Sets(u, v, f, n) /\ (\A g \in File : g # f => Whole(u, g)) /\ Enough(u.ondisk[f])
          /\ n <= u.din[f].blocks * BlockSize /\ \A q \in Offset : n <= q => At(u, f, q) = Zero
      BY <1>3, <2>1, <2>2, <2>3, <2>4, <3>1
    <3>3. Fine(v)
      BY <3>2, SetsFine
    <3>4. QED BY <3>1, <3>3
  <2>6. Spares(s, a.s, f)
    BY <1>3, <2>1, <2>5 DEF Spares, Sets, Others
  <2>7. n # 0 => \A q \in Offset : At(a.s, f, q) = At(s, f, q)
    BY <1>3, <2>1 DEF Sets
  <2>8. a.ok /\ a.s.din[f].size = n
    BY <1>3, <2>1 DEF Sets
  <2>9. QED BY <2>1, <2>6, <2>7, <2>8 DEF Truncated
<1>4. CASE z # n /\ to < m
  <2>k. PICK k \in Nat : k = m - to
    BY <1>1, <1>4
  <2>u. PICK u : u = Shrunk(s, f, k)
    OBVIOUS
  <2>1. Cuts(s, u, f, to)
    <3>1. k <= s.din[f].blocks /\ s.din[f].blocks - k = to
      BY <1>1, <1>4, <1>m, <2>k
    <3>2. Cuts(s, u, f, s.din[f].blocks - k)
      BY <1>0, <2>u, <3>1, ShrunkCuts
    <3>3. QED BY <3>1, <3>2
  <2>2. a = Resized(Begin(u), f, n)
    BY <1>4, <1>m, <1>t, <1>z, <2>k, <2>u DEF Truncate
  <2>3. u \in Store /\ Core(u)
    BY <2>1 DEF Cuts, Core
  <2>4. Begin(u) \in Call /\ Begin(u).s = u /\ Begin(u).ok
    BY <2>3, BeginFacts
  <2>5. n = 0 \/ s.din[f].size <= n
    BY <1>1, <1>z
  <2>6. /\ \A q \in Offset : n <= q => At(u, f, q) = Zero
        /\ n # 0 => \A q \in Offset : At(u, f, q) = At(s, f, q)
    <3>1. /\ n <= to * BlockSize /\ (n = 0 => to = 0) /\ (n = 0 \/ s.din[f].size <= n)
          /\ n \in 0..MaxFile /\ to \in 0..NDirect+NEntries /\ Fine(s) /\ Cuts(s, u, f, to)
      BY <1>1, <2>1, <2>5
    <3>2. Leaves(s, u, f, n)
      BY <3>1, CutsZero
    <3>3. QED BY <3>2 DEF Leaves
  <2>x. PICK x : x = Begin(u)
    OBVIOUS
  <2>7. x \in Call /\ Core(x.s) /\ x.ok /\ a = Resized(x, f, n) /\ x.s = u
    BY <2>2, <2>3, <2>4, <2>x
  <2>8. QED BY <1>3, <2>1, <2>6, <2>7 DEF Cuts
<1>5. CASE z # n /\ ~(to < m)
  <2>k. PICK k \in Nat : k = to - m
    BY <1>1, <1>5
  <2>g. PICK x : x = Grown(s, f, k)
    OBVIOUS
  <2>1. x \in Call /\ ~x.bad /\ Grows(s, x.s, f) /\ (x.ok => x.s.din[f].blocks = to)
    <3>1. s.din[f].blocks + k = to /\ s.din[f].blocks + k <= NDirect + NEntries
      BY <1>1, <1>m, <1>t, <2>k, Constants
    <3>2. QED BY <1>0, <2>g, <3>1, GrownGrows
  <2>2. a = IF x.ok THEN Resized(x, f, n) ELSE x
    BY <1>5, <1>m, <1>t, <1>z, <2>k, <2>g DEF Truncate
  <2>3. \A q \in Offset : At(x.s, f, q) = At(s, f, q)
    BY <2>1 DEF Grows
  <2>4. \A q \in Offset : z <= q => At(s, f, q) = Zero
    BY <1>0, <1>z DEF Whole, Blank
  <2>n. n # 0
    <3>1. n = 0 => z = 0
      <4>1. n = 0 => m = 0
        BY <1>1, <1>5
      <4>2. z <= m * BlockSize
        BY <1>0, <1>m, <1>z DEF Whole, Enough
      <4>3. m = 0 => z <= 0
        BY <4>2, Constants
      <4>4. QED BY <1>1, <4>1, <4>3
    <3>2. QED BY <1>5, <3>1
  <2>5. \A q \in Offset : n <= q => At(x.s, f, q) = Zero
    <3>1. z < n
      BY <1>z, <2>n
    <3>2. \A q \in Offset : n <= q => z <= q
      BY <1>1, <3>1, Constants DEF Offset
    <3>3. QED BY <2>3, <2>4, <3>2
  <2>6. CASE x.ok
    <3>1. Core(x.s) /\ Others(s, x.s, f) /\ \A g \in File, q \in Offset : At(x.s, g, q) = At(s, g, q)
      BY <2>1 DEF Grows
    <3>2. QED BY <1>3, <2>1, <2>2, <2>3, <2>5, <2>6, <3>1
  <2>7. CASE ~x.ok
    <3>1. a = x
      BY <2>2, <2>7
    <3>2. Fine(x.s)
      BY <2>1, GrowsFine
    <3>3. Spares(s, x.s, f)
      BY <2>1, <3>2 DEF Spares, Grows, Others
    <3>4. x.s.din[f].size = s.din[f].size
      BY <2>1 DEF Grows
    <3>5. QED BY <2>1, <2>3, <2>7, <2>n, <3>1, <3>3, <3>4 DEF Truncated
  <2>8. QED BY <2>6, <2>7
<1>6. QED BY <1>2, <1>4, <1>5

------------------------------------------------------------------------------
(* Moving bytes. *)

------------------------------------------------------------------------------
(* sfs_io_nolock *)

\* t is s with the bytes of block i of f from j to k - 1 replaced by v
Fills(s, t, f, i, j, k, v) ==
  /\ Core(t) /\ t.din = s.din /\ t.dirty = s.dirty /\ t.ondisk = s.ondisk
  /\ \A g \in File, q \in Offset :
       At(t, g, q) = IF g = f /\ q \div BlockSize = i /\ j <= q % BlockSize /\ q % BlockSize < k
                     THEN v ELSE At(s, g, q)

\* Blocks with the same entries map a file to the same blocks.
LEMMA SameMap ==
  ASSUME NEW s \in Store, NEW t, t.din = s.din, \A c \in Block : t.block[c].entry = s.block[c].entry,
         NEW g \in File, NEW n \in Index
  PROVE  Mapped(t, t.din[g], n) = Mapped(s, s.din[g], n)
<1>d. PICK d : d = s.din[g]
  OBVIOUS
<1>1. t.din[g] = d /\ (d.indirect # NoBlock => d.indirect \in Block)
  BY <1>d, StoreFacts, InodeFacts
<1>2. Mapped(t, d, n) = Mapped(s, d, n)
  <2>1. CASE n < NDirect
    BY <2>1, Zenon DEF Mapped
  <2>2. CASE ~(n < NDirect) /\ d.indirect = NoBlock
    BY <2>2, Zenon DEF Mapped
  <2>3. CASE ~(n < NDirect) /\ d.indirect # NoBlock
    <3>1. t.block[d.indirect].entry = s.block[d.indirect].entry
      BY <1>1, <2>3
    <3>2. QED BY <2>3, <3>1, Zenon DEF Mapped
  <2>4. QED BY <2>1, <2>2, <2>3
<1>3. QED BY <1>1, <1>2, <1>d

\* A store with the data of one block replaced.
LEMMA DataFills ==
  ASSUME NEW s, Core(s), NEW f \in File, NEW i \in Index, NEW b, b = Mapped(s, s.din[f], i), b \in Block,
         NEW j \in Int, NEW k \in Int, NEW v \in Byte, NEW d \in DiskBlock, d.entry = s.block[b].entry,
         \A n \in 0..BlockSize-1 : d.data[n] = IF j <= n /\ n < k THEN v ELSE s.block[b].data[n],
         NEW t, t = [s EXCEPT !.block = [s.block EXCEPT ![b] = d]]
  PROVE  Fills(s, t, f, i, j, k, v)
<1>0. s \in Store
  BY DEF Core
<1>1. b \in Block /\ s.block[b] \in DiskBlock /\ s.block \in [Block -> DiskBlock] /\ b # NoBlock
  <2>1. b # NoBlock
    BY Constants DEF Block, NoBlock
  <2>2. QED BY <1>0, <2>1, StoreFacts
<1>6. /\ t \in Store /\ t.free = s.free /\ t.unused = s.unused /\ t.ondisk = s.ondisk
      /\ t.din = s.din /\ t.dirty = s.dirty
      /\ \A c \in Block : t.block[c] = IF c = b THEN d ELSE s.block[c]
  BY <1>0, <1>1 DEF Store
<1>7. ASSUME NEW g \in File, NEW n \in Index PROVE Mapped(t, t.din[g], n) = Mapped(s, s.din[g], n)
  <2>1. t.din = s.din
    BY <1>6
  <2>2. \A c \in Block : t.block[c].entry = s.block[c].entry
    BY <1>6
  <2>3. QED BY <1>0, <2>1, <2>2, SameMap
<1>8. Layout(t) = Layout(s)
  <2>1. Maps(s, t, f, -1, s.din[f].indirect)
    <3>1. \A n \in Index : n # -1
      BY Constants DEF Index
    <3>2. QED BY <1>6, <1>7, <3>1 DEF Maps
  <2>2. -1 \in -1..NDirect+NEntries-1
    BY Constants
  <2>3. Layout(t) = [Layout(s) EXCEPT ![<<f, -1>>] = s.din[f].indirect]
    BY <1>0, <1>6, <2>1, <2>2, LayoutIs
  <2>4. Layout(s)[<<f, -1>>] = s.din[f].indirect
    BY SpotIs
  <2>5. Layout(s) \in [Spot -> 0..NBlocks]
    BY <1>0, SpotIn
  <2>6. QED BY <2>3, <2>4, <2>5
<1>9. Core(t)
  <2>1. Covered(t)
    BY <1>6, <1>7 DEF Core, Covered
  <2>2. QED BY <1>6, <1>8, <2>1 DEF Core
<1>10. ASSUME NEW g \in File, NEW q \in Offset
       PROVE  At(t, g, q) = IF g = f /\ q \div BlockSize = i /\ j <= q % BlockSize /\ q % BlockSize < k
                            THEN v ELSE At(s, g, q)
  <2>1. PICK n \in Index, r \in 0..BlockSize-1 :
        /\ n = q \div BlockSize /\ r = q % BlockSize
        /\ At(s, g, q) = IF Mapped(s, s.din[g], n) = NoBlock THEN Zero
                         ELSE s.block[Mapped(s, s.din[g], n)].data[r]
        /\ Mapped(s, s.din[g], n) # NoBlock => Mapped(s, s.din[g], n) \in Block
    BY <1>0, AtIs
  <2>2. At(t, g, q) = IF Mapped(s, s.din[g], n) = NoBlock THEN Zero
                      ELSE t.block[Mapped(s, s.din[g], n)].data[r]
    BY <1>7, <2>1 DEF At
  <2>c. PICK c : c = Mapped(s, s.din[g], n)
    OBVIOUS
  <2>3. c = b <=> g = f /\ n = i
    BY <1>1, <2>c, IndirectUsed
  <2>4. CASE c = b
    <3>1. At(t, g, q) = d.data[r] /\ At(s, g, q) = s.block[b].data[r]
      BY <1>1, <1>6, <2>1, <2>2, <2>4, <2>c
    <3>2. QED BY <2>1, <2>3, <2>4, <3>1
  <2>5. CASE c # b
    BY <1>6, <2>1, <2>2, <2>3, <2>5, <2>c
  <2>6. QED BY <2>4, <2>5
<1>11. QED BY <1>6, <1>9, <1>10 DEF Fills

\* s with the bytes from j to k - 1 of block b, which held old, replaced by v
Filled(s, b, old, j, k, v) ==
  [s EXCEPT !.block[b].data = [n \in DOMAIN old |-> IF j <= n /\ n < k THEN v ELSE old[n]]]

\* The bytes of a piece of a block written.
LEMMA BlockFills ==
  ASSUME NEW s, Core(s), NEW f \in File, NEW i \in Index, NEW b, b = Mapped(s, s.din[f], i), b # NoBlock,
         NEW j \in Int, NEW k \in Int, NEW v \in Byte, NEW old, old = s.block[b].data
  PROVE  Fills(s, Filled(s, b, old, j, k, v), f, i, j, k, v)
<1>0. s \in Store
  BY DEF Core
<1>1. b \in Block /\ s.block[b] \in DiskBlock
  <2>1. b \in 0..NBlocks
    BY <1>0, SpotIn
  <2>2. b \in Block
    BY <2>1, Constants DEF Block, NoBlock
  <2>3. QED BY <1>0, <2>2, StoreFacts
<1>2. old \in [0..BlockSize-1 -> Byte] /\ DOMAIN old = 0..BlockSize-1
  BY <1>1, BlockFacts
<1>w. PICK new : new = [n \in DOMAIN old |-> IF j <= n /\ n < k THEN v ELSE old[n]]
  OBVIOUS
<1>3. /\ new \in [0..BlockSize-1 -> Byte]
      /\ \A n \in 0..BlockSize-1 : new[n] = IF j <= n /\ n < k THEN v ELSE old[n]
  BY <1>2, <1>w
<1>d. PICK d : d = [s.block[b] EXCEPT !.data = new]
  OBVIOUS
<1>4. d \in DiskBlock /\ d.data = new /\ d.entry = s.block[b].entry
  BY <1>1, <1>3, <1>d DEF DiskBlock
<1>5. \A n \in 0..BlockSize-1 : d.data[n] = IF j <= n /\ n < k THEN v ELSE s.block[b].data[n]
  BY <1>3, <1>4
<1>6. Fills(s, [s EXCEPT !.block = [s.block EXCEPT ![b] = d]], f, i, j, k, v)
  BY <1>1, <1>4, <1>5, DataFills
<1>7. Filled(s, b, old, j, k, v) = [s EXCEPT !.block = [s.block EXCEPT ![b] = d]]
  BY <1>d, <1>w DEF Filled
<1>8. QED BY <1>6, <1>7

\* what a call of sfs_io_nolock moves of one block
Piece == [index : Index, from : 0..BlockSize-1, to : 1..BlockSize]

PieceBegins(p) == p.index * BlockSize + p.from
PieceStops(p) == p.index * BlockSize + p.to

\* The offsets in a piece.
LEMMA InPiece ==
  ASSUME NEW p \in Piece, NEW q \in Offset
  PROVE  /\ p.index \in Nat /\ PieceBegins(p) \in Nat /\ PieceStops(p) \in Nat
         /\ PieceStops(p) <= (p.index + 1) * BlockSize
         /\ p.to - p.from = PieceStops(p) - PieceBegins(p)
         /\ (q \div BlockSize = p.index /\ p.from <= q % BlockSize /\ q % BlockSize < p.to
               <=> PieceBegins(p) <= q /\ q < PieceStops(p))
<1>b. PICK b \in Nat \ {0} : b = BlockSize
  BY Constants
<1>p. PICK i \in Nat, j \in 0..b-1, k \in 1..b : i = p.index /\ j = p.from /\ k = p.to
  <2>1. p.index \in Index /\ p.from \in 0..BlockSize-1 /\ p.to \in 1..BlockSize
    BY DEF Piece
  <2>2. p.index \in Nat
    BY <2>1, Constants DEF Index
  <2>3. QED BY <1>b, <2>1, <2>2
<1>q. q \in Nat
  BY Constants DEF Offset
<1>1. PICK d \in Nat, r \in 0..b-1 : d = q \div b /\ r = q % b /\ q = d * b + r
  <2>1. q \div b \in Nat /\ q % b \in 0..b-1
    BY <1>b, <1>q, InFirst
  <2>2. q = b * (q \div b) + (q % b)
    BY <1>q
  <2>3. PICK d \in Nat, r \in 0..b-1 : d = q \div b /\ r = q % b
    BY <2>1
  <2>4. q = b * d + r
    BY <2>2, <2>3
  <2>5. q = d * b + r
    BY <2>4
  <2>6. QED BY <2>3, <2>5
<1>2. PICK x \in Nat, y \in Nat : x = i * b /\ y = d * b
  OBVIOUS
<1>3. PieceBegins(p) = x + j /\ PieceStops(p) = x + k
  BY <1>2, <1>b, <1>p DEF PieceBegins, PieceStops
<1>4. (i + 1) * b = x + b
  BY <1>2
<1>5. d = i => x = y
  BY <1>2
<1>6. d < i => y + b <= x
  <2>1. d < i => (d + 1) * b <= i * b
    OBVIOUS
  <2>2. (d + 1) * b = d * b + b
    OBVIOUS
  <2>3. QED BY <1>2, <2>1, <2>2
<1>7. i < d => x + b <= y
  <2>1. i < d => (i + 1) * b <= d * b
    OBVIOUS
  <2>2. QED BY <1>2, <1>4, <2>1
<1>8. d = i /\ j <= r /\ r < k <=> x + j <= q /\ q < x + k
  BY <1>1, <1>2, <1>5, <1>6, <1>7
<1>9. QED BY <1>1, <1>3, <1>4, <1>8, <1>b, <1>p

\* A number is a multiple of the block size and a rest.
LEMMA InBlocks ==
  ASSUME NEW q \in Nat
  PROVE  \E d \in Nat, r \in 0..BlockSize-1 :
           d = q \div BlockSize /\ r = q % BlockSize /\ q = d * BlockSize + r
<1>b. PICK b \in Nat \ {0} : b = BlockSize
  BY Constants
<1>1. q \div b \in Nat /\ q % b \in 0..b-1
  BY <1>b, InFirst
<1>2. q = b * (q \div b) + (q % b)
  BY <1>b
<1>3. PICK d \in Nat, r \in 0..b-1 : d = q \div b /\ r = q % b
  BY <1>1
<1>4. q = b * d + r
  BY <1>2, <1>3
<1>5. q = d * b + r
  BY <1>4
<1>6. QED BY <1>3, <1>5, <1>b

\* The pieces of a call: the first, none between, the last.
LEMMA Joined ==
  ASSUME NEW h, NEW k
  PROVE  (<<h>> \o <<>>) \o <<k>> = <<h, k>>
<1>1. <<h>> \o <<>> = <<h>>
  OBVIOUS
<1>2. <<h>> \o <<k>> = <<h, k>>
  <2>s. PICK S : S = {h, k}
    OBVIOUS
  <2>1. <<h>> \in Seq(S) /\ <<k>> \in Seq(S) /\ <<h, k>> \in Seq(S)
    BY <2>s
  <2>m. PICK m : m = <<h>> \o <<k>>
    OBVIOUS
  <2>2. Len(<<h>>) = 1 /\ Len(<<k>>) = 1 /\ <<h>>[1] = h /\ <<k>>[1] = k
    OBVIOUS
  <2>3. m \in Seq(S) /\ Len(m) = 2 /\ m[1] = h /\ m[2] = k
    BY <2>1, <2>2, <2>m, ConcatAt
  <2>4. m = <<m[1], m[2]>>
    BY <2>3
  <2>5. QED BY <2>3, <2>4, <2>m
<1>3. QED BY <1>1, <1>2

\* the pieces of a call that starts at r in block a and ends at x, in that block or
\* in the next one
OnePiece(a, r, x) == <<[index |-> a, from |-> r, to |-> x]>>
TwoPieces(a, r, x) == <<[index |-> a, from |-> r, to |-> BlockSize], [index |-> a + 1, from |-> 0, to |-> x]>>

\* A call of at most a block touches one block, or two.
LEMMA PiecesAre ==
  ASSUME NEW o \in Nat, NEW e \in Nat, o < e, e <= o + BlockSize
  PROVE  \E a \in Nat, r \in 0..BlockSize-1, x \in 1..BlockSize :
           /\ o = a * BlockSize + r
           /\ \/ r < x /\ e = a * BlockSize + x /\ Pieces(o, e) = OnePiece(a, r, x)
              \/ e = a * BlockSize + BlockSize + x /\ Pieces(o, e) = TwoPieces(a, r, x)
<1>b. PICK b \in Nat \ {0} : b = BlockSize
  BY Constants
<1>1. PICK a \in Nat, r \in 0..b-1 : a = o \div BlockSize /\ r = o % BlockSize /\ o = a * b + r
  BY <1>b, InBlocks
<1>2. PICK c \in Nat, d \in 0..b-1 : c = e \div BlockSize /\ d = e % BlockSize /\ e = c * b + d
  BY <1>b, InBlocks
<1>x. PICK x \in Nat, y \in Nat : x = a * b /\ y = c * b
  OBVIOUS
<1>3. c = a \/ c = a + 1
  <2>1. c < a => y + b <= x
    <3>1. c < a => (c + 1) * b <= a * b
      OBVIOUS
    <3>2. (c + 1) * b = c * b + b
      OBVIOUS
    <3>3. QED BY <1>x, <3>1, <3>2
  <2>2. a + 1 < c => x + b + b <= y
    <3>1. a + 1 < c => (a + 2) * b <= c * b
      OBVIOUS
    <3>2. (a + 2) * b = a * b + b + b
      OBVIOUS
    <3>3. QED BY <1>x, <3>1, <3>2
  <2>3. QED BY <1>1, <1>2, <1>b, <1>x, <2>1, <2>2
<1>4. c = a => y = x
  BY <1>x
<1>5. c = a + 1 => y = x + b
  <2>1. (a + 1) * b = a * b + b
    OBVIOUS
  <2>2. QED BY <1>x, <2>1
<1>h. PICK h : h = [index |-> a, from |-> r, to |-> IF c - a # 0 THEN BlockSize ELSE e - a * BlockSize]
  OBVIOUS
<1>6. CASE r # 0 /\ c = a
  <2>1. Pieces(o, e) = <<h>>
    <3>1. r # 0 /\ c - a = 0
      BY <1>6
    <3>2. IF r # 0 /\ c - a = 0
          THEN Pieces(o, e) = <<[index |-> a, from |-> r, to |-> IF c - a # 0 THEN BlockSize ELSE e - a * BlockSize]>>
          ELSE TRUE
      BY <1>1, <1>2, Zenon DEF Pieces
    <3>3. QED BY <1>h, <3>1, <3>2
  <2>2. h = [index |-> a, from |-> r, to |-> d]
    <3>1. c - a = 0 /\ e - a * BlockSize = d
      BY <1>1, <1>2, <1>6, <1>b
    <3>2. QED BY <1>h, <3>1
  <2>3. d \in 1..BlockSize /\ r < d /\ e = a * BlockSize + d
    BY <1>1, <1>2, <1>4, <1>6, <1>b, <1>x
  <2>4. QED BY <1>1, <1>b, <2>1, <2>2, <2>3 DEF OnePiece
<1>7. CASE r # 0 /\ c = a + 1
  <2>1. h = [index |-> a, from |-> r, to |-> BlockSize]
    <3>1. c - a # 0
      BY <1>7
    <3>2. QED BY <1>h, <3>1
  <2>2. /\ c - a = 1 /\ ~(c - a = 0) /\ (c - a) - 1 = 0 /\ ~(0 > 0) /\ (a + 1) + 0 = a + 1
    BY <1>7
  <2>3. Pieces(o, e) = (<<h>> \o <<>>) \o (IF d # 0 THEN <<[index |-> a + 1, from |-> 0, to |-> d]>> ELSE <<>>)
    <3>1. Pieces(o, e) = (<<h>> \o (IF (c - a) - 1 > 0 THEN <<[index |-> a + 1, from |-> 0, to |-> BlockSize]>> ELSE <<>>))
                           \o (IF d # 0 THEN <<[index |-> (a + 1) + ((c - a) - 1), from |-> 0, to |-> d]>> ELSE <<>>)
      BY <1>1, <1>2, <1>7, <1>h, <2>2 DEF Pieces
    <3>2. QED BY <2>2, <3>1
  <2>4. CASE d = 0
    <3>1. Pieces(o, e) = <<h>>
      BY <2>3, <2>4
    <3>2. e = a * BlockSize + BlockSize /\ r < BlockSize /\ BlockSize \in 1..BlockSize
      BY <1>1, <1>2, <1>5, <1>7, <1>b, <1>x, <2>4
    <3>3. QED BY <1>1, <1>b, <2>1, <3>1, <3>2 DEF OnePiece
  <2>5. CASE d # 0
    <3>k. PICK k : k = [index |-> a + 1, from |-> 0, to |-> d]
      OBVIOUS
    <3>0. (<<h>> \o <<>>) \o <<k>> = <<h, k>>
      BY Joined
    <3>1. Pieces(o, e) = <<h, [index |-> a + 1, from |-> 0, to |-> d]>>
      BY <2>3, <2>5, <3>k, <3>0
    <3>2. e = a * BlockSize + BlockSize + d /\ d \in 1..BlockSize
      BY <1>1, <1>2, <1>5, <1>7, <1>b, <1>x, <2>5
    <3>3. QED BY <1>1, <1>b, <2>1, <3>1, <3>2 DEF TwoPieces
  <2>6. QED BY <2>4, <2>5
<1>8. CASE r = 0 /\ c = a
  <2>1. c - a = 0 /\ ~(c - a > 0) /\ a + (c - a) = a /\ d # 0
    BY <1>1, <1>2, <1>4, <1>8, <1>x
  <2>2. Pieces(o, e) = (<<>> \o <<>>) \o <<[index |-> a, from |-> 0, to |-> d]>>
    <3>1. Pieces(o, e) = (<<>> \o (IF c - a > 0 THEN <<[index |-> a, from |-> 0, to |-> BlockSize]>> ELSE <<>>))
                           \o (IF d # 0 THEN <<[index |-> a + (c - a), from |-> 0, to |-> d]>> ELSE <<>>)
      BY <1>1, <1>2, <1>8 DEF Pieces
    <3>2. QED BY <2>1, <3>1
  <2>3. Pieces(o, e) = OnePiece(a, r, d)
    BY <1>8, <2>2 DEF OnePiece
  <2>4. e = a * BlockSize + d /\ d \in 1..BlockSize /\ r < d
    <3>1. e = x + d /\ a * BlockSize = x
      BY <1>1, <1>2, <1>4, <1>8, <1>b, <1>x
    <3>2. QED BY <1>2, <1>8, <1>b, <2>1, <3>1
  <2>5. QED BY <1>1, <1>b, <2>3, <2>4
<1>9. CASE r = 0 /\ c = a + 1
  <2>1. c - a = 1 /\ c - a > 0 /\ d = 0
    BY <1>1, <1>2, <1>5, <1>9, <1>b, <1>x
  <2>2. Pieces(o, e) = (<<>> \o <<[index |-> a, from |-> 0, to |-> BlockSize]>>) \o <<>>
    <3>1. Pieces(o, e) = (<<>> \o (IF c - a > 0 THEN <<[index |-> a, from |-> 0, to |-> BlockSize]>> ELSE <<>>))
                           \o (IF d # 0 THEN <<[index |-> a + (c - a), from |-> 0, to |-> d]>> ELSE <<>>)
      BY <1>1, <1>2, <1>9 DEF Pieces
    <3>2. QED BY <2>1, <3>1
  <2>3. Pieces(o, e) = OnePiece(a, r, BlockSize)
    BY <1>9, <2>2 DEF OnePiece
  <2>4. e = a * BlockSize + BlockSize /\ BlockSize \in 1..BlockSize /\ r < BlockSize
    BY <1>1, <1>2, <1>5, <1>9, <1>b, <1>x, <2>1
  <2>5. QED BY <1>1, <1>b, <2>3, <2>4
<1>10. QED BY <1>3, <1>6, <1>7, <1>8, <1>9

\* The calls of sfs_io_nolock for one and for two blocks.
LEMMA MovedOne ==
  ASSUME NEW s, NEW f, NEW p, NEW write, NEW x
  PROVE  Moved(s, f, <<p>>, write, x) = Move(Begin(s), f, p, write, x)
<1>m. PICK b, m : b = Begin(s) /\ m = Move(b, f, p, write, x)
  OBVIOUS
<1> DEFINE ps == <<p>>
           h == [k \in 0..Len(ps) |-> IF k = 0 THEN b ELSE m]
           c == CHOOSE g : g = [k \in 0..Len(ps) |-> IF k = 0 THEN Begin(s)
                                  ELSE Move(g[k - 1], f, ps[k], write, x)]
<1>1. Len(ps) = 1 /\ ps[1] = p
  OBVIOUS
<1> HIDE DEF ps
<1>2. h = [k \in 0..Len(ps) |-> IF k = 0 THEN Begin(s) ELSE Move(h[k - 1], f, ps[k], write, x)]
  <2>1. \A k \in 0..Len(ps) : h[k] = IF k = 0 THEN Begin(s) ELSE Move(h[k - 1], f, ps[k], write, x)
    <3> TAKE k \in 0..Len(ps)
    <3>1. k = 0 \/ k = 1
      BY <1>1
    <3>2. h[0] = b /\ h[1] = m
      BY <1>1
    <3> HIDE DEF h
    <3>3. CASE k = 0
      BY <1>m, <3>2, <3>3
    <3>4. CASE k = 1
      <4>1. k - 1 = 0 /\ k # 0
        BY <3>4
      <4>2. QED BY <1>1, <1>m, <3>2, <3>4, <4>1
    <3>5. QED BY <3>1, <3>3, <3>4
  <2>2. QED BY <2>1
<1>3. c = [k \in 0..Len(ps) |-> IF k = 0 THEN Begin(s) ELSE Move(c[k - 1], f, ps[k], write, x)]
  BY <1>2
<1>4. Moved(s, f, ps, write, x) = c[Len(ps)]
  BY Zenon DEF Moved
<1> HIDE DEF c, h
<1>5. c[0] = b
  BY <1>1, <1>3, <1>m
<1>6. c[1] = m
  <2>1. 1 \in 0..Len(ps) /\ 1 # 0 /\ 1 - 1 = 0
    BY <1>1
  <2>2. c[1] = Move(c[1 - 1], f, ps[1], write, x)
    BY <1>3, <2>1
  <2>3. QED BY <1>1, <1>5, <1>m, <2>1, <2>2
<1>7. QED BY <1>1, <1>4, <1>6, <1>m DEF ps

\* Two pieces are moved one after the other.
LEMMA MovedTwo ==
  ASSUME NEW s, NEW f, NEW p, NEW q, NEW write, NEW x
  PROVE  Moved(s, f, <<p, q>>, write, x) = Move(Move(Begin(s), f, p, write, x), f, q, write, x)
<1>m. PICK b, m : b = Begin(s) /\ m = Move(b, f, p, write, x)
  OBVIOUS
<1>n. PICK n : n = Move(m, f, q, write, x)
  OBVIOUS
<1> DEFINE ps == <<p, q>>
           h == [k \in 0..Len(ps) |-> IF k = 0 THEN b ELSE IF k = 1 THEN m ELSE n]
           c == CHOOSE g : g = [k \in 0..Len(ps) |-> IF k = 0 THEN Begin(s)
                                  ELSE Move(g[k - 1], f, ps[k], write, x)]
<1>1. Len(ps) = 2 /\ ps[1] = p /\ ps[2] = q
  OBVIOUS
<1> HIDE DEF ps
<1>2. h = [k \in 0..Len(ps) |-> IF k = 0 THEN Begin(s) ELSE Move(h[k - 1], f, ps[k], write, x)]
  <2>1. \A k \in 0..Len(ps) : h[k] = IF k = 0 THEN Begin(s) ELSE Move(h[k - 1], f, ps[k], write, x)
    <3> TAKE k \in 0..Len(ps)
    <3>1. k = 0 \/ k = 1 \/ k = 2
      BY <1>1
    <3>2. h[0] = b /\ h[1] = m /\ h[2] = n
      BY <1>1
    <3> HIDE DEF h
    <3>3. CASE k = 0
      BY <1>m, <3>2, <3>3
    <3>4. CASE k = 1
      <4>1. k - 1 = 0 /\ k # 0
        BY <3>4
      <4>2. QED BY <1>1, <1>m, <3>2, <3>4, <4>1
    <3>5. CASE k = 2
      <4>1. k - 1 = 1 /\ k # 0
        BY <3>5
      <4>2. QED BY <1>1, <1>n, <3>2, <3>5, <4>1
    <3>6. QED BY <3>1, <3>3, <3>4, <3>5
  <2>2. QED BY <2>1
<1>3. c = [k \in 0..Len(ps) |-> IF k = 0 THEN Begin(s) ELSE Move(c[k - 1], f, ps[k], write, x)]
  BY <1>2
<1>4. Moved(s, f, ps, write, x) = c[Len(ps)]
  BY Zenon DEF Moved
<1> HIDE DEF c, h
<1>5. c[0] = b
  BY <1>1, <1>3, <1>m
<1>6. c[1] = m
  <2>1. 1 \in 0..Len(ps) /\ 1 # 0 /\ 1 - 1 = 0
    BY <1>1
  <2>2. c[1] = Move(c[1 - 1], f, ps[1], write, x)
    BY <1>3, <2>1
  <2>3. QED BY <1>1, <1>5, <1>m, <2>1, <2>2
<1>7. c[2] = n
  <2>1. 2 \in 0..Len(ps) /\ 2 # 0 /\ 2 - 1 = 1
    BY <1>1
  <2>2. c[2] = Move(c[2 - 1], f, ps[2], write, x)
    BY <1>3, <2>1
  <2>3. QED BY <1>1, <1>6, <1>n, <2>1, <2>2
<1>8. QED BY <1>1, <1>4, <1>7, <1>m, <1>n DEF ps

------------------------------------------------------------------------------
(* What is written. *)

\* t is s with v written to f from o to o + m - 1, and the blocks for it
Wrote(s, t, f, o, m, v) ==
  /\ Core(t) /\ Others(s, t, f) /\ Noted(s, t, f)
  /\ t.din[f].size = s.din[f].size /\ s.din[f].blocks <= t.din[f].blocks
  /\ m # 0 => o + m <= t.din[f].blocks * BlockSize
  /\ \A g \in File, q \in Offset : At(t, g, q) = IF g = f /\ o <= q /\ q < o + m THEN v ELSE At(s, g, q)

\* what a call of n bytes writes
ByWrite(write, n) == IF write THEN n ELSE 0

\* Nothing written.
LEMMA WroteNone ==
  ASSUME NEW s, NEW t, NEW f \in File, Grows(s, t, f), NEW o \in Nat, NEW v
  PROVE  Wrote(s, t, f, o, 0, v)
<1>1. \A q \in Offset : ~(o <= q /\ q < o + 0)
  <2>1. \A q \in Offset : q \in Nat
    BY Constants DEF Offset
  <2>2. QED BY <2>1
<1>2. QED BY <1>1 DEF Grows, Wrote

\* A core file system has its blocks counted in naturals.
LEMMA CountIn ==
  ASSUME NEW s, Core(s), NEW f \in File
  PROVE  s \in Store /\ s.din[f] \in DiskInode /\ s.din[f].blocks \in Nat /\ s.din[f].size \in Nat
         /\ s.din[f].size \in 0..MaxFile /\ s.din[f].blocks \in 0..NDirect+NEntries
<1>1. s \in Store /\ s.din[f] \in DiskInode
  BY StoreFacts DEF Core
<1>2. QED BY <1>1, InodeFacts, Constants

\* Two writes that join are one.
LEMMA WroteOn ==
  ASSUME NEW s, NEW t, NEW u, NEW f \in File, NEW o \in Nat, NEW m \in Nat, NEW n \in Nat, NEW v,
         Core(s), Wrote(s, t, f, o, m, v), Wrote(t, u, f, o + m, n, v)
  PROVE  Wrote(s, u, f, o, m + n, v)
<1>1. /\ Core(t) /\ Others(s, t, f) /\ Noted(s, t, f)
      /\ t.din[f].size = s.din[f].size /\ s.din[f].blocks <= t.din[f].blocks
      /\ m # 0 => o + m <= t.din[f].blocks * BlockSize
  BY DEF Wrote
<1>2. /\ Core(u) /\ Others(t, u, f) /\ Noted(t, u, f)
      /\ u.din[f].size = t.din[f].size /\ t.din[f].blocks <= u.din[f].blocks
      /\ n # 0 => o + m + n <= u.din[f].blocks * BlockSize
  BY DEF Wrote
<1>3. PICK i \in Nat, j \in Nat, k \in Nat : i = s.din[f].blocks /\ j = t.din[f].blocks /\ k = u.din[f].blocks
  BY <1>1, <1>2, CountIn
<1>4. Others(s, u, f) /\ Noted(s, u, f)
  BY <1>1, <1>2 DEF Others, Noted
<1>5. u.din[f].size = s.din[f].size /\ s.din[f].blocks <= u.din[f].blocks
  BY <1>1, <1>2, <1>3
<1>6. m + n # 0 => o + (m + n) <= u.din[f].blocks * BlockSize
  <2>1. CASE n # 0
    BY <1>2, <2>1
  <2>2. CASE n = 0 /\ m # 0
    <3>1. o + m <= j * BlockSize
      BY <1>1, <1>3, <2>2
    <3>2. o + m <= k * BlockSize
      BY <1>1, <1>2, <1>3, <3>1, MoreBlocks
    <3>3. o + (m + n) = o + m
      BY <2>2
    <3>4. QED BY <1>3, <3>2, <3>3
  <2>3. QED BY <2>1, <2>2
<1>7. ASSUME NEW g \in File, NEW q \in Offset
      PROVE  At(u, g, q) = IF g = f /\ o <= q /\ q < o + (m + n) THEN v ELSE At(s, g, q)
  <2>1. q \in Nat
    BY Constants DEF Offset
  <2>2. At(u, g, q) = IF g = f /\ o + m <= q /\ q < o + m + n THEN v ELSE At(t, g, q)
    BY DEF Wrote
  <2>3. At(t, g, q) = IF g = f /\ o <= q /\ q < o + m THEN v ELSE At(s, g, q)
    BY DEF Wrote
  <2>4. (o <= q /\ q < o + (m + n)) <=> (o + m <= q /\ q < o + m + n) \/ (o <= q /\ q < o + m)
    BY <2>1
  <2>5. QED BY <2>2, <2>3, <2>4
<1>8. QED BY <1>2, <1>4, <1>5, <1>6, <1>7 DEF Wrote

\* What is written to a block is written to the file.
LEMMA FillsWrote ==
  ASSUME NEW s, Core(s), NEW t, NEW f \in File, NEW p \in Piece, p.from < p.to, p.index < s.din[f].blocks,
         NEW v, Fills(s, t, f, p.index, p.from, p.to, v)
  PROVE  Wrote(s, t, f, PieceBegins(p), Length(p), v)
<1>1. Core(t) /\ t.din = s.din /\ t.dirty = s.dirty /\ t.ondisk = s.ondisk
  BY DEF Fills
<1>2. Others(s, t, f) /\ Noted(s, t, f)
  BY <1>1 DEF Others, Noted
<1>3. s.din[f].blocks \in Nat
  BY CountIn
<1>p. PICK i \in Nat, j \in 0..BlockSize-1, k \in 1..BlockSize : i = p.index /\ j = p.from /\ k = p.to
  <2>1. p.index \in Nat
    BY Constants DEF Piece, Index
  <2>2. QED BY <2>1 DEF Piece
<1>e. PieceBegins(p) \in Nat /\ PieceStops(p) \in Nat /\ PieceBegins(p) + Length(p) = PieceStops(p)
  <2>1. PICK x \in Nat : x = i * BlockSize
    BY Constants
  <2>2. PieceBegins(p) = x + j /\ PieceStops(p) = x + k /\ Length(p) = k - j
    BY <1>p, <2>1 DEF PieceBegins, PieceStops, Length
  <2>3. j \in Nat /\ k \in Nat
    BY Constants
  <2>4. QED BY <2>2, <2>3
<1>4. ASSUME NEW g \in File, NEW q \in Offset
      PROVE  At(t, g, q) = IF g = f /\ PieceBegins(p) <= q /\ q < PieceBegins(p) + Length(p) THEN v
                           ELSE At(s, g, q)
  <2>1. At(t, g, q) = IF g = f /\ q \div BlockSize = p.index /\ p.from <= q % BlockSize /\ q % BlockSize < p.to
                      THEN v ELSE At(s, g, q)
    BY DEF Fills
  <2>2. q \div BlockSize = p.index /\ p.from <= q % BlockSize /\ q % BlockSize < p.to
          <=> PieceBegins(p) <= q /\ q < PieceStops(p)
    BY InPiece
  <2>3. QED BY <1>e, <2>1, <2>2
<1>5. PieceBegins(p) + Length(p) <= t.din[f].blocks * BlockSize
  <2>n. PICK n \in Nat : n = s.din[f].blocks
    BY <1>3
  <2>1. PieceStops(p) <= (i + 1) * BlockSize
    <3>1. PICK x \in Nat : x = i * BlockSize
      BY Constants
    <3>2. PieceStops(p) = x + k /\ k <= BlockSize
      BY <1>p, <3>1 DEF PieceStops
    <3>3. (i + 1) * BlockSize = x + BlockSize
      BY <3>1, Constants
    <3>4. QED BY <3>1, <3>2, <3>3, Constants
  <2>2. i + 1 <= n
    BY <1>p, <2>n
  <2>3. PieceStops(p) <= n * BlockSize
    BY <1>e, <2>1, <2>2, MoreBlocks
  <2>4. QED BY <1>1, <1>e, <2>3, <2>n
<1>6. t.din[f].size = s.din[f].size /\ s.din[f].blocks <= t.din[f].blocks
  BY <1>1, <1>3
<1>7. QED BY <1>1, <1>2, <1>4, <1>5, <1>6 DEF Wrote

\* what one piece of a call does that does not fail an assertion
Moves(a, m, f, p, write, x) ==
  IF m.ok THEN /\ Len(m.bytes) = Len(a.bytes) + Length(p)
               /\ Wrote(a.s, m.s, f, PieceBegins(p), ByWrite(write, Length(p)), x)
  ELSE Len(m.bytes) = Len(a.bytes) /\ Wrote(a.s, m.s, f, PieceBegins(p), 0, x)

\* A piece lies in the file.
LEMMA PieceIn ==
  ASSUME NEW p \in Piece, p.from < p.to
  PROVE  /\ p.index \in Index /\ p.from \in 0..BlockSize-1 /\ p.to \in 1..BlockSize
         /\ PieceBegins(p) \in Nat /\ Length(p) \in Nat /\ Length(p) # 0
         /\ PieceStops(p) = PieceBegins(p) + Length(p) /\ PieceStops(p) <= MaxFile
<1>1. p.index \in Index /\ p.from \in 0..BlockSize-1 /\ p.to \in 1..BlockSize
  BY DEF Piece
<1>p. PICK i \in Nat, j \in Nat, k \in Nat :
        i = p.index /\ j = p.from /\ k = p.to /\ i + 1 <= NDirect + NEntries /\ j < k /\ k <= BlockSize
  BY <1>1, Constants DEF Index
<1>2. PICK x \in Nat : x = i * BlockSize
  BY Constants
<1>3. PieceBegins(p) = x + j /\ PieceStops(p) = x + k /\ Length(p) = k - j
  BY <1>p, <1>2 DEF PieceBegins, PieceStops, Length
<1>4. (i + 1) * BlockSize <= (NDirect + NEntries) * BlockSize
  <2>1. i + 1 \in Nat /\ NDirect + NEntries \in Nat /\ (i + 1) * BlockSize \in Nat /\ (i + 1) * BlockSize <= (i + 1) * BlockSize
    BY Constants
  <2>2. QED BY <1>p, <2>1, MoreBlocks
<1>5. (i + 1) * BlockSize = x + BlockSize
  BY <1>2, Constants
<1>6. QED BY <1>1, <1>p, <1>3, <1>4, <1>5, Constants

\* One block of sfs_io_nolock.
LEMMA MoveDoes ==
  ASSUME NEW a \in Call, Core(a.s), a.ok, ~a.bad, NEW f \in File, NEW p \in Piece, p.from < p.to,
         NEW write \in BOOLEAN, NEW x \in Byte, NEW m, m = Move(a, f, p, write, x)
  PROVE  /\ m \in Call /\ (m.bad => ~m.ok)
         /\ ~m.bad => Moves(a, m, f, p, write, x)
<1>i. PICK i : i = p.index
  OBVIOUS
<1>0. /\ i \in Index /\ p.from \in Int /\ p.to \in Int /\ PieceBegins(p) \in Nat /\ Length(p) \in Nat
      /\ a.s.din[f].blocks \in Nat /\ i \in Nat
  BY <1>i, PieceIn, CountIn, Constants DEF Index
<1>l. PICK l : l = Load(a, f, i)
  OBVIOUS
<1>1. /\ l \in Call /\ l.bytes = a.bytes /\ Grows(a.s, l.s, f)
      /\ (i > a.s.din[f].blocks => l.bad /\ ~l.ok)
      /\ (i <= a.s.din[f].blocks => l.bad = a.bad)
      /\ (i <= a.s.din[f].blocks /\ l.ok => i < l.s.din[f].blocks /\ Mapped(l.s, l.s.din[f], i) # NoBlock)
  BY <1>0, <1>l, LoadFacts
<1>2. i > a.s.din[f].blocks \/ i <= a.s.din[f].blocks
  BY <1>0
<1>3. l.bad => ~l.ok
  BY <1>1, <1>2
<1>4. Wrote(a.s, l.s, f, PieceBegins(p), 0, x)
  BY <1>0, <1>1, WroteNone
<1>5. CASE ~l.ok
  <2>1. m = l
    BY <1>5, <1>i, <1>l DEF Move
  <2>2. QED BY <1>1, <1>3, <1>4, <1>5, <2>1 DEF Moves
<1>6. CASE l.ok
  <2>b. PICK b, old : b = Mapped(l.s, l.s.din[f], i) /\ old = l.s.block[b].data
    OBVIOUS
  <2>0. Core(l.s) /\ i < l.s.din[f].blocks /\ b # NoBlock /\ ~l.bad /\ l.s \in Store
    BY <1>1, <1>2, <1>3, <1>6, <2>b DEF Grows, Core
  <2>1. CASE write
    <3>u. PICK u : u = [l.s EXCEPT !.block[b].data =
                          [n \in DOMAIN old |-> IF p.from <= n /\ n < p.to THEN x ELSE old[n]]]
      OBVIOUS
    <3>1. Fills(l.s, u, f, i, p.from, p.to, x)
      <4>1. PICK c : c = l.s
        OBVIOUS
      <4>2. PICK j \in Int, k \in Int : j = p.from /\ k = p.to
        BY <1>0
      <4>3. Core(c) /\ b = Mapped(c, c.din[f], i) /\ b # NoBlock /\ old = c.block[b].data
        BY <2>0, <2>b, <4>1
      <4>4. Fills(c, Filled(c, b, old, j, k, x), f, i, j, k, x)
        BY <1>0, <4>3, BlockFills
      <4>5. Filled(c, b, old, j, k, x) = u
        BY <3>u, <4>1, <4>2 DEF Filled
      <4>6. QED BY <4>1, <4>2, <4>4, <4>5
    <3>2. Wrote(l.s, u, f, PieceBegins(p), Length(p), x)
      BY <1>i, <2>0, <3>1, FillsWrote
    <3>r. PICK r : r = [n \in 1..Length(p) |-> x]
      OBVIOUS
    <3>3. r \in Seq(Byte) /\ Len(r) = Length(p)
      BY <1>0, <3>r
    <3>4. m = [l EXCEPT !.s = u, !.bytes = l.bytes \o r]
      <4>1. m = [l EXCEPT !.s.block[b].data =
                          [n \in DOMAIN old |-> IF p.from <= n /\ n < p.to THEN x ELSE old[n]],
                          !.bytes = @ \o [n \in 1..Length(p) |-> x]]
        BY <1>6, <1>i, <1>l, <2>1, <2>b, Zenon DEF Move
      <4>2. QED BY <3>r, <3>u, <4>1
    <3>5. u \in Store
      BY <3>1 DEF Fills, Core
    <3>6. l.bytes \o r \in Seq(Byte) /\ Len(l.bytes \o r) = Len(a.bytes) + Length(p)
      <4>1. PICK w \in Seq(Byte) : w = l.bytes
        BY <1>1 DEF Call
      <4>2. w \o r \in Seq(Byte) /\ Len(w \o r) = Len(w) + Len(r)
        BY <3>3, <4>1, ConcatAt, Zenon
      <4>3. QED BY <1>1, <3>3, <4>1, <4>2
    <3>7. m \in Call /\ m.s = u /\ m.bytes = l.bytes \o r /\ m.ok /\ ~m.bad
      BY <1>1, <1>6, <2>0, <3>4, <3>5, <3>6 DEF Call
    <3>8. Wrote(a.s, u, f, PieceBegins(p), 0 + Length(p), x)
      <4>1. PieceBegins(p) + 0 = PieceBegins(p)
        BY <1>0
      <4>2. QED BY <1>0, <1>4, <3>2, <4>1, WroteOn
    <3>9. 0 + Length(p) = ByWrite(write, Length(p))
      BY <1>0, <2>1 DEF ByWrite
    <3>10. QED BY <3>6, <3>7, <3>8, <3>9 DEF Moves
  <2>2. CASE ~write
    <3>r. PICK r : r = [n \in 1..Length(p) |-> old[p.from + n - 1]]
      OBVIOUS
    <3>0. old \in [0..BlockSize-1 -> Byte]
      <4>1. b \in 0..NBlocks
        BY <1>0, <2>0, <2>b, SpotIn
      <4>2. b \in Block
        BY <2>0, <4>1, Constants DEF Block, NoBlock
      <4>3. QED BY <2>0, <2>b, <4>2, StoreFacts, BlockFacts
    <3>3. r \in Seq(Byte) /\ Len(r) = Length(p)
      <4>1. ASSUME NEW n \in 1..Length(p) PROVE old[p.from + n - 1] \in Byte
        <5>1. p.from + n - 1 \in 0..BlockSize-1
          BY <1>0, PieceIn, Constants DEF Length
        <5>2. QED BY <3>0, <5>1
      <4>2. QED BY <1>0, <3>r, <4>1
    <3>4. m = [l EXCEPT !.bytes = l.bytes \o r]
      BY <1>6, <1>i, <1>l, <2>2, <2>b, <3>r, Zenon DEF Move
    <3>6. l.bytes \o r \in Seq(Byte) /\ Len(l.bytes \o r) = Len(a.bytes) + Length(p)
      <4>1. PICK w \in Seq(Byte) : w = l.bytes
        BY <1>1 DEF Call
      <4>2. w \o r \in Seq(Byte) /\ Len(w \o r) = Len(w) + Len(r)
        BY <3>3, <4>1, ConcatAt, Zenon
      <4>3. QED BY <1>1, <3>3, <4>1, <4>2
    <3>7. m \in Call /\ m.s = l.s /\ m.bytes = l.bytes \o r /\ m.ok /\ ~m.bad
      BY <1>1, <1>6, <2>0, <3>4, <3>6 DEF Call
    <3>9. 0 = ByWrite(write, Length(p))
      BY <2>2 DEF ByWrite
    <3>10. QED BY <1>4, <3>6, <3>7, <3>9 DEF Moves
  <2>3. QED BY <2>1, <2>2
<1>7. QED BY <1>5, <1>6

\* a piece with at least a byte
NonEmpty(p) == p \in Piece /\ p.from < p.to

\* The pieces of a call join at their edges.
LEMMA PiecesSplit ==
  ASSUME NEW o \in Nat, NEW e \in Nat, o < e, e <= o + BlockSize, e <= MaxFile
  PROVE  \E p : /\ NonEmpty(p) /\ PieceBegins(p) = o
                /\ \/ Pieces(o, e) = <<p>> /\ PieceStops(p) = e
                   \/ \E q : /\ NonEmpty(q) /\ PieceBegins(q) = PieceStops(p) /\ PieceStops(q) = e
                             /\ Pieces(o, e) = <<p, q>>
<1>b. PICK b \in Nat \ {0} : b = BlockSize
  BY Constants
<1>1. PICK a \in Nat, r \in 0..BlockSize-1, x \in 1..BlockSize :
        /\ o = a * BlockSize + r
        /\ \/ r < x /\ e = a * BlockSize + x /\ Pieces(o, e) = OnePiece(a, r, x)
           \/ e = a * BlockSize + BlockSize + x /\ Pieces(o, e) = TwoPieces(a, r, x)
  BY PiecesAre
<1>2. ASSUME NEW i \in Nat, i * BlockSize < MaxFile PROVE i \in Index
  <2>1. CASE i < NDirect + NEntries
    BY <2>1, Constants DEF Index
  <2>2. CASE ~(i < NDirect + NEntries)
    <3>1. MaxFile \in Nat /\ MaxFile <= (NDirect + NEntries) * BlockSize /\ NDirect + NEntries \in Nat
          /\ NDirect + NEntries <= i
      BY <2>2, Constants
    <3>2. MaxFile <= i * BlockSize
      BY <3>1, MoreBlocks
    <3>3. i * BlockSize \in Nat
      BY Constants
    <3>4. QED BY <1>2, <3>1, <3>2, <3>3
  <2>3. QED BY <2>1, <2>2
<1>y. PICK y \in Nat : y = a * BlockSize /\ y = a * b
  BY <1>b, Constants
<1>3. r \in Nat /\ x \in Nat /\ x # 0 /\ r < b /\ x <= b
  BY <1>b
<1>4. CASE r < x /\ e = a * BlockSize + x /\ Pieces(o, e) = OnePiece(a, r, x)
  <2>p. PICK p : p = [index |-> a, from |-> r, to |-> x]
    OBVIOUS
  <2>1. a \in Index
    BY <1>2, <1>3, <1>4, <1>y, Constants
  <2>2. NonEmpty(p)
    BY <1>4, <2>1, <2>p DEF NonEmpty, Piece
  <2>3. PieceBegins(p) = o /\ PieceStops(p) = e
    BY <1>1, <1>4, <2>p DEF PieceBegins, PieceStops
  <2>4. QED BY <1>4, <2>2, <2>3, <2>p DEF OnePiece
<1>5. CASE e = a * BlockSize + BlockSize + x /\ Pieces(o, e) = TwoPieces(a, r, x)
  <2>p. PICK p : p = [index |-> a, from |-> r, to |-> BlockSize]
    OBVIOUS
  <2>q. PICK q : q = [index |-> a + 1, from |-> 0, to |-> x]
    OBVIOUS
  <2>0. (a + 1) * BlockSize = y + b /\ a + 1 \in Nat
    <3>1. (a + 1) * b = a * b + b
      OBVIOUS
    <3>2. QED BY <1>b, <1>y, <3>1
  <2>1. a \in Index /\ a + 1 \in Index
    <3>1. a * BlockSize < MaxFile
      BY <1>3, <1>5, <1>b, <1>y, Constants
    <3>2. (a + 1) * BlockSize < MaxFile
      BY <1>3, <1>5, <1>b, <1>y, <2>0, Constants
    <3>3. QED BY <1>2, <2>0, <3>1, <3>2
  <2>2. NonEmpty(p) /\ NonEmpty(q)
    <3>1. BlockSize \in 1..BlockSize /\ r < BlockSize /\ 0 \in 0..BlockSize-1 /\ 0 < x
      BY Constants
    <3>2. QED BY <2>1, <2>p, <2>q, <3>1 DEF NonEmpty, Piece
  <2>3. PieceBegins(p) = o /\ PieceStops(p) = y + b
    BY <1>1, <1>b, <1>y, <2>p DEF PieceBegins, PieceStops
  <2>4. PieceBegins(q) = y + b /\ PieceStops(q) = e
    <3>1. PieceBegins(q) = y + b + 0 /\ PieceStops(q) = y + b + x
      BY <2>0, <2>q DEF PieceBegins, PieceStops
    <3>2. e = y + b + x
      BY <1>5, <1>b, <1>y
    <3>3. QED BY <1>b, <1>y, <3>1, <3>2
  <2>5. QED BY <1>5, <2>2, <2>3, <2>4, <2>p, <2>q DEF TwoPieces
<1>6. QED BY <1>1, <1>4, <1>5

\* What sfs_io_nolock has done before it looks at the size again: it has written
\* bytes of the file without a gap, as many as it says.
MovesBytes(s, a, f, o, n, write, x) ==
  a \in Call /\ (~a.bad => /\ Len(a.bytes) \in 0..n
                           /\ Wrote(s, a.s, f, o, ByWrite(write, Len(a.bytes)), x))

\* A write of nothing has at most appended blocks.
LEMMA WroteNothing ==
  ASSUME NEW s, NEW t, NEW f \in File, NEW o \in Nat, NEW v, Wrote(s, t, f, o, 0, v)
  PROVE  Grows(s, t, f)
<1>1. \A q \in Offset : ~(o <= q /\ q < o + 0)
  <2>1. \A q \in Offset : q \in Nat
    BY Constants DEF Offset
  <2>2. QED BY <2>1
<1>2. QED BY <1>1 DEF Grows, Wrote

\* The bytes of two pieces add up.
LEMMA ByWriteAdds ==
  ASSUME NEW write \in BOOLEAN, NEW m \in Nat, NEW n \in Nat
  PROVE  ByWrite(write, m + n) = ByWrite(write, m) + ByWrite(write, n) /\ ByWrite(write, m) \in Nat
BY DEF ByWrite

\* The pieces that sfs_io_nolock has moved, all or those before one that failed.
LEMMA MovedDoes ==
  ASSUME NEW s, Core(s), NEW f \in File, NEW o \in Nat, NEW e \in Nat, o < e, e <= o + BlockSize, e <= MaxFile,
         NEW write \in BOOLEAN, NEW x \in Byte
  PROVE  MovesBytes(s, Moved(s, f, Pieces(o, e), write, x), f, o, e - o, write, x)
<1>p. PICK p : /\ NonEmpty(p) /\ PieceBegins(p) = o
               /\ \/ Pieces(o, e) = <<p>> /\ PieceStops(p) = e
                  \/ \E q : /\ NonEmpty(q) /\ PieceBegins(q) = PieceStops(p) /\ PieceStops(q) = e
                            /\ Pieces(o, e) = <<p, q>>
  BY PiecesSplit
<1>1. p \in Piece /\ p.from < p.to
  BY <1>p DEF NonEmpty
<1>2. PICK n \in Nat : n = Length(p) /\ PieceStops(p) = o + n
  BY <1>1, <1>p, PieceIn
<1>b. PICK b : b = Begin(s)
  OBVIOUS
<1>3. b \in Call /\ b.s = s /\ b.ok /\ ~b.bad /\ Len(b.bytes) = 0
  BY <1>b, BeginFacts DEF Core
<1>m. PICK m : m = Move(b, f, p, write, x)
  OBVIOUS
<1>4. m \in Call /\ (m.bad => ~m.ok) /\ (~m.bad => Moves(b, m, f, p, write, x))
  BY <1>1, <1>3, <1>m, MoveDoes
<1>5. CASE m.ok
  <2>1. ~m.bad /\ Len(m.bytes) = n /\ Wrote(s, m.s, f, o, ByWrite(write, n), x)
    BY <1>2, <1>3, <1>4, <1>5, <1>p DEF Moves
  <2>2. CASE Pieces(o, e) = <<p>> /\ PieceStops(p) = e
    <3>1. Moved(s, f, Pieces(o, e), write, x) = m
      BY <1>b, <1>m, <2>2, MovedOne
    <3>2. n \in 0..e - o
      BY <1>2, <2>2
    <3>3. QED BY <1>4, <2>1, <3>1, <3>2 DEF MovesBytes
  <2>3. ASSUME NEW q, NonEmpty(q), PieceBegins(q) = PieceStops(p), PieceStops(q) = e, Pieces(o, e) = <<p, q>>
        PROVE  MovesBytes(s, Moved(s, f, Pieces(o, e), write, x), f, o, e - o, write, x)
    <3>1. q \in Piece /\ q.from < q.to
      BY <2>3 DEF NonEmpty
    <3>2. PICK k \in Nat : k = Length(q) /\ e = o + n + k
      BY <1>2, <2>3, <3>1, PieceIn
    <3>l. PICK l : l = Move(m, f, q, write, x)
      OBVIOUS
    <3>3. Moved(s, f, Pieces(o, e), write, x) = l
      BY <1>b, <1>m, <2>3, <3>l, MovedTwo
    <3>4. Core(m.s)
      BY <2>1 DEF Wrote
    <3>5. l \in Call /\ (~l.bad => Moves(m, l, f, q, write, x))
      BY <1>4, <1>5, <2>1, <3>1, <3>4, <3>l, MoveDoes
    <3>6. ASSUME NEW j \in {0, k}, ~l.bad, Len(l.bytes) = n + j, Wrote(m.s, l.s, f, o + n, ByWrite(write, j), x)
          PROVE  MovesBytes(s, l, f, o, e - o, write, x)
      <4>1. j \in Nat /\ n + j \in 0..e - o
        BY <3>2
      <4>2. Wrote(s, l.s, f, o, ByWrite(write, n) + ByWrite(write, j), x)
        <5>1. CASE write
          <6>1. ByWrite(write, n) = n /\ ByWrite(write, j) = j
            BY <5>1 DEF ByWrite
          <6>2. QED BY <2>1, <3>6, <4>1, <6>1, WroteOn
        <5>2. CASE ~write
          <6>1. ByWrite(write, n) = 0 /\ ByWrite(write, j) = 0
            BY <5>2 DEF ByWrite
          <6>2. Wrote(m.s, l.s, f, o + 0, 0, x)
            <7>1. PICK u, v, w : u = m.s /\ v = l.s /\ w = o + n
              OBVIOUS
            <7>2. w \in Nat /\ Wrote(u, v, f, w, 0, x)
              BY <3>6, <6>1, <7>1
            <7>3. Grows(u, v, f)
              BY <7>2, WroteNothing
            <7>4. o + 0 \in Nat
              OBVIOUS
            <7>5. Wrote(u, v, f, o + 0, 0, x)
              BY <7>3, <7>4, WroteNone
            <7>6. QED BY <7>1, <7>5
          <6>3. Wrote(s, l.s, f, o, 0 + 0, x)
            BY <2>1, <6>1, <6>2, WroteOn
          <6>4. QED BY <6>1, <6>3
        <5>3. QED BY <5>1, <5>2
      <4>3. QED BY <3>5, <3>6, <4>1, <4>2, ByWriteAdds DEF MovesBytes
    <3>7. CASE ~l.bad /\ l.ok
      <4>1. Len(l.bytes) = n + k /\ Wrote(m.s, l.s, f, o + n, ByWrite(write, k), x)
        BY <1>2, <2>1, <2>3, <3>2, <3>5, <3>7 DEF Moves
      <4>2. QED BY <3>3, <3>6, <3>7, <4>1
    <3>8. CASE ~l.bad /\ ~l.ok
      <4>1. Len(l.bytes) = n /\ Wrote(m.s, l.s, f, o + n, 0, x)
        BY <1>2, <2>1, <2>3, <3>5, <3>8 DEF Moves
      <4>2. n + 0 = n /\ ByWrite(write, 0) = 0
        BY DEF ByWrite
      <4>3. QED BY <3>3, <3>6, <3>8, <4>1, <4>2
    <3>9. CASE l.bad
      BY <3>3, <3>5, <3>9 DEF MovesBytes
    <3>10. QED BY <3>7, <3>8, <3>9
  <2>4. QED BY <1>p, <2>2, <2>3
<1>6. CASE ~m.ok
  <2>1. Moved(s, f, Pieces(o, e), write, x) = m
    <3>1. CASE Pieces(o, e) = <<p>>
      BY <1>b, <1>m, <3>1, MovedOne
    <3>2. ASSUME NEW q, Pieces(o, e) = <<p, q>>
          PROVE  Moved(s, f, Pieces(o, e), write, x) = m
      <4>1. Move(m, f, q, write, x) = m
        BY <1>6 DEF Move
      <4>2. QED BY <1>b, <1>m, <3>2, <4>1, MovedTwo
    <3>3. QED BY <1>p, <3>1, <3>2
  <2>2. CASE m.bad
    BY <1>4, <2>1, <2>2 DEF MovesBytes
  <2>3. CASE ~m.bad
    <3>1. Len(m.bytes) = 0 /\ Wrote(s, m.s, f, o, 0, x)
      BY <1>3, <1>4, <1>6, <1>p, <2>3 DEF Moves
    <3>2. ByWrite(write, 0) = 0 /\ 0 \in 0..e - o
      BY DEF ByWrite
    <3>3. QED BY <1>4, <2>1, <3>1, <3>2 DEF MovesBytes
  <2>4. QED BY <2>2, <2>3
<1>7. QED BY <1>5, <1>6

------------------------------------------------------------------------------
(* What is read. *)

\* a call that has read n bytes of f at o
Reads(s, a, f, o, n) ==
  /\ a \in Call /\ a.s = s /\ a.ok /\ ~a.bad /\ Len(a.bytes) = n
  /\ \A i \in 1..n : a.bytes[i] = At(s, f, o + i - 1)

\* A piece whose bytes the file has a block for is in it.
LEMMA PieceMapped ==
  ASSUME NEW p, NonEmpty(p), NEW n \in Nat, PieceStops(p) <= n * BlockSize
  PROVE  p.index < n
<1>1. p \in Piece /\ p.from < p.to
  BY DEF NonEmpty
<1>p. PICK i \in Nat, j \in Nat : i = p.index /\ j = p.from
  BY <1>1, PieceIn, Constants DEF Index
<1>2. PieceBegins(p) \in Nat /\ PieceStops(p) \in Nat /\ PieceBegins(p) < PieceStops(p)
  BY <1>1, PieceIn
<1>3. PICK y \in Nat, z \in Nat : y = i * BlockSize /\ z = n * BlockSize
  BY Constants
<1>4. PieceBegins(p) = y + j
  BY <1>p, <1>3 DEF PieceBegins
<1>5. CASE n <= i
  <2>1. z <= i * BlockSize
    BY <1>3, <1>5, MoreBlocks
  <2>2. QED BY <1>2, <1>3, <1>4, <2>1
<1>6. QED BY <1>5, <1>p

\* One piece read.
LEMMA MoveReads ==
  ASSUME NEW s, Core(s), NEW a, NEW f \in File, NEW o \in Nat, NEW n \in Nat, Reads(s, a, f, o, n),
         NEW p, NonEmpty(p), PieceBegins(p) = o + n, p.index < s.din[f].blocks, NEW x
  PROVE  Reads(s, Move(a, f, p, FALSE, x), f, o, n + Length(p))
<1>m. PICK m : m = Move(a, f, p, FALSE, x)
  OBVIOUS
<1>1. p \in Piece /\ p.from < p.to
  BY DEF NonEmpty
<1>2. a \in Call /\ a.s = s /\ a.ok /\ ~a.bad /\ Len(a.bytes) = n /\ \A i \in 1..n : a.bytes[i] = At(s, f, o + i - 1)
  BY DEF Reads
<1>p. PICK i \in Index, j \in 0..BlockSize-1, k \in 1..BlockSize, len \in Nat :
        i = p.index /\ j = p.from /\ k = p.to /\ len = Length(p) /\ len # 0 /\ i \in Nat
        /\ PieceStops(p) = o + n + len /\ PieceStops(p) <= MaxFile
  BY <1>1, PieceIn, Constants DEF Index
<1>b. PICK b, old : b = Mapped(s, s.din[f], i) /\ old = s.block[b].data
  OBVIOUS
<1>3. i < s.din[f].blocks
  BY <1>p
<1>l. Load(a, f, i) = a
  BY <1>2, <1>3, LoadFacts
<1>4. b # NoBlock
  BY <1>3, <1>b DEF Core, Covered
<1>5. old \in [0..BlockSize-1 -> Byte] /\ b \in Block
  <2>1. b \in 0..NBlocks /\ s \in Store
    BY <1>b, SpotIn DEF Core
  <2>2. b \in Block
    BY <1>4, <2>1, Constants DEF Block, NoBlock
  <2>3. QED BY <1>b, <2>1, <2>2, StoreFacts, BlockFacts
<1>r. PICK r : r = [y \in 1..len |-> old[j + y - 1]]
  OBVIOUS
<1>6. r \in Seq(Byte) /\ Len(r) = len /\ \A y \in 1..len : r[y] = old[j + y - 1]
  <2>1. ASSUME NEW y \in 1..len PROVE old[j + y - 1] \in Byte
    <3>1. j + y - 1 \in 0..BlockSize-1
      BY <1>p, Constants DEF Length
    <3>2. QED BY <1>5, <3>1
  <2>2. r \in [1..len -> Byte] /\ \A y \in 1..len : r[y] = old[j + y - 1]
    BY <1>r, <2>1
  <2>3. len \in Nat
    BY <1>p
  <2>4. QED BY <2>2, <2>3
<1>7. m = [a EXCEPT !.bytes = a.bytes \o r]
  BY <1>2, <1>b, <1>l, <1>m, <1>p, <1>r, Zenon DEF Move
<1>w. PICK w \in Seq(Byte) : w = a.bytes
  BY <1>2 DEF Call
<1>v. PICK v : v = w \o r
  OBVIOUS
<1>8. /\ v \in Seq(Byte) /\ Len(v) = n + len
      /\ \A y \in 1..n : v[y] = w[y]
      /\ \A y \in 1..len : v[n + y] = r[y]
  <2>1. w \o r \in Seq(Byte) /\ Len(w \o r) = Len(w) + Len(r)
        /\ (\A y \in 1..Len(w) : (w \o r)[y] = w[y]) /\ \A y \in 1..Len(r) : (w \o r)[Len(w) + y] = r[y]
    <3>1. r \in Seq(Byte)
      BY <1>6
    <3>2. PICK B : B = Byte
      OBVIOUS
    <3>3. w \in Seq(B) /\ r \in Seq(B)
      BY <3>1, <3>2
    <3>4. /\ w \o r \in Seq(B) /\ Len(w \o r) = Len(w) + Len(r)
          /\ \A y \in 1..Len(w) : (w \o r)[y] = w[y]
          /\ \A y \in 1..Len(r) : (w \o r)[Len(w) + y] = r[y]
      BY <3>3, ConcatAt
    <3>5. QED BY <3>2, <3>4
  <2>2. Len(w) = n
    BY <1>2, <1>w
  <2>3. QED BY <1>6, <1>v, <2>1, <2>2
<1>9. m \in Call /\ m.s = s /\ m.ok /\ ~m.bad /\ m.bytes = v
  BY <1>2, <1>7, <1>8, <1>v, <1>w DEF Call
<1>10. ASSUME NEW y \in 1..len PROVE r[y] = At(s, f, o + n + y - 1)
  <2>q. PICK q : q = o + n + y - 1
    OBVIOUS
  <2>1. q \in Nat /\ PieceBegins(p) <= q /\ q < PieceStops(p) /\ q \in Offset
    BY <1>p, <2>q, Constants DEF Offset
  <2>2. q \div BlockSize = i /\ j <= q % BlockSize
    BY <1>1, <1>p, <2>1, InPiece
  <2>3. PICK d \in Nat, z \in 0..BlockSize-1 :
          d = q \div BlockSize /\ z = q % BlockSize /\ q = d * BlockSize + z
    BY <2>1, InBlocks
  <2>4. z = j + y - 1
    <3>1. PICK c \in Nat : c = i * BlockSize
      BY <1>p, Constants
    <3>2. q = c + z
      BY <2>2, <2>3, <3>1
    <3>3. o + n = c + j
      BY <1>p, <3>1 DEF PieceBegins
    <3>4. QED BY <2>q, <3>2, <3>3, Constants
  <2>5. At(s, f, q) = old[z]
    BY <1>4, <1>b, <2>2, <2>3 DEF At
  <2>6. QED BY <1>6, <2>4, <2>5, <2>q
<1>11. ASSUME NEW y \in 1..n + len PROVE v[y] = At(s, f, o + y - 1)
  <2>1. CASE y <= n
    <3>1. y \in 1..n
      BY <2>1
    <3>2. QED BY <1>2, <1>8, <1>w, <3>1
  <2>2. CASE ~(y <= n)
    <3>1. PICK z \in 1..len : y = n + z
      BY <2>2
    <3>2. o + n + z - 1 = o + y - 1
      BY <3>1
    <3>3. QED BY <1>8, <1>10, <3>1, <3>2
  <2>3. QED BY <2>1, <2>2
<1>12. QED BY <1>8, <1>9, <1>11, <1>m, <1>p DEF Reads

\* sfs_io_nolock reads what the file holds.
LEMMA MovedReads ==
  ASSUME NEW s, Core(s), NEW f \in File, NEW o \in Nat, NEW e \in Nat, o < e, e <= o + BlockSize, e <= MaxFile,
         e <= s.din[f].blocks * BlockSize, NEW x
  PROVE  Reads(s, Moved(s, f, Pieces(o, e), FALSE, x), f, o, e - o)
<1>p. PICK p : /\ NonEmpty(p) /\ PieceBegins(p) = o
               /\ \/ Pieces(o, e) = <<p>> /\ PieceStops(p) = e
                  \/ \E q : /\ NonEmpty(q) /\ PieceBegins(q) = PieceStops(p) /\ PieceStops(q) = e
                            /\ Pieces(o, e) = <<p, q>>
  BY PiecesSplit
<1>1. p \in Piece /\ p.from < p.to
  BY <1>p DEF NonEmpty
<1>2. PICK n \in Nat : n = Length(p) /\ PieceStops(p) = o + n
  BY <1>1, <1>p, PieceIn
<1>k. PICK k \in Nat : k = s.din[f].blocks
  BY CountIn
<1>b. PICK b : b = Begin(s)
  OBVIOUS
<1>3. Reads(s, b, f, o, 0)
  <2>1. b \in Call /\ b.s = s /\ b.ok /\ ~b.bad /\ Len(b.bytes) = 0
    BY <1>b, BeginFacts DEF Core
  <2>2. QED BY <2>1 DEF Reads
<1>m. PICK m : m = Move(b, f, p, FALSE, x)
  OBVIOUS
<1>4. ASSUME PieceStops(p) <= e PROVE Reads(s, m, f, o, n)
  <2>0. k * BlockSize \in Nat
    BY Constants
  <2>1. PieceStops(p) <= k * BlockSize
    BY <1>2, <1>4, <1>k, <2>0
  <2>2. p.index < k
    BY <1>p, <2>1, PieceMapped
  <2>3. o + 0 = PieceBegins(p) /\ 0 + n = n
    BY <1>p
  <2>4. Reads(s, Move(b, f, p, FALSE, x), f, o, 0 + Length(p))
    BY <1>3, <1>k, <1>p, <2>2, <2>3, MoveReads
  <2>5. QED BY <1>2, <1>m, <2>3, <2>4
<1>5. CASE Pieces(o, e) = <<p>> /\ PieceStops(p) = e
  <2>1. Moved(s, f, Pieces(o, e), FALSE, x) = m
    BY <1>5, <1>b, <1>m, MovedOne
  <2>2. e - o = n /\ PieceStops(p) <= e
    BY <1>2, <1>5
  <2>3. QED BY <1>4, <2>1, <2>2
<1>6. ASSUME NEW q, NonEmpty(q), PieceBegins(q) = PieceStops(p), PieceStops(q) = e, Pieces(o, e) = <<p, q>>
      PROVE  Reads(s, Moved(s, f, Pieces(o, e), FALSE, x), f, o, e - o)
  <2>1. q \in Piece /\ q.from < q.to
    BY <1>6 DEF NonEmpty
  <2>2. PICK j \in Nat : j = Length(q) /\ e = o + n + j
    BY <1>2, <1>6, <2>1, PieceIn
  <2>3. Moved(s, f, Pieces(o, e), FALSE, x) = Move(m, f, q, FALSE, x)
    <3>1. Moved(s, f, <<p, q>>, FALSE, x) = Move(Move(Begin(s), f, p, FALSE, x), f, q, FALSE, x)
      BY MovedTwo
    <3>2. QED BY <1>6, <1>b, <1>m, <3>1, Zenon
  <2>4. Reads(s, m, f, o, n)
    BY <1>2, <1>4, <2>2
  <2>5. q.index < k
    BY <1>6, <1>k, PieceMapped
  <2>6. PieceBegins(q) = o + n
    BY <1>2, <1>6
  <2>7. Reads(s, Move(m, f, q, FALSE, x), f, o, n + Length(q))
    BY <1>6, <1>k, <2>4, <2>5, <2>6, MoveReads
  <2>8. n + Length(q) = e - o
    BY <2>2
  <2>9. QED BY <2>3, <2>7, <2>8
<1>7. QED BY <1>5, <1>6, <1>p

------------------------------------------------------------------------------
(* sfs_io. *)

\* what a write of m bytes leaves: them, and the new size
Written(s, u, f, o, m, x) ==
  \E t : /\ Wrote(s, t, f, o, m, x)
         /\ IF o + m > s.din[f].size THEN Sets(t, u, f, o + m) ELSE u = t

\* sfs_io_nolock for a write: the bytes, and the size if they end behind it.
LEMMA IOWrites ==
  ASSUME NEW s, Core(s), NEW f \in File, NEW o \in Nat, NEW n \in 1..BlockSize, o + n <= MaxFile,
         NEW x \in Byte, NEW a, a = IO(s, f, o, n, TRUE, x), ~a.bad
  PROVE  a \in Call /\ Len(a.bytes) \in 0..n /\ Written(s, a.s, f, o, Len(a.bytes), x)
<1>e. PICK e : e = o + n
  OBVIOUS
<1>1. e \in Nat /\ o < e /\ e <= o + BlockSize /\ e <= MaxFile /\ e - o = n /\ n # 0 /\ n \in Nat
  BY <1>e, Constants
<1>m. PICK m : m = Moved(s, f, Pieces(o, e), TRUE, x)
  OBVIOUS
<1>2. a = IF m.bad THEN m ELSE Longer(m, f, o)
  BY <1>1, <1>e, <1>m DEF IO, Out
<1>3. ~m.bad /\ a = Longer(m, f, o)
  BY <1>2
<1>4. MovesBytes(s, m, f, o, n, TRUE, x)
  BY <1>1, <1>m, MovedDoes
<1>5. m \in Call /\ Len(m.bytes) \in 0..n /\ Wrote(s, m.s, f, o, Len(m.bytes), x)
  BY <1>3, <1>4 DEF MovesBytes, ByWrite
<1>6. Core(m.s) /\ m.s.din[f].size = s.din[f].size
  BY <1>5 DEF Wrote
<1>k. PICK k : k = Len(m.bytes)
  OBVIOUS
<1>7. k \in 0..n /\ o + k \in 0..MaxFile /\ m.s.din[f].size \in Nat
  BY <1>1, <1>5, <1>6, <1>e, <1>k, Constants, CountIn
<1>8. CASE o + k > m.s.din[f].size
  <2>1. a = Resized(m, f, o + k)
    BY <1>3, <1>8, <1>k DEF Longer, Resized
  <2>2. a \in Call /\ Sets(m.s, a.s, f, o + k) /\ a.bytes = m.bytes
    <3>1. PICK j \in 0..MaxFile : j = o + k
      BY <1>7
    <3>2. /\ Resized(m, f, j) \in Call /\ Sets(m.s, Resized(m, f, j).s, f, j)
          /\ Resized(m, f, j).bytes = m.bytes
      BY <1>5, <1>6, ResizedFacts
    <3>3. QED BY <2>1, <3>1, <3>2
  <2>3. Written(s, a.s, f, o, k, x)
    BY <1>5, <1>6, <1>8, <1>k, <2>2 DEF Written
  <2>4. QED BY <1>7, <1>k, <2>2, <2>3
<1>9. CASE ~(o + k > m.s.din[f].size)
  <2>1. a = m
    BY <1>3, <1>9, <1>k DEF Longer
  <2>2. Written(s, a.s, f, o, k, x)
    BY <1>5, <1>6, <1>9, <1>k, <2>1 DEF Written
  <2>3. QED BY <1>5, <1>k, <2>1, <2>2
<1>10. QED BY <1>8, <1>9

\* A read may at most map blocks.
LEMMA IOReadGrows ==
  ASSUME NEW s, Core(s), NEW f \in File, NEW o \in Nat, NEW n \in 1..BlockSize, o + n <= MaxFile,
         NEW x \in Byte, NEW a, a = IO(s, f, o, n, FALSE, x), ~a.bad
  PROVE  a \in Call /\ Grows(s, a.s, f) /\ Len(a.bytes) \in 0..n
<1>z. PICK z : z = s.din[f].size
  OBVIOUS
<1>0. z \in Nat /\ z <= MaxFile /\ n \in Nat /\ n # 0 /\ n <= BlockSize /\ BlockSize \in Nat /\ MaxFile \in Nat
  BY <1>z, CountIn, Constants
<1>e. PICK e : e = IF o + n > z THEN z ELSE o + n
  OBVIOUS
<1>1. CASE o >= z
  <2>1. a = Begin(s)
    BY <1>1, <1>z DEF IO
  <2>b. PICK b : b = Begin(s)
    OBVIOUS
  <2>2. b \in Call /\ b.s = s /\ Len(b.bytes) = 0
    BY <2>b, BeginFacts DEF Core
  <2>3. Grows(s, s, f) /\ 0 \in 0..n /\ a = b
    <3>1. Grows(s, s, f)
      BY GrowsNot
    <3>2. 0 \in 0..n
      BY <1>0
    <3>3. QED BY <2>1, <2>b, <3>1, <3>2
  <2>4. QED BY <2>2, <2>3
<1>2. CASE ~(o >= z)
  <2>1. e \in Nat /\ o < e /\ e <= o + BlockSize /\ e <= MaxFile /\ e - o \in 0..n /\ e <= z
    BY <1>0, <1>2, <1>e
  <2>m. PICK m : m = Moved(s, f, Pieces(o, e), FALSE, x)
    OBVIOUS
  <2>2. a = IF m.bad THEN m ELSE Longer(m, f, o)
    BY <1>0, <1>2, <1>e, <1>z, <2>m DEF IO, Out
  <2>3. ~m.bad /\ a = Longer(m, f, o)
    BY <2>2
  <2>4. MovesBytes(s, m, f, o, e - o, FALSE, x)
    BY <2>1, <2>m, MovedDoes
  <2>5. m \in Call /\ Len(m.bytes) \in 0..e - o /\ Wrote(s, m.s, f, o, 0, x)
    BY <2>3, <2>4 DEF MovesBytes, ByWrite
  <2>6. Grows(s, m.s, f) /\ m.s.din[f].size = z
    BY <1>z, <2>5, WroteNothing DEF Grows
  <2>7. ~(o + Len(m.bytes) > m.s.din[f].size) /\ Len(m.bytes) \in 0..n
    BY <1>0, <2>1, <2>5, <2>6
  <2>8. a = m
    BY <2>3, <2>7 DEF Longer
  <2>9. QED BY <2>5, <2>6, <2>7, <2>8
<1>3. QED BY <1>1, <1>2

\* how much a read returns
Readable(size, o, n) == IF o >= size THEN 0 ELSE IF o + n > size THEN size - o ELSE n

\* A read of a file that has its blocks.
LEMMA IOReads ==
  ASSUME NEW s, Core(s), NEW f \in File, Enough(s.din[f]), NEW o \in Nat, NEW n \in 1..BlockSize,
         NEW x, NEW a, a = IO(s, f, o, n, FALSE, x)
  PROVE  Reads(s, a, f, o, Readable(s.din[f].size, o, n))
<1>z. PICK z : z = s.din[f].size
  OBVIOUS
<1>0. z \in Nat /\ z <= MaxFile /\ n \in Nat /\ n # 0 /\ n <= BlockSize /\ BlockSize \in Nat /\ MaxFile \in Nat
  BY <1>z, CountIn, Constants
<1>k. PICK k \in Nat : k = s.din[f].blocks /\ z <= k * BlockSize /\ k * BlockSize \in Nat
  BY <1>z, CountIn, Constants DEF Enough
<1>e. PICK e : e = IF o + n > z THEN z ELSE o + n
  OBVIOUS
<1>1. CASE o >= z
  <2>1. a = Begin(s)
    BY <1>1, <1>z DEF IO
  <2>b. PICK b : b = Begin(s)
    OBVIOUS
  <2>2. b \in Call /\ b.s = s /\ b.ok /\ ~b.bad /\ Len(b.bytes) = 0
    BY <2>b, BeginFacts DEF Core
  <2>3. Readable(s.din[f].size, o, n) = 0
    BY <1>1, <1>z DEF Readable
  <2>4. Reads(s, b, f, o, 0)
    BY <2>2 DEF Reads
  <2>5. a = b
    BY <2>1, <2>b
  <2>6. QED BY <2>3, <2>4, <2>5
<1>2. CASE ~(o >= z)
  <2>1. e \in Nat /\ o < e /\ e <= o + BlockSize /\ e <= MaxFile /\ e <= z /\ e <= k * BlockSize
    BY <1>0, <1>2, <1>e, <1>k
  <2>m. PICK m : m = Moved(s, f, Pieces(o, e), FALSE, x)
    OBVIOUS
  <2>2. a = IF m.bad THEN m ELSE Longer(m, f, o)
    BY <1>0, <1>2, <1>e, <1>z, <2>m DEF IO, Out
  <2>3. Reads(s, m, f, o, e - o)
    BY <1>k, <2>1, <2>m, MovedReads
  <2>4. ~m.bad /\ m.s.din[f].size = z /\ Len(m.bytes) = e - o
    BY <1>z, <2>3 DEF Reads
  <2>5. ~(o + Len(m.bytes) > m.s.din[f].size)
    BY <1>0, <2>1, <2>4
  <2>6. a = m
    BY <2>2, <2>4, <2>5 DEF Longer
  <2>7. Readable(s.din[f].size, o, n) = e - o
    BY <1>0, <1>2, <1>e, <1>z DEF Readable
  <2>8. QED BY <2>3, <2>6, <2>7
<1>3. QED BY <1>1, <1>2

------------------------------------------------------------------------------
(* What every call keeps. *)

\* What holds of every file system, whoever truncates what.
Sound(s) == Core(s) /\ \A f \in File : Clean(s, f)

\* what every call on f leaves as it was
Keeps(s, t, f) ==
  /\ Core(t) /\ Others(s, t, f)
  /\ ~t.dirty[f] => /\ ~s.dirty[f] /\ t.din[f].size = s.din[f].size
                    /\ t.din[f].direct = s.din[f].direct /\ t.din[f].indirect = s.din[f].indirect
                    /\ s.din[f].blocks <= t.din[f].blocks

\* A call on one file leaves the file system sound.
LEMMA KeepsSound ==
  ASSUME NEW s, NEW t, NEW f \in File, Sound(s), Keeps(s, t, f)
  PROVE  Sound(t)
<1>1. Core(s) /\ Core(t) /\ t.ondisk = s.ondisk
  BY DEF Sound, Keeps, Others
<1>2. ASSUME NEW g \in File, g # f PROVE Clean(t, g)
  <2>1. t.din[g] = s.din[g] /\ t.dirty[g] = s.dirty[g] /\ Clean(s, g)
    BY <1>2 DEF Sound, Keeps, Others
  <2>2. QED BY <1>1, <2>1 DEF Clean
<1>3. Clean(t, f)
  <2> SUFFICES ASSUME ~t.dirty[f]
               PROVE  /\ s.ondisk[f].size = t.din[f].size
                      /\ s.ondisk[f].direct = t.din[f].direct
                      /\ s.ondisk[f].indirect = t.din[f].indirect
                      /\ s.ondisk[f].blocks <= t.din[f].blocks
    BY <1>1 DEF Clean
  <2>1. /\ t.din[f].size = s.din[f].size /\ t.din[f].direct = s.din[f].direct
        /\ t.din[f].indirect = s.din[f].indirect /\ s.din[f].blocks <= t.din[f].blocks
    BY DEF Keeps
  <2>2. /\ s.ondisk[f].size = s.din[f].size /\ s.ondisk[f].direct = s.din[f].direct
        /\ s.ondisk[f].indirect = s.din[f].indirect /\ s.ondisk[f].blocks <= s.din[f].blocks
    BY DEF Keeps, Sound, Clean
  <2>3. s.ondisk[f].blocks \in Nat
    <3>1. s.ondisk[f] \in DiskInode
      BY <1>1, StoreFacts DEF Core
    <3>2. QED BY <3>1, InodeFacts, Constants
  <2>4. s.din[f].blocks \in Nat /\ t.din[f].blocks \in Nat
    BY <1>1, CountIn
  <2>5. QED BY <2>1, <2>2, <2>3, <2>4
<1>4. QED BY <1>1, <1>2, <1>3 DEF Sound

\* So does one that appends blocks,
LEMMA GrowsKeeps ==
  ASSUME NEW s, NEW t, NEW f \in File, Grows(s, t, f)
  PROVE  Keeps(s, t, f)
BY DEF Grows, Keeps, Noted

\* a new size makes the inode dirty
LEMMA SetsKeeps ==
  ASSUME NEW s, NEW t, NEW u, NEW f \in File, NEW n, Others(s, t, f), Sets(t, u, f, n)
  PROVE  Keeps(s, u, f)
<1>1. Core(u) /\ Others(t, u, f) /\ u.dirty[f]
  BY DEF Sets
<1>2. Others(s, u, f)
  BY <1>1 DEF Others
<1>3. QED BY <1>1, <1>2 DEF Keeps

\* one that writes
LEMMA WrittenKeeps ==
  ASSUME NEW s, NEW u, NEW f \in File, NEW o, NEW m, NEW x, Written(s, u, f, o, m, x)
  PROVE  Keeps(s, u, f)
<1>1. PICK t : /\ Wrote(s, t, f, o, m, x)
               /\ IF o + m > s.din[f].size THEN Sets(t, u, f, o + m) ELSE u = t
  BY DEF Written
<1>2. Keeps(s, t, f) /\ Others(s, t, f)
  BY <1>1 DEF Wrote, Keeps, Noted
<1>3. QED BY <1>1, <1>2, SetsKeeps

\* and sfs_truncfile, whatever the size.
LEMMA TruncateKeeps ==
  ASSUME NEW s, Core(s), NEW f \in File, NEW n \in 0..MaxFile, NEW a, a = Truncate(s, f, n), ~a.bad
  PROVE  a \in Call /\ Keeps(s, a.s, f)
<1>m. PICK m \in 0..NDirect+NEntries : m = s.din[f].blocks
  BY CountIn
<1>t. PICK to \in 0..NDirect+NEntries : to = BlocksFor(n)
  BY BlocksForFacts
<1>1. to \in Nat /\ m \in Nat /\ s \in Store
  BY Constants DEF Core
<1>2. CASE s.din[f].size = n
  <2>b. PICK b : b = Begin(s)
    OBVIOUS
  <2>1. a = [b EXCEPT !.bad = (to # m)]
    BY <1>2, <1>m, <1>t, <2>b DEF Truncate
  <2>2. b \in Call /\ b.s = s
    BY <1>1, <2>b, BeginFacts
  <2>3. a.s = s /\ a \in Call
    BY <2>1, <2>2 DEF Call
  <2>4. Grows(s, s, f)
    BY GrowsNot
  <2>5. QED BY <2>3, <2>4, GrowsKeeps
<1>3. ASSUME NEW x \in Call, Core(x.s), Others(s, x.s, f), a = Resized(x, f, n)
      PROVE  a \in Call /\ Keeps(s, a.s, f)
  <2>1. a \in Call /\ Sets(x.s, a.s, f, n)
    BY <1>3, ResizedFacts
  <2>2. PICK u, v : u = x.s /\ v = a.s
    OBVIOUS
  <2>3. Keeps(s, v, f)
    BY <1>3, <2>1, <2>2, SetsKeeps
  <2>4. QED BY <2>1, <2>2, <2>3
<1>4. CASE s.din[f].size # n /\ to < m
  <2>k. PICK k \in Nat : k = m - to
    BY <1>1, <1>4
  <2>u. PICK u : u = Shrunk(s, f, k)
    OBVIOUS
  <2>1. Core(u) /\ Others(s, u, f) /\ u \in Store
    <3>1. k <= s.din[f].blocks
      BY <1>1, <1>4, <1>m, <2>k
    <3>2. Cuts(s, u, f, s.din[f].blocks - k)
      BY <2>u, <3>1, ShrunkCuts
    <3>3. QED BY <3>2 DEF Cuts, Core
  <2>2. a = Resized(Begin(u), f, n)
    BY <1>4, <1>m, <1>t, <2>k, <2>u DEF Truncate
  <2>x. PICK x : x = Begin(u)
    OBVIOUS
  <2>3. x \in Call /\ x.s = u /\ a = Resized(x, f, n)
    BY <2>1, <2>2, <2>x, BeginFacts
  <2>4. QED BY <1>3, <2>1, <2>3
<1>5. CASE s.din[f].size # n /\ ~(to < m)
  <2>k. PICK k \in Nat : k = to - m
    BY <1>1, <1>5
  <2>g. PICK x : x = Grown(s, f, k)
    OBVIOUS
  <2>1. x \in Call /\ Grows(s, x.s, f)
    <3>1. s.din[f].blocks + k <= NDirect + NEntries
      BY <1>1, <1>m, <1>t, <2>k, Constants
    <3>2. QED BY <2>g, <3>1, GrownGrows
  <2>2. a = IF x.ok THEN Resized(x, f, n) ELSE x
    BY <1>5, <1>m, <1>t, <2>k, <2>g DEF Truncate
  <2>3. Core(x.s) /\ Others(s, x.s, f)
    BY <2>1 DEF Grows
  <2>4. CASE x.ok
    BY <1>3, <2>1, <2>2, <2>3, <2>4
  <2>5. CASE ~x.ok
    BY <2>1, <2>2, <2>5, GrowsKeeps
  <2>6. QED BY <2>4, <2>5
<1>6. QED BY <1>2, <1>4, <1>5

------------------------------------------------------------------------------
(* The inode on the disk. *)

\* e is on the disk what d is in memory, but for a block it does not count yet
Behind(e, d) ==
  e.size = d.size /\ e.direct = d.direct /\ e.indirect = d.indirect /\ e.blocks <= d.blocks

\* t is s with the inode of f in memory and on the disk taken from those of s
Stores(s, t, f) ==
  /\ t \in Store /\ t.block = s.block /\ t.free = s.free /\ t.unused = s.unused
  /\ \A g \in File : g # f => /\ t.din[g] = s.din[g] /\ t.ondisk[g] = s.ondisk[g]
                              /\ t.dirty[g] = s.dirty[g]
  /\ t.din[f] \in {s.din[f], s.ondisk[f]} /\ t.ondisk[f] \in {s.din[f], s.ondisk[f]}
  /\ Behind(t.din[f], s.din[f]) /\ Behind(t.ondisk[f], t.din[f])

\* An inode is not behind itself.
LEMMA BehindItself ==
  ASSUME NEW d \in DiskInode
  PROVE  Behind(d, d)
<1>1. d.blocks \in Nat
  BY InodeFacts, Constants
<1>2. QED BY <1>1 DEF Behind

\* Writing the inode to the disk, or reading it again, leaves the file system sound and
\* the files what they hold.
LEMMA StoresSound ==
  ASSUME NEW s, Sound(s), NEW f \in File, NEW t, Stores(s, t, f)
  PROVE  /\ Sound(t)
         /\ \A g \in File : t.din[g].size = s.din[g].size /\ \A q \in Offset : At(t, g, q) = At(s, g, q)
<1>0. Core(s) /\ s \in Store /\ t \in Store /\ t.block = s.block
  BY DEF Sound, Core, Stores
<1>1. ASSUME NEW g \in File
      PROVE  /\ t.din[g].size = s.din[g].size /\ t.din[g].indirect = s.din[g].indirect
             /\ t.din[g].direct = s.din[g].direct /\ t.din[g].blocks <= s.din[g].blocks
             /\ t.din[g].blocks \in Nat /\ s.din[g].blocks \in Nat
  <2>1. t.din[g] \in DiskInode /\ s.din[g] \in DiskInode
    BY <1>0, StoreFacts
  <2>2. t.din[g].blocks \in Nat /\ s.din[g].blocks \in Nat
    BY <2>1, InodeFacts, Constants
  <2>3. g # f => t.din[g] = s.din[g]
    BY DEF Stores
  <2>4. g = f => Behind(t.din[g], s.din[g])
    BY DEF Stores
  <2>5. QED BY <2>2, <2>3, <2>4 DEF Behind
<1>2. \A g \in File : \A k \in Index : Mapped(t, t.din[g], k) = Mapped(s, s.din[g], k)
  BY <1>0, <1>1 DEF Mapped
<1>3. Layout(t) = Layout(s)
  <2>1. Maps(s, t, f, -1, s.din[f].indirect)
    <3>1. \A k \in Index : k # -1
      BY Constants DEF Index
    <3>2. QED BY <1>1, <1>2, <3>1 DEF Maps
  <2>2. -1 \in -1..NDirect+NEntries-1
    BY Constants
  <2>3. Layout(t) = [Layout(s) EXCEPT ![<<f, -1>>] = s.din[f].indirect]
    BY <1>0, <2>1, <2>2, LayoutIs
  <2>4. Layout(s)[<<f, -1>>] = s.din[f].indirect
    BY SpotIs
  <2>5. Layout(s) \in [Spot -> 0..NBlocks]
    BY <1>0, SpotIn
  <2>6. QED BY <2>3, <2>4, <2>5
<1>4. Covered(t)
  <2> SUFFICES ASSUME NEW g \in File, NEW k \in Index, k < t.din[g].blocks
               PROVE  Mapped(t, t.din[g], k) # NoBlock
    BY DEF Covered
  <2>1. k < s.din[g].blocks
    BY <1>1, Constants DEF Index
  <2>2. QED BY <1>0, <1>2, <2>1 DEF Core, Covered
<1>5. Core(t)
  BY <1>0, <1>3, <1>4 DEF Core, Stores
<1>6. ASSUME NEW g \in File PROVE Clean(t, g)
  <2>1. CASE g = f
    BY <2>1 DEF Stores, Behind, Clean
  <2>2. CASE g # f
    <3>1. t.din[g] = s.din[g] /\ t.ondisk[g] = s.ondisk[g] /\ t.dirty[g] = s.dirty[g] /\ Clean(s, g)
      BY <2>2 DEF Stores, Sound
    <3>2. QED BY <3>1 DEF Clean
  <2>3. QED BY <2>1, <2>2
<1>7. ASSUME NEW g \in File, NEW q \in Offset PROVE At(t, g, q) = At(s, g, q)
  BY <1>0, <1>2, AtSame
<1>8. QED BY <1>1, <1>5, <1>6, <1>7 DEF Sound

\* It leaves whole what was whole.
LEMMA StoresFine ==
  ASSUME NEW s, Fine(s), NEW f \in File, NEW t, Stores(s, t, f)
  PROVE  Fine(t)
<1>1. Sound(s) /\ \A g \in File : Whole(s, g)
  BY DEF Fine, Sound, Whole
<1>2. /\ Sound(t)
      /\ \A g \in File : t.din[g].size = s.din[g].size /\ \A q \in Offset : At(t, g, q) = At(s, g, q)
  BY <1>1, StoresSound
<1>3. ASSUME NEW g \in File PROVE Whole(t, g)
  <2>1. Clean(t, g) /\ Blank(t, g)
    BY <1>1, <1>2 DEF Sound, Whole, Blank
  <2>2. Enough(s.din[g]) /\ Enough(s.ondisk[g])
    BY <1>1 DEF Whole
  <2>3. Enough(t.din[g]) /\ Enough(t.ondisk[g])
    <3>1. g # f => t.din[g] = s.din[g] /\ t.ondisk[g] = s.ondisk[g]
      BY DEF Stores
    <3>2. t.din[f] \in {s.din[f], s.ondisk[f]} /\ t.ondisk[f] \in {s.din[f], s.ondisk[f]}
      BY DEF Stores
    <3>3. QED BY <2>2, <3>1, <3>2
  <2>4. QED BY <2>1, <2>3 DEF Whole
<1>4. QED BY <1>2, <1>3 DEF Fine, Sound

\* sfs_fsync and sfs_reclaim only move inodes.
LEMMA SyncedStores ==
  ASSUME NEW s, Sound(s), NEW f \in File
  PROVE  /\ Stores(s, Synced(s, f), f) /\ ~Synced(s, f).dirty[f] /\ Synced(s, f).din = s.din
         /\ Stores(s, Reclaimed(s, f), f)
<1>0. s \in Store /\ s.din[f] \in DiskInode /\ s.ondisk[f] \in DiskInode /\ Clean(s, f)
  BY StoreFacts DEF Sound, Core
<1>t. PICK t : t = Synced(s, f)
  OBVIOUS
<1>1. /\ t \in Store /\ t.block = s.block /\ t.free = s.free /\ t.unused = s.unused /\ t.din = s.din
      /\ ~t.dirty[f]
      /\ \A g \in File : g # f => t.ondisk[g] = s.ondisk[g] /\ t.dirty[g] = s.dirty[g]
      /\ t.ondisk[f] = IF s.dirty[f] THEN s.din[f] ELSE s.ondisk[f]
  <2>1. CASE s.dirty[f]
    <3>1. t = [s EXCEPT !.dirty = [s.dirty EXCEPT ![f] = FALSE], !.ondisk = [s.ondisk EXCEPT ![f] = s.din[f]]]
      BY <1>t, <2>1 DEF Synced
    <3>2. QED BY <1>0, <2>1, <3>1 DEF Store
  <2>2. CASE ~s.dirty[f]
    BY <1>0, <1>t, <2>2 DEF Synced
  <2>3. QED BY <2>1, <2>2
<1>2. Behind(s.din[f], s.din[f]) /\ Behind(s.ondisk[f], s.ondisk[f])
  BY <1>0, BehindItself
<1>3. Behind(t.ondisk[f], s.din[f])
  BY <1>0, <1>1, <1>2 DEF Clean, Behind
<1>4. Stores(s, t, f)
  BY <1>1, <1>2, <1>3 DEF Stores
<1>u. PICK u : u = Reclaimed(s, f)
  OBVIOUS
<1>5. u = [t EXCEPT !.din = [t.din EXCEPT ![f] = t.ondisk[f]]]
  BY <1>t, <1>u DEF Reclaimed
<1>6. /\ u \in Store /\ u.block = s.block /\ u.free = s.free /\ u.unused = s.unused
      /\ u.ondisk = t.ondisk /\ u.dirty = t.dirty /\ u.din[f] = t.ondisk[f]
      /\ \A g \in File : g # f => u.din[g] = s.din[g]
  <2>1. t.ondisk[f] \in DiskInode
    BY <1>1, StoreFacts
  <2>2. QED BY <1>1, <1>5, <2>1 DEF Store
<1>7. Behind(u.ondisk[f], u.din[f])
  BY <1>1, <1>2, <1>6
<1>8. Stores(s, u, f)
  BY <1>1, <1>3, <1>6, <1>7 DEF Stores
<1>9. QED BY <1>1, <1>4, <1>8, <1>t, <1>u

------------------------------------------------------------------------------
(* Blocks. *)

\* an open descriptor
Record == [file : File, pos : 0..MaxFile]
HandleIn == handle \in [Handle -> {CLOSED} \cup Record]
SoundInv == Sound(fs) /\ HandleIn

\* The disk as it is made: every block is free, every file is empty.
LEMMA InitFine ==
  ASSUME Init
  PROVE  Fine(fs) /\ HandleIn
<1>d. PICK d : d = NoInode
  OBVIOUS
<1>1. d \in DiskInode /\ d.size = 0 /\ d.blocks = 0 /\ d.indirect = NoBlock
      /\ \A i \in 0..NDirect-1 : d.direct[i] = NoBlock
  BY <1>d, Constants DEF NoInode, DiskInode, NoBlock
<1>2. /\ fs.free = Block /\ fs.unused = NBlocks /\ fs.block = [b \in Block |-> Cleared]
      /\ fs.din = [f \in File |-> d] /\ fs.dirty = [f \in File |-> FALSE]
      /\ fs.ondisk = [f \in File |-> d]
  BY <1>d DEF Init
<1>3. fs \in Store
  <2>1. fs.block \in [Block -> DiskBlock]
    BY <1>2, ClearedFacts
  <2>2. NBlocks \in Nat
    BY Constants
  <2>3. fs = [free |-> fs.free, unused |-> fs.unused, block |-> fs.block, din |-> fs.din,
              dirty |-> fs.dirty, ondisk |-> fs.ondisk]
    BY DEF Init
  <2>4. QED BY <1>1, <1>2, <2>1, <2>2, <2>3 DEF Store
<1>4. ASSUME NEW f \in File, NEW i \in Index PROVE Mapped(fs, fs.din[f], i) = NoBlock
  <2>1. fs.din[f] = d
    BY <1>2
  <2>2. i \in Int /\ NDirect \in Int /\ (i < NDirect => i \in 0..NDirect-1)
    BY Constants DEF Index
  <2>3. QED BY <1>1, <2>1, <2>2 DEF Mapped
<1>5. \A x \in Spot : Layout(fs)[x] = NoBlock
  <2> SUFFICES ASSUME NEW x \in Spot PROVE InSpot(fs, x) = NoBlock
    BY DEF Layout
  <2>1. x[1] \in File /\ (x[2] # -1 => x[2] \in Index)
    BY Constants DEF Spot, Index
  <2>2. fs.din[x[1]].indirect = NoBlock
    BY <1>1, <1>2, <2>1
  <2>3. QED BY <1>4, <2>1, <2>2 DEF InSpot
<1>6. Owned(Layout(fs), fs.free, fs.unused)
  <2>1. NoBlock \notin Block
    BY DEF NoBlock, Block
  <2>2. NBlocks = Cardinality(Block)
    <3>1. 1 \in Int /\ NBlocks \in Int /\ NBlocks > 0 
      BY Constants
    <3>2. Cardinality(1..NBlocks) = IF 1 > NBlocks THEN 0 ELSE NBlocks - 1 + 1
      BY <3>1, FS_Interval
    <3>3. QED BY <3>1, <3>2 DEF Block
  <2>3. QED BY <1>2, <1>5, <2>1, <2>2 DEF Owned
<1>7. Core(fs)
  <2>1. Covered(fs)
    <3>1. \A f \in File, i \in Index : ~(i < fs.din[f].blocks)
      BY <1>1, <1>2, Constants DEF Index
    <3>2. QED BY <3>1 DEF Covered
  <2>2. QED BY <1>3, <1>6, <2>1 DEF Core
<1>8. ASSUME NEW f \in File PROVE Whole(fs, f)
  <2>1. fs.din[f] = d /\ fs.ondisk[f] = d
    BY <1>2
  <2>2. Enough(d)
    BY <1>1, Constants DEF Enough
  <2>3. Clean(fs, f)
    BY <1>1, <2>1 DEF Clean
  <2>4. ASSUME NEW q \in Offset PROVE At(fs, f, q) = Zero
    <3>1. q \div BlockSize \in Index
      BY OffsetIn
    <3>2. QED BY <1>4, <3>1 DEF At
  <2>5. QED BY <2>1, <2>2, <2>3, <2>4 DEF Whole, Blank
<1>9. HandleIn
  BY DEF Init, HandleIn
<1>10. QED BY <1>7, <1>8, <1>9 DEF Fine

\* What is fine is sound.
LEMMA FineSound ==
  ASSUME NEW s, Fine(s)
  PROVE  Sound(s)
BY DEF Fine, Sound, Whole

\* An open descriptor.
LEMMA HandleFacts ==
  ASSUME HandleIn, NEW h \in Handle, handle[h] # CLOSED
  PROVE  handle[h] \in Record /\ handle[h].file \in File /\ handle[h].pos \in 0..MaxFile
         /\ handle[h].pos \in Nat
<1>1. handle[h] \in Record
  BY DEF HandleIn
<1>2. handle[h].file \in File /\ handle[h].pos \in 0..MaxFile
  BY <1>1 DEF Record
<1>3. QED BY <1>1, <1>2, Constants

\* Each operation leaves the file system sound: open,
LEMMA OpenSound ==
  ASSUME SoundInv, NEW h \in Handle, NEW f \in File, NEW append \in BOOLEAN, Open(h, f, append)
  PROVE  SoundInv'
<1>1. fs' = fs
  BY DEF Open
<1>2. (IF append THEN AppendAt(f) ELSE 0) \in 0..MaxFile
  <2>1. fs.din[f].size \in 0..MaxFile
    BY CountIn DEF SoundInv, Sound
  <2>2. 0 \in 0..MaxFile
    BY Constants
  <2>3. QED BY <2>1, <2>2 DEF AppendAt
<1>3. PICK p \in 0..MaxFile : handle' = [handle EXCEPT ![h] = [file |-> f, pos |-> p]]
  BY <1>2 DEF Open
<1>4. [file |-> f, pos |-> p] \in Record
  BY DEF Record
<1>5. HandleIn'
  BY <1>3, <1>4 DEF SoundInv, HandleIn
<1>6. QED BY <1>1, <1>5 DEF SoundInv

\* open that truncates,
LEMMA OpenTruncatesSound ==
  ASSUME SoundInv, NEW h \in Handle, NEW f \in File, OpenTruncates(h, f)
  PROVE  SoundInv'
<1>a. PICK a : a = Truncate(fs, f, 0)
  OBVIOUS
<1>1. CASE a.bad
  BY <1>1, <1>a DEF OpenTruncates, Ends, SoundInv, HandleIn
<1>2. CASE ~a.bad
  <2>1. 0 \in 0..MaxFile
    BY Constants
  <2>2. Keeps(fs, a.s, f)
    BY <1>2, <1>a, <2>1, TruncateKeeps DEF SoundInv, Sound
  <2>3. fs' = a.s /\ handle' = [handle EXCEPT ![h] = [file |-> f, pos |-> 0]]
    BY <1>2, <1>a DEF OpenTruncates
  <2>4. Sound(fs')
    <3>1. PICK t : t = a.s
      OBVIOUS
    <3>2. Sound(t)
      BY <2>2, <3>1, KeepsSound DEF SoundInv
    <3>3. QED BY <2>3, <3>1, <3>2
  <2>5. [file |-> f, pos |-> 0] \in Record
    BY <2>1 DEF Record
  <2>6. HandleIn'
    BY <2>3, <2>5 DEF SoundInv, HandleIn
  <2>7. QED BY <2>4, <2>6 DEF SoundInv
<1>3. QED BY <1>1, <1>2

\* close, with the inode given back by the last one,
LEMMA CloseSound ==
  ASSUME SoundInv, NEW h \in Handle, Close(h)
  PROVE  SoundInv'
<1>f. PICK f : f = handle[h].file
  OBVIOUS
<1>1. f \in File
  BY <1>f, HandleFacts DEF Close, SoundInv
<1>2. Sound(Reclaimed(fs, f))
  BY <1>1, SyncedStores, StoresSound DEF SoundInv
<1>3. fs' = Reclaimed(fs, f) \/ fs' = fs
  BY <1>f DEF Close
<1>4. Sound(fs')
  BY <1>2, <1>3 DEF SoundInv
<1>5. HandleIn'
  BY DEF Close, SoundInv, HandleIn
<1>6. QED BY <1>4, <1>5 DEF SoundInv

\* fsync,
LEMMA FsyncSound ==
  ASSUME SoundInv, NEW h \in Handle, Fsync(h)
  PROVE  SoundInv'
<1>f. PICK f : f = handle[h].file
  OBVIOUS
<1>1. f \in File
  BY <1>f, HandleFacts DEF Fsync, SoundInv
<1>2. Sound(Synced(fs, f))
  BY <1>1, SyncedStores, StoresSound DEF SoundInv
<1>3. Sound(fs')
  BY <1>2, <1>f DEF Fsync
<1>4. HandleIn'
  BY DEF Fsync, SoundInv, HandleIn
<1>5. QED BY <1>3, <1>4 DEF SoundInv

\* read and write
LEMMA TransferSound ==
  ASSUME SoundInv, NEW h \in Handle, NEW n \in 1..BlockSize, NEW write \in BOOLEAN, NEW x \in Byte,
         Transfer(h, n, write, x)
  PROVE  SoundInv'
<1>f. PICK f, o : f = handle[h].file /\ o = handle[h].pos
  OBVIOUS
<1>1. f \in File /\ o \in Nat /\ o + n <= MaxFile /\ handle[h] \in Record /\ o \in 0..MaxFile
  BY <1>f, HandleFacts DEF Transfer, SoundInv
<1>a. PICK a : a = IO(fs, f, o, n, write, x)
  OBVIOUS
<1>2. CASE a.bad
  BY <1>2, <1>a, <1>f DEF Transfer, Ends, SoundInv, HandleIn
<1>3. CASE ~a.bad
  <2>1. Core(fs)
    BY DEF SoundInv, Sound
  <2>s. PICK t : t = a.s
    OBVIOUS
  <2>2. Len(a.bytes) \in 0..n /\ Keeps(fs, t, f)
    <3>1. CASE write
      <4>1. a = IO(fs, f, o, n, TRUE, x)
        BY <1>a, <3>1
      <4>2. Len(a.bytes) \in 0..n /\ Written(fs, a.s, f, o, Len(a.bytes), x)
        BY <1>1, <1>3, <2>1, <4>1, IOWrites
      <4>3. PICK m : m = Len(a.bytes)
        OBVIOUS
      <4>4. Keeps(fs, t, f)
        BY <1>1, <2>s, <4>2, <4>3, WrittenKeeps
      <4>5. QED BY <4>2, <4>4
    <3>2. CASE ~write
      <4>1. a = IO(fs, f, o, n, FALSE, x)
        BY <1>a, <3>2
      <4>2. Len(a.bytes) \in 0..n /\ Grows(fs, a.s, f)
        BY <1>1, <1>3, <2>1, <4>1, IOReadGrows
      <4>3. QED BY <1>1, <2>s, <4>2, GrowsKeeps
    <3>3. QED BY <3>1, <3>2
  <2>3. fs' = t /\ handle' = [handle EXCEPT ![h].pos = @ + Len(a.bytes)]
    BY <1>3, <1>a, <1>f, <2>s DEF Transfer
  <2>4. Sound(fs')
    BY <1>1, <2>2, <2>3, KeepsSound DEF SoundInv
  <2>5. o + Len(a.bytes) \in 0..MaxFile
    BY <1>1, <2>2, Constants
  <2>6. HandleIn'
    <3>r. PICK r : r = [handle[h] EXCEPT !.pos = o + Len(a.bytes)]
      OBVIOUS
    <3>1. r \in Record
      BY <1>1, <2>5, <3>r DEF Record
    <3>2. handle' = [handle EXCEPT ![h] = r]
      BY <1>f, <2>3, <3>r
    <3>3. QED BY <3>1, <3>2 DEF SoundInv, HandleIn
  <2>7. QED BY <2>4, <2>6 DEF SoundInv
<1>4. QED BY <1>2, <1>3

\* and seek, which may enlarge the file.
LEMMA SeekSound ==
  ASSUME SoundInv, NEW h \in Handle, NEW p \in SeekTo, Seek(h, p)
  PROVE  SoundInv'
<1>f. PICK f : f = handle[h].file
  OBVIOUS
<1>1. f \in File /\ handle[h] \in Record /\ p \in 0..MaxFile
  BY <1>f, HandleFacts, Constants DEF Seek, SoundInv
<1>a. PICK a : a = IF p > fs.din[f].size THEN Truncate(fs, f, p) ELSE Begin(fs)
  OBVIOUS
<1>2. CASE a.bad
  BY <1>2, <1>a, <1>f DEF Seek, Ends, SoundInv, HandleIn
<1>3. CASE ~a.bad
  <2>1. Core(fs) /\ fs \in Store
    BY DEF SoundInv, Sound, Core
  <2>s. PICK t : t = a.s
    OBVIOUS
  <2>2. Keeps(fs, t, f)
    <3>1. CASE p > fs.din[f].size
      <4>1. a = Truncate(fs, f, p)
        BY <1>a, <3>1
      <4>2. QED BY <1>1, <1>3, <2>1, <2>s, <4>1, TruncateKeeps
    <3>2. CASE ~(p > fs.din[f].size)
      <4>1. a = Begin(fs)
        BY <1>a, <3>2
      <4>2. t = fs
        BY <2>1, <2>s, <4>1, BeginFacts
      <4>3. Grows(fs, fs, f)
        BY <1>1, <2>1, GrowsNot
      <4>4. QED BY <1>1, <4>2, <4>3, GrowsKeeps
    <3>3. QED BY <3>1, <3>2
  <2>3. fs' = t /\ (handle' = [handle EXCEPT ![h].pos = p] \/ handle' = handle)
    BY <1>3, <1>a, <1>f, <2>s DEF Seek
  <2>4. Sound(fs')
    BY <1>1, <2>2, <2>3, KeepsSound DEF SoundInv
  <2>5. HandleIn'
    <3>r. PICK r : r = [handle[h] EXCEPT !.pos = p]
      OBVIOUS
    <3>1. r \in Record
      BY <1>1, <3>r DEF Record
    <3>2. handle' = [handle EXCEPT ![h] = r] \/ handle' = handle
      BY <2>3, <3>r
    <3>3. QED BY <3>1, <3>2 DEF SoundInv, HandleIn
  <2>6. QED BY <2>4, <2>5 DEF SoundInv
<1>4. QED BY <1>2, <1>3

\* SoundInv is inductive.
LEMMA SoundStep ==
  ASSUME SoundInv, [Next]_vars
  PROVE  SoundInv'
<1>1. CASE UNCHANGED vars
  BY <1>1 DEF vars, SoundInv, HandleIn
<1>2. CASE Next
  <2>1. PICK h \in Handle :
          \/ \E f \in File : OpenTruncates(h, f) \/ \E append \in BOOLEAN : Open(h, f, append)
          \/ Close(h) \/ Fsync(h)
          \/ \E n \in 1..BlockSize : Read(h, n) \/ \E x \in Byte \ {Zero} : Write(h, n, x)
          \/ \E p \in SeekTo : Seek(h, p)
    BY <1>2 DEF Next
  <2>2. ASSUME NEW n \in 1..BlockSize, Read(h, n) PROVE SoundInv'
    <3>1. Transfer(h, n, FALSE, Zero) /\ Zero \in Byte /\ FALSE \in BOOLEAN
      BY <2>2, Constants DEF Read
    <3>2. QED BY <3>1, TransferSound
  <2>3. ASSUME NEW n \in 1..BlockSize, NEW x \in Byte \ {Zero}, Write(h, n, x) PROVE SoundInv'
    <3>1. Transfer(h, n, TRUE, x) /\ x \in Byte /\ TRUE \in BOOLEAN
      BY <2>3 DEF Write
    <3>2. QED BY <3>1, TransferSound
  <2>4. QED BY <2>1, <2>2, <2>3, OpenSound, OpenTruncatesSound, CloseSound, FsyncSound, SeekSound
<1>3. QED BY <1>1, <1>2

\* What a file holds is what is at its offsets.
LEMMA ContentAt ==
  ASSUME Core(fs), NEW f \in File, NEW q \in 0..fs.din[f].size-1
  PROVE  Content(f)[q] = At(fs, f, q) /\ q \in Offset
<1>1. Content(f)[q] = At(fs, f, q)
  BY DEF Content, At
<1>2. fs.din[f].size \in 0..MaxFile
  BY CountIn
<1>3. QED BY <1>1, <1>2, Constants DEF Offset

\* Every block is free or used once, the count of unused blocks (sfs_fs.h: super.unused_blocks)
\* is right, and files have the blocks that they count, for any disk and any calls, a
\* truncation of a file that others have open and a failure for want of space included.
THEOREM BlocksCorrect == Spec => []BlocksExact
<1>1. Init => SoundInv
  BY InitFine, FineSound DEF SoundInv
<1>2. SoundInv /\ [Next]_vars => SoundInv'
  BY SoundStep
<1>3. SoundInv => BlocksExact
  <2> SUFFICES ASSUME Core(fs) PROVE BlocksExact
    BY DEF SoundInv, Sound
  <2>1. \A b \in Block : Uses(b) = IF b \in fs.free THEN 0 ELSE 1
    BY OwnedUses
  <2>2. fs.unused = Cardinality(fs.free)
    BY DEF Core, Owned
  <2>3. QED BY <2>1, <2>2 DEF BlocksExact, Core, Covered
<1>4. QED BY <1>1, <1>2, <1>3, PTL DEF Spec

\* what ReadsBack says of a read of n bytes at o
ReadAs(f, o, n, size, bytes) ==
  /\ Len(bytes) = IF o >= size THEN 0 ELSE IF o + n > size THEN size - o ELSE n
  /\ \A k \in DOMAIN bytes : bytes[k] = Content(f)[o + k - 1]

\* A read, at any offset, of a file that has its blocks.
LEMMA ReadIs ==
  ASSUME Core(fs), NEW f \in File, NEW o \in 0..MaxFile-1, NEW n \in 1..BlockSize,
         BlocksFor(fs.din[f].size) <= fs.din[f].blocks,
         NEW size, size = fs.din[f].size, NEW bytes, bytes = IO(fs, f, o, n, FALSE, Zero).bytes
  PROVE  ReadAs(f, o, n, size, bytes)
<1>1. Enough(fs.din[f])
  <2>1. /\ fs.din[f].size \in 0..MaxFile /\ fs.din[f].size \in Nat /\ fs.din[f].blocks \in Nat
    BY CountIn
  <2>2. /\ BlocksFor(fs.din[f].size) \in Nat
        /\ fs.din[f].size <= BlocksFor(fs.din[f].size) * BlockSize
    BY <2>1, BlocksForFacts, Constants
  <2>3. QED BY <2>1, <2>2, MoreBlocks DEF Enough
<1>a. PICK a : a = IO(fs, f, o, n, FALSE, Zero)
  OBVIOUS
<1>2. o \in Nat /\ size \in 0..MaxFile /\ size \in Nat /\ n \in Nat
  BY CountIn, Constants
<1>3. Reads(fs, a, f, o, Readable(size, o, n))
  BY <1>1, <1>2, <1>a, IOReads
<1>m. PICK m : m = Readable(size, o, n)
  OBVIOUS
<1>4. /\ Len(bytes) = m /\ \A k \in 1..m : bytes[k] = At(fs, f, o + k - 1)
  BY <1>3, <1>a, <1>m DEF Reads
<1>5. DOMAIN bytes = 1..m
  <2>1. bytes \in Seq(Byte)
    BY <1>3, <1>a DEF Reads, Call
  <2>2. PICK c \in Seq(Byte) : c = bytes
    BY <2>1
  <2>3. DOMAIN c = 1..Len(c)
    OBVIOUS
  <2>4. QED BY <1>4, <2>2, <2>3
<1>6. ASSUME NEW k \in 1..m PROVE bytes[k] = Content(f)[o + k - 1]
  <2>1. o + k - 1 \in 0..size-1
    BY <1>2, <1>m DEF Readable
  <2>2. Content(f)[o + k - 1] = At(fs, f, o + k - 1)
    BY <2>1, ContentAt
  <2>3. QED BY <1>4, <2>2
<1>7. QED BY <1>4, <1>5, <1>6, <1>m DEF Readable, ReadAs

\* A read that starts at any offset of a file with the blocks for its size returns what is
\* in the file, across the blocks that the call touches.
THEOREM ReadsCorrect == Spec => []ReadsBack
<1>1. Init => SoundInv
  BY InitFine, FineSound DEF SoundInv
<1>2. SoundInv /\ [Next]_vars => SoundInv'
  BY SoundStep
<1>3. SoundInv => ReadsBack
  <2> SUFFICES ASSUME Core(fs) PROVE ReadsBack
    BY DEF SoundInv, Sound
  <2> SUFFICES ASSUME NEW f \in File, NEW o \in 0..MaxFile-1, NEW n \in 1..BlockSize,
                      BlocksFor(fs.din[f].size) <= fs.din[f].blocks
               PROVE  LET size == fs.din[f].size
                          bytes == IO(fs, f, o, n, FALSE, Zero).bytes
                      IN /\ Len(bytes) = IF o >= size THEN 0 ELSE IF o + n > size THEN size - o ELSE n
                         /\ \A k \in DOMAIN bytes : bytes[k] = Content(f)[o + k - 1]
    BY DEF ReadsBack
  <2>1. PICK size, bytes : size = fs.din[f].size /\ bytes = IO(fs, f, o, n, FALSE, Zero).bytes
    OBVIOUS
  <2>2. ReadAs(f, o, n, size, bytes)
    BY <2>1, ReadIs, Zenon
  <2>3. QED BY <2>1, <2>2, Zenon DEF ReadAs
<1>4. QED BY <1>1, <1>2, <1>3, PTL DEF Spec

------------------------------------------------------------------------------
(* Contents. *)

\* what a user sees of the files of s
ContentOf(s, f) == [q \in 0..s.din[f].size-1 |-> At(s, f, q)]
Contents(s) == [f \in File |-> ContentOf(s, f)]

\* The contents that Implements maps to.
LEMMA ContentIs ==
  /\ [f \in File |-> Content(f)] = Contents(fs)
  /\ [f \in File |-> Content(f)]' = Contents(fs')
<1>1. \A f \in File : Content(f) = ContentOf(fs, f)
  BY DEF Content, ContentOf, At
<1>2. \A f \in File : Content(f)' = ContentOf(fs', f)
  BY DEF Content, ContentOf, At
<1>3. QED BY <1>1, <1>2 DEF Contents

\* the size of a file, from its content
SizeOf(c) == IF c = <<>> THEN 0 ELSE CHOOSE n \in 1..MaxFile : DOMAIN c = 0..n-1

\* The size that users see is the size of the inode.
LEMMA SizeIs ==
  ASSUME Core(fs), NEW f \in File
  PROVE  Abstract!Size(f) = fs.din[f].size
<1>z. PICK z \in 0..MaxFile : z = fs.din[f].size
  BY CountIn
<1>c. PICK c : c = ContentOf(fs, f)
  OBVIOUS
<1>0. [g \in File |-> Content(g)][f] = c
  BY <1>c, ContentIs DEF Contents
<1>1. DOMAIN c = 0..z-1
  BY <1>c, <1>z DEF ContentOf
<1>2. Abstract!Size(f) = IF c = <<>> THEN 0 ELSE CHOOSE n \in 1..MaxFile : DOMAIN c = 0..n-1
  <2>1. Abstract!Size(f) = SizeOf([g \in File |-> Content(g)][f])
    BY DEF Abstract!Size, SizeOf
  <2>2. QED BY <1>0, <2>1 DEF SizeOf
<1>3. CASE z = 0
  <2>1. c = <<>>
    <3>1. 0..z-1 = {}
      BY <1>3
    <3>2. c = [q \in {} |-> At(fs, f, q)]
      BY <1>c, <1>z, <3>1 DEF ContentOf
    <3>3. QED BY <3>2
  <2>2. QED BY <1>2, <1>3, <1>z, <2>1
<1>4. CASE z # 0
  <2>1. c # <<>>
    <3>1. 0 \in DOMAIN c
      BY <1>1, <1>4, Constants
    <3>2. DOMAIN <<>> = {}
      OBVIOUS
    <3>3. QED BY <3>1, <3>2
  <2>2. z \in 1..MaxFile
    BY <1>4, Constants
  <2>3. ASSUME NEW n \in 1..MaxFile, DOMAIN c = 0..n-1 PROVE n = z
    <3>1. n \in Nat /\ z \in Nat /\ n # 0
      BY Constants
    <3>2. n-1 \in 0..n-1 /\ z-1 \in 0..z-1
      BY <1>4, <3>1
    <3>3. n-1 \in 0..z-1 /\ z-1 \in 0..n-1
      BY <1>1, <2>3, <3>2
    <3>4. QED BY <3>1, <3>3
  <2>4. (CHOOSE n \in 1..MaxFile : DOMAIN c = 0..n-1) = z
    BY <1>1, <2>2, <2>3
  <2>5. QED BY <1>2, <1>z, <2>1, <2>4
<1>5. QED BY <1>3, <1>4

\* A file with the same size and bytes has the same content.
LEMMA ContentSame ==
  ASSUME NEW s, NEW t, Core(s), NEW g \in File, t.din[g].size = s.din[g].size,
         \A q \in Offset : At(t, g, q) = At(s, g, q)
  PROVE  ContentOf(t, g) = ContentOf(s, g)
<1>1. s.din[g].size \in 0..MaxFile
  BY CountIn
<1>2. \A q \in 0..s.din[g].size-1 : q \in Offset
  BY <1>1, Constants DEF Offset
<1>3. QED BY <1>2 DEF ContentOf

\* what a call on f does to the contents
LEMMA ContentsWith ==
  ASSUME NEW s, NEW t, Core(s), NEW f \in File, NEW c, ContentOf(t, f) = c,
         \A g \in File : g # f => t.din[g].size = s.din[g].size /\ \A q \in Offset : At(t, g, q) = At(s, g, q)
  PROVE  Contents(t) = [Contents(s) EXCEPT ![f] = c]
<1>1. \A g \in File : g # f => ContentOf(t, g) = ContentOf(s, g)
  BY ContentSame
<1>2. QED BY <1>1 DEF Contents

\* a position is at most the size of its file
PosIn == \A h \in Handle : handle[h] # CLOSED => handle[h].pos <= fs.din[handle[h].file].size
FineInv == Fine(fs) /\ HandleIn /\ PosIn

\* A handle changed, and the sizes of no other open file smaller.
LEMMA PosStays ==
  ASSUME FineInv, HandleIn', NEW h \in Handle, \A i \in Handle : i # h => handle'[i] = handle[i],
         \A i \in Handle, f \in File : i # h /\ handle[i] # CLOSED /\ handle[i].file = f
                                 => fs.din[f].size <= fs'.din[f].size,
         handle'[h] # CLOSED => handle'[h].pos <= fs'.din[handle'[h].file].size,
         Core(fs')
  PROVE  PosIn'
<1> SUFFICES ASSUME NEW i \in Handle, handle'[i] # CLOSED
             PROVE  handle'[i].pos <= fs'.din[handle'[i].file].size
  BY DEF PosIn
<1>1. CASE i = h
  BY <1>1
<1>2. CASE i # h
  <2>f. PICK f, p : f = handle[i].file /\ p = handle[i].pos
    OBVIOUS
  <2>1. handle'[i] = handle[i] /\ handle[i] # CLOSED
    BY <1>2
  <2>2. f \in File /\ p \in Nat
    BY <2>1, <2>f, HandleFacts DEF FineInv
  <2>3. p <= fs.din[f].size /\ fs.din[f].size <= fs'.din[f].size
    BY <1>2, <2>1, <2>2, <2>f DEF FineInv, PosIn
  <2>4. fs.din[f].size \in Nat /\ fs'.din[f].size \in Nat
    BY <2>2, CountIn DEF FineInv, Fine
  <2>5. QED BY <2>1, <2>2, <2>3, <2>4, <2>f
<1>3. QED BY <1>1, <1>2

------------------------------------------------------------------------------
(* The refinement of FileData. *)

\* What FineInv says of the file system.
LEMMA FineIsSound ==
  ASSUME FineInv
  PROVE  SoundInv /\ Core(fs) /\ Sound(fs) /\ \A f \in File : Whole(fs, f)
BY FineSound DEF FineInv, SoundInv, Fine

\* Each operation is one of FileData, or changes nothing that users see: open,
LEMMA OpenRefines ==
  ASSUME FineInv, NEW h \in Handle, NEW f \in File, NEW append \in BOOLEAN, Open(h, f, append)
  PROVE  FineInv' /\ Abstract!Open(h, f)
<1>1. fs' = fs /\ handle[h] = CLOSED
  BY DEF Open
<1>2. HandleIn' /\ Core(fs')
  BY <1>1, FineIsSound, OpenSound DEF SoundInv
<1>z. PICK z : z = fs.din[f].size /\ z \in Nat
  BY FineIsSound, CountIn
<1>3. PICK p : handle' = [handle EXCEPT ![h] = [file |-> f, pos |-> p]] /\ p \in {0, z}
  BY <1>z DEF Open, AppendAt
<1>4. handle \in [Handle -> {CLOSED} \cup Record]
  BY DEF FineInv, HandleIn
<1>5. handle'[h] = [file |-> f, pos |-> p] /\ \A i \in Handle : i # h => handle'[i] = handle[i]
  BY <1>3, <1>4
<1>6. PosIn'
  <2>1. handle'[h].pos <= fs'.din[handle'[h].file].size
    BY <1>1, <1>3, <1>5, <1>z
  <2>2. \A g \in File : fs.din[g].size <= fs'.din[g].size
    BY <1>1, FineIsSound, CountIn
  <2>3. QED BY <1>2, <1>5, <2>1, <2>2, PosStays
<1>7. p \in {0, Abstract!Size(f)}
  BY <1>3, <1>z, FineIsSound, SizeIs
<1>8. [g \in File |-> Content(g)]' = [g \in File |-> Content(g)]
  BY <1>1, ContentIs
<1>9. Abstract!Open(h, f)
  BY <1>1, <1>3, <1>7, <1>8 DEF Abstract!Open
<1>10. QED BY <1>1, <1>2, <1>6, <1>9 DEF FineInv

\* open that truncates a file nobody has open,
LEMMA OpenTruncatesRefines ==
  ASSUME FineInv, ~TruncatesShared, NEW h \in Handle, NEW f \in File, OpenTruncates(h, f)
  PROVE  FineInv' /\ (Abstract!Truncate(h, f) \/ UNCHANGED <<fs, handle>>)
<1>a. PICK a : a = Truncate(fs, f, 0)
  OBVIOUS
<1>1. CASE a.bad
  BY <1>1, <1>a DEF OpenTruncates, Ends, FineInv, HandleIn, PosIn
<1>2. CASE ~a.bad
  <2>0. 0 \in 0..MaxFile
    BY Constants
  <2>1. Truncated(fs, a, f, 0)
    BY <1>2, <1>a, <2>0, TruncateDoes DEF FineInv
  <2>2. fs' = a.s /\ handle' = [handle EXCEPT ![h] = [file |-> f, pos |-> 0]] /\ handle[h] = CLOSED
        /\ Users(f) = {}
    BY <1>2, <1>a DEF OpenTruncates
  <2>3. /\ Fine(fs') /\ fs'.din[f].size = 0
        /\ \A g \in File : g # f => /\ fs'.din[g].size = fs.din[g].size
                                    /\ \A q \in Offset : At(fs', g, q) = At(fs, g, q)
    BY <2>1, <2>2 DEF Truncated, Spares
  <2>4. HandleIn' /\ Core(fs')
    BY <2>3, FineIsSound, OpenTruncatesSound DEF SoundInv, Fine
  <2>5. handle \in [Handle -> {CLOSED} \cup Record]
    BY DEF FineInv, HandleIn
  <2>6. handle'[h] = [file |-> f, pos |-> 0] /\ \A i \in Handle : i # h => handle'[i] = handle[i]
    BY <2>2, <2>5
  <2>7. PosIn'
    <3>1. handle'[h].pos <= fs'.din[handle'[h].file].size
      BY <2>3, <2>6
    <3>2. \A i \in Handle, g \in File :
            i # h /\ handle[i] # CLOSED /\ handle[i].file = g => fs.din[g].size <= fs'.din[g].size
      <4>1. \A g \in File : fs.din[g].size \in Nat
        BY FineIsSound, CountIn
      <4>2. \A i \in Handle : handle[i] # CLOSED => handle[i].file # f
        BY <2>2 DEF Users
      <4>3. QED BY <2>3, <4>1, <4>2
    <3>3. QED BY <2>4, <2>6, <3>1, <3>2, PosStays
  <2>8. ContentOf(fs', f) = <<>>
    <3>1. 0..fs'.din[f].size-1 = {}
      BY <2>3
    <3>2. ContentOf(fs', f) = [q \in {} |-> At(fs', f, q)]
      BY <3>1 DEF ContentOf
    <3>3. QED BY <3>2
  <2>9. Contents(fs') = [Contents(fs) EXCEPT ![f] = <<>>]
    BY <2>3, <2>8, FineIsSound, ContentsWith
  <2>10. Abstract!Truncate(h, f)
    BY <2>2, <2>9, ContentIs DEF Abstract!Truncate
  <2>11. QED BY <2>3, <2>4, <2>7, <2>10 DEF FineInv
<1>3. QED BY <1>1, <1>2

\* close,
LEMMA CloseRefines ==
  ASSUME FineInv, NEW h \in Handle, Close(h)
  PROVE  FineInv' /\ Abstract!Close(h)
<1>f. PICK f : f = handle[h].file
  OBVIOUS
<1>1. f \in File
  BY <1>f, HandleFacts DEF Close, FineInv
<1>t. PICK t : t = Reclaimed(fs, f)
  OBVIOUS
<1>2. Stores(fs, t, f)
  BY <1>1, <1>t, FineIsSound, SyncedStores
<1>3. fs' = t \/ fs' = fs
  BY <1>f, <1>t DEF Close
<1>4. /\ Fine(fs')
      /\ \A g \in File : fs'.din[g].size = fs.din[g].size /\ \A q \in Offset : At(fs', g, q) = At(fs, g, q)
  <2>1. Fine(t)
    BY <1>1, <1>2, StoresFine DEF FineInv
  <2>2. \A g \in File : t.din[g].size = fs.din[g].size /\ \A q \in Offset : At(t, g, q) = At(fs, g, q)
    BY <1>1, <1>2, FineIsSound, StoresSound
  <2>3. QED BY <1>3, <2>1, <2>2 DEF FineInv
<1>5. HandleIn' /\ Core(fs')
  BY <1>4, FineIsSound, CloseSound DEF SoundInv, Fine
<1>6. handle \in [Handle -> {CLOSED} \cup Record] /\ handle' = [handle EXCEPT ![h] = CLOSED]
  BY DEF FineInv, HandleIn, Close
<1>7. handle'[h] = CLOSED /\ \A i \in Handle : i # h => handle'[i] = handle[i]
  BY <1>6
<1>8. PosIn'
  <2>1. \A g \in File : fs.din[g].size <= fs'.din[g].size
    BY <1>4, FineIsSound, CountIn
  <2>2. QED BY <1>5, <1>7, <2>1, PosStays
<1>9. Contents(fs') = Contents(fs)
  <2>1. \A g \in File : ContentOf(fs', g) = ContentOf(fs, g)
    BY <1>4, FineIsSound, ContentSame
  <2>2. QED BY <2>1 DEF Contents
<1>10. Abstract!Close(h)
  BY <1>6, <1>9, ContentIs DEF Abstract!Close
<1>11. QED BY <1>4, <1>5, <1>8, <1>10 DEF FineInv

\* fsync,
LEMMA FsyncRefines ==
  ASSUME FineInv, NEW h \in Handle, Fsync(h)
  PROVE  FineInv' /\ UNCHANGED Abstract!vars
<1>f. PICK f : f = handle[h].file
  OBVIOUS
<1>1. f \in File
  BY <1>f, HandleFacts DEF Fsync, FineInv
<1>2. Stores(fs, fs', f)
  BY <1>1, <1>f, FineIsSound, SyncedStores DEF Fsync
<1>3. /\ Fine(fs')
      /\ \A g \in File : fs'.din[g].size = fs.din[g].size /\ \A q \in Offset : At(fs', g, q) = At(fs, g, q)
  <2>t. PICK t : t = fs'
    OBVIOUS
  <2>1. Fine(t)
    BY <1>1, <1>2, <2>t, StoresFine DEF FineInv
  <2>2. \A g \in File : t.din[g].size = fs.din[g].size /\ \A q \in Offset : At(t, g, q) = At(fs, g, q)
    BY <1>1, <1>2, <2>t, FineIsSound, StoresSound
  <2>3. QED BY <2>1, <2>2, <2>t
<1>4. handle' = handle
  BY DEF Fsync
<1>5. HandleIn' /\ PosIn'
  BY <1>3, <1>4, HandleFacts DEF FineInv, HandleIn, PosIn
<1>6. Contents(fs') = Contents(fs)
  <2>1. \A g \in File : ContentOf(fs', g) = ContentOf(fs, g)
    BY <1>3, FineIsSound, ContentSame
  <2>2. QED BY <2>1 DEF Contents
<1>7. QED BY <1>3, <1>4, <1>5, <1>6, ContentIs DEF Abstract!vars, FineInv

Larger(m, n) == IF m > n THEN m ELSE n

\* What a write that starts in the file, or at its end, leaves behind.
LEMMA WrittenFine ==
  ASSUME NEW s, Fine(s), NEW f \in File, NEW o \in Nat, o <= s.din[f].size, NEW m \in Nat, o + m <= MaxFile,
         NEW x \in Byte, NEW u, Written(s, u, f, o, m, x)
  PROVE  /\ Fine(u) /\ u.din[f].size = Larger(o + m, s.din[f].size)
         /\ \A g \in File : g # f => /\ u.din[g].size = s.din[g].size
                                     /\ \A q \in Offset : At(u, g, q) = At(s, g, q)
         /\ \A q \in Offset : At(u, f, q) = IF o <= q /\ q < o + m THEN x ELSE At(s, f, q)
<1>t. PICK t : /\ Wrote(s, t, f, o, m, x)
               /\ IF o + m > s.din[f].size THEN Sets(t, u, f, o + m) ELSE u = t
  BY DEF Written
<1>0. Core(s) /\ \A g \in File : Whole(s, g)
  BY DEF Fine
<1>1. /\ Core(t) /\ Others(s, t, f) /\ Noted(s, t, f)
      /\ t.din[f].size = s.din[f].size /\ s.din[f].blocks <= t.din[f].blocks
      /\ m # 0 => o + m <= t.din[f].blocks * BlockSize
  BY <1>t DEF Wrote
<1>2. /\ \A g \in File, q \in Offset : g # f => At(t, g, q) = At(s, g, q)
      /\ \A q \in Offset : At(t, f, q) = IF o <= q /\ q < o + m THEN x ELSE At(s, f, q)
  BY <1>t DEF Wrote
<1>z. PICK z \in Nat : z = s.din[f].size /\ o <= z
  BY <1>0, CountIn
<1>3. ASSUME NEW g \in File, g # f PROVE Whole(t, g)
  BY <1>0, <1>1, <1>2, <1>3, OthersWhole
<1>4. ASSUME NEW q \in Offset, z <= q, o + m <= q PROVE At(t, f, q) = Zero
  <2>1. ~(q < o + m)
    BY <1>4, Constants DEF Offset
  <2>2. At(s, f, q) = Zero
    BY <1>0, <1>4, <1>z DEF Whole, Blank
  <2>3. QED BY <1>2, <2>1, <2>2
<1>5. CASE o + m > z
  <2>1. Sets(t, u, f, o + m)
    BY <1>5, <1>t, <1>z
  <2>n. PICK n \in 0..MaxFile : n = o + m
    OBVIOUS
  <2>2. \A q \in Offset : n <= q => At(t, f, q) = Zero
    <3>1. \A q \in Offset : n <= q => z <= q
      BY <1>5, <2>n, Constants DEF Offset
    <3>2. QED BY <1>4, <2>n, <3>1
  <2>3. Enough(t.ondisk[f])
    BY <1>0, <1>1 DEF Others, Whole
  <2>4. n <= t.din[f].blocks * BlockSize
    BY <1>1, <1>5, <1>z, <2>n
  <2>5. Sets(t, u, f, n)
    BY <2>1, <2>n
  <2>6. Fine(u)
    BY <1>1, <1>3, <2>2, <2>3, <2>4, <2>5, SetsFine
  <2>7. u.din[f].size = n /\ Others(t, u, f) /\ \A g \in File, q \in Offset : At(u, g, q) = At(t, g, q)
    BY <2>5 DEF Sets
  <2>8. Larger(o + m, s.din[f].size) = n
    BY <1>5, <1>z, <2>n DEF Larger
  <2>9. \A g \in File : g # f => u.din[g].size = s.din[g].size
    BY <1>1, <2>7 DEF Others
  <2>10. QED BY <1>2, <2>6, <2>7, <2>8, <2>9
<1>6. CASE ~(o + m > z)
  <2>1. u = t
    BY <1>6, <1>t, <1>z
  <2>2. Whole(t, f)
    <3>1. Enough(t.din[f])
      <4>1. s.din[f] \in DiskInode /\ t.din[f] \in DiskInode
        BY <1>0, <1>1, CountIn
      <4>2. Enough(s.din[f])
        BY <1>0 DEF Whole
      <4>3. QED BY <1>1, <4>1, <4>2, EnoughMore
    <3>2. Enough(t.ondisk[f])
      BY <1>0, <1>1 DEF Others, Whole
    <3>3. Clean(t, f)
      <4>1. Keeps(s, t, f)
        BY <1>1 DEF Keeps, Noted
      <4>2. Sound(s)
        BY FineSound
      <4>3. Sound(t)
        BY <4>1, <4>2, KeepsSound
      <4>4. QED BY <4>3 DEF Sound
    <3>4. Blank(t, f)
      <4>1. \A q \in Offset : z <= q => o + m <= q
        BY <1>6, Constants DEF Offset
      <4>2. QED BY <1>1, <1>4, <1>z, <4>1 DEF Blank
    <3>5. QED BY <3>1, <3>2, <3>3, <3>4 DEF Whole
  <2>3. Fine(t)
    BY <1>1, <1>3, <2>2 DEF Fine
  <2>4. Larger(o + m, s.din[f].size) = s.din[f].size
    BY <1>6, <1>z DEF Larger
  <2>5. \A g \in File : g # f => t.din[g].size = s.din[g].size
    BY <1>1 DEF Others
  <2>6. QED BY <1>1, <1>2, <2>1, <2>3, <2>4, <2>5
<1>7. QED BY <1>5, <1>6

\* The position of an open descriptor moved.
LEMMA PosMoves ==
  ASSUME FineInv, NEW h \in Handle, handle[h] # CLOSED, NEW p \in 0..MaxFile,
         handle' = [handle EXCEPT ![h].pos = p], Core(fs'), p <= fs'.din[handle[h].file].size,
         \A g \in File : fs.din[g].size <= fs'.din[g].size
  PROVE  HandleIn' /\ PosIn'
<1>r. PICK r : r = [handle[h] EXCEPT !.pos = p]
  OBVIOUS
<1>1. handle[h] \in Record /\ handle \in [Handle -> {CLOSED} \cup Record]
  BY HandleFacts DEF FineInv, HandleIn
<1>2. r \in Record /\ r.file = handle[h].file /\ r.pos = p
  BY <1>1, <1>r DEF Record
<1>3. handle' = [handle EXCEPT ![h] = r]
  BY <1>r
<1>4. handle'[h] = r /\ \A i \in Handle : i # h => handle'[i] = handle[i]
  BY <1>1, <1>3
<1>5. HandleIn'
  BY <1>1, <1>2, <1>3 DEF HandleIn
<1>6. handle'[h].pos <= fs'.din[handle'[h].file].size
  BY <1>2, <1>4
<1>7. PosIn'
  BY <1>4, <1>5, <1>6, PosStays
<1>8. QED BY <1>5, <1>7

\* a write of what there was room for,
LEMMA WriteRefines ==
  ASSUME FineInv, NEW h \in Handle, NEW n \in 1..BlockSize, NEW x \in Byte, Write(h, n, x)
  PROVE  FineInv' /\ (UNCHANGED <<fs, handle>> \/ \E m \in 0..BlockSize : Abstract!Write(h, m, x))
<1>f. PICK f, o : f = handle[h].file /\ o = handle[h].pos
  OBVIOUS
<1>1. f \in File /\ o \in Nat /\ o + n <= MaxFile /\ handle[h] # CLOSED
  BY <1>f, HandleFacts DEF Write, Transfer, FineInv
<1>a. PICK a : a = IO(fs, f, o, n, TRUE, x)
  OBVIOUS
<1>2. CASE a.bad
  <2>1. UNCHANGED <<fs, handle>>
    BY <1>2, <1>a, <1>f DEF Write, Transfer, Ends
  <2>2. QED BY <2>1 DEF FineInv, HandleIn, PosIn
<1>3. CASE ~a.bad
  <2>1. Len(a.bytes) \in 0..n /\ Written(fs, a.s, f, o, Len(a.bytes), x)
    BY <1>1, <1>3, <1>a, FineIsSound, IOWrites
  <2>m. PICK m : m = Len(a.bytes)
    OBVIOUS
  <2>2. m \in 0..n /\ m \in Nat /\ m \in 0..BlockSize /\ o + m \in 0..MaxFile
    BY <1>1, <2>1, <2>m, Constants
  <2>3. fs' = a.s /\ handle' = [handle EXCEPT ![h].pos = o + m]
    BY <1>3, <1>a, <1>f, <2>m DEF Write, Transfer
  <2>z. PICK z \in Nat : z = fs.din[f].size /\ o <= z
    BY <1>1, <1>f, CountIn, FineIsSound DEF FineInv, PosIn
  <2>t. PICK t : t = fs'
    OBVIOUS
  <2>4. /\ Fine(t) /\ t.din[f].size = Larger(o + m, z)
        /\ \A g \in File : g # f => /\ t.din[g].size = fs.din[g].size
                                    /\ \A q \in Offset : At(t, g, q) = At(fs, g, q)
        /\ \A q \in Offset : At(t, f, q) = IF o <= q /\ q < o + m THEN x ELSE At(fs, f, q)
    <3>1. Written(fs, t, f, o, m, x)
      BY <2>1, <2>3, <2>m, <2>t
    <3>2. o + m <= MaxFile
      BY <2>2
    <3>3. QED BY <1>1, <2>2, <2>z, <3>1, <3>2, WrittenFine DEF FineInv
  <2>5. HandleIn' /\ PosIn'
    <3>1. \A g \in File : fs.din[g].size \in Nat
      BY FineIsSound, CountIn
    <3>2. o + m <= t.din[f].size /\ z <= t.din[f].size
      BY <2>2, <2>4 DEF Larger
    <3>3. \A g \in File : fs.din[g].size <= fs'.din[g].size
      BY <2>4, <2>t, <2>z, <3>1, <3>2
    <3>4. Core(fs')
      BY <2>4, <2>t DEF Fine
    <3>5. QED BY <1>1, <1>f, <2>2, <2>3, <2>t, <3>2, <3>3, <3>4, PosMoves
  <2>c. PICK c, d : c = ContentOf(fs, f) /\ d = Abstract!Put(c, z, o, m, x)
    OBVIOUS
  <2>6. \A q \in 0..z-1 : c[q] = At(fs, f, q)
    BY <2>c, <2>z DEF ContentOf
  <2>7. ContentOf(t, f) = IF m = 0 THEN c ELSE d
    <3>s. PICK s \in Nat : s = t.din[f].size /\ s = (IF o + m > z THEN o + m ELSE z) /\ s <= MaxFile
      <4>1. t.din[f].size = IF o + m > z THEN o + m ELSE z
        BY <2>4 DEF Larger
      <4>2. t.din[f].size \in 0..MaxFile
        BY <1>1, <2>4, CountIn DEF Fine
      <4>3. QED BY <4>1, <4>2, Constants
    <3>1. \A q \in 0..s-1 : q \in Offset /\ q \in Nat
      BY <3>s, Constants DEF Offset
    <3>2. ASSUME NEW q \in 0..s-1
          PROVE  At(t, f, q) = IF o <= q /\ q < o + m THEN x ELSE IF q < z THEN c[q] ELSE Zero
      <4>1. (o <= q /\ q < o + m) \/ q < z
        BY <1>1, <2>2, <2>z, <3>1, <3>s
      <4>2. q < z => c[q] = At(fs, f, q)
        BY <2>6, <3>1
      <4>3. QED BY <2>4, <3>1, <4>1, <4>2
    <3>3. ContentOf(t, f) = [q \in 0..s-1 |-> IF o <= q /\ q < o + m THEN x ELSE IF q < z THEN c[q] ELSE Zero]
      BY <3>2, <3>s DEF ContentOf
    <3>4. ContentOf(t, f) = d
      BY <2>c, <3>3, <3>s DEF Abstract!Put
    <3>5. CASE m = 0
      <4>1. s = z /\ \A q \in 0..s-1 : ~(o <= q /\ q < o + m) /\ q < z
        BY <1>1, <2>z, <3>1, <3>5, <3>s
      <4>2. \A q \in 0..s-1 : At(t, f, q) = At(fs, f, q)
        BY <2>6, <3>2, <4>1
      <4>3. ContentOf(t, f) = ContentOf(fs, f)
        BY <2>z, <3>s, <4>1, <4>2 DEF ContentOf
      <4>4. QED BY <2>c, <3>5, <4>3
    <3>6. QED BY <3>4, <3>5
  <2>8. Contents(fs') = [Contents(fs) EXCEPT ![f] = IF m = 0 THEN c ELSE d]
    <3>1. Contents(t) = [Contents(fs) EXCEPT ![f] = IF m = 0 THEN c ELSE d]
      BY <1>1, <2>4, <2>7, FineIsSound, ContentsWith
    <3>2. QED BY <2>t, <3>1
  <2>9. Abstract!Size(f) = z /\ Contents(fs)[f] = c
    BY <1>1, <2>c, <2>z, FineIsSound, SizeIs DEF Contents
  <2>10. Abstract!Write(h, m, x)
    <3>1. Contents(fs') = [Contents(fs) EXCEPT ![f] = IF m = 0 THEN @ ELSE Abstract!Put(@, Abstract!Size(f), o, m, x)]
      BY <1>1, <2>8, <2>9, <2>c DEF Contents
    <3>2. QED BY <1>1, <1>f, <2>3, <3>1, ContentIs DEF Abstract!Write
  <2>11. QED BY <2>2, <2>4, <2>5, <2>10, <2>t DEF FineInv
<1>4. QED BY <1>2, <1>3

\* a read, which moves the position,
LEMMA ReadRefines ==
  ASSUME FineInv, NEW h \in Handle, NEW n \in 1..BlockSize, Read(h, n)
  PROVE  FineInv' /\ \E p \in 0..MaxFile : Abstract!Seek(h, p)
<1>f. PICK f, o : f = handle[h].file /\ o = handle[h].pos
  OBVIOUS
<1>1. f \in File /\ o \in Nat /\ o + n <= MaxFile /\ handle[h] # CLOSED
  BY <1>f, HandleFacts DEF Read, Transfer, FineInv
<1>a. PICK a : a = IO(fs, f, o, n, FALSE, Zero)
  OBVIOUS
<1>z. PICK z \in Nat : z = fs.din[f].size /\ o <= z /\ z <= MaxFile
  BY <1>1, <1>f, CountIn, FineIsSound DEF FineInv, PosIn
<1>m. PICK m : m = Readable(z, o, n)
  OBVIOUS
<1>2. m \in Nat /\ o + m <= z
  BY <1>1, <1>z, <1>m DEF Readable
<1>3. Reads(fs, a, f, o, m)
  <2>1. Enough(fs.din[f])
    BY <1>1, FineIsSound DEF Whole
  <2>2. QED BY <1>1, <1>a, <1>m, <1>z, <2>1, FineIsSound, IOReads
<1>4. ~a.bad /\ a.s = fs /\ Len(a.bytes) = m
  BY <1>3 DEF Reads
<1>5. fs' = fs /\ handle' = [handle EXCEPT ![h].pos = o + m]
  BY <1>4, <1>a, <1>f DEF Read, Transfer
<1>6. o + m \in 0..MaxFile
  BY <1>1, <1>2, <1>z, Constants
<1>7. HandleIn' /\ PosIn'
  <2>1. Core(fs') /\ \A g \in File : fs.din[g].size <= fs'.din[g].size
    BY <1>5, FineIsSound, CountIn
  <2>2. QED BY <1>1, <1>2, <1>5, <1>6, <1>f, <1>z, <2>1, PosMoves
<1>8. Abstract!Size(f) = z
  BY <1>1, <1>z, FineIsSound, SizeIs
<1>9. Contents(fs') = [Contents(fs) EXCEPT ![f] = @]
  BY <1>1, <1>5 DEF Contents
<1>10. Abstract!Seek(h, o + m)
  BY <1>1, <1>2, <1>5, <1>8, <1>9, <1>f, ContentIs DEF Abstract!Seek
<1>11. QED BY <1>5, <1>6, <1>7, <1>10 DEF FineInv

\* and seek, that fills up with zeros.
LEMMA SeekRefines ==
  ASSUME FineInv, NEW h \in Handle, NEW p \in SeekTo, Seek(h, p)
  PROVE  FineInv' /\ (UNCHANGED Abstract!vars \/ Abstract!Seek(h, p)) /\ p \in 0..MaxFile
<1>f. PICK f : f = handle[h].file
  OBVIOUS
<1>1. f \in File /\ handle[h] # CLOSED /\ p \in 0..MaxFile /\ p \in Nat
  BY <1>f, HandleFacts, Constants DEF Seek, FineInv
<1>a. PICK a : a = IF p > fs.din[f].size THEN Truncate(fs, f, p) ELSE Begin(fs)
  OBVIOUS
<1>z. PICK z \in Nat : z = fs.din[f].size
  BY <1>1, FineIsSound, CountIn
<1>8. Abstract!Size(f) = z
  BY <1>1, <1>z, FineIsSound, SizeIs
<1>2. CASE a.bad
  <2>1. UNCHANGED <<fs, handle>>
    BY <1>2, <1>a, <1>f DEF Seek, Ends
  <2>2. UNCHANGED Abstract!vars
    BY <2>1, ContentIs DEF Abstract!vars
  <2>3. QED BY <1>1, <2>1, <2>2 DEF FineInv, HandleIn, PosIn
<1>3. CASE ~a.bad /\ ~(p > z)
  <2>b. PICK b : b = Begin(fs)
    OBVIOUS
  <2>1. a = b /\ b.s = fs /\ b.ok
    BY <1>3, <1>a, <1>z, <2>b, FineIsSound, BeginFacts DEF Core
  <2>2. fs' = fs /\ handle' = [handle EXCEPT ![h].pos = p]
    BY <1>3, <1>a, <1>f, <2>1 DEF Seek
  <2>3. HandleIn' /\ PosIn'
    <3>1. Core(fs') /\ \A g \in File : fs.din[g].size <= fs'.din[g].size
      BY <2>2, FineIsSound, CountIn
    <3>2. p <= z
      BY <1>1, <1>3
    <3>3. QED BY <1>1, <1>f, <1>z, <2>2, <3>1, <3>2, PosMoves
  <2>4. Contents(fs') = [Contents(fs) EXCEPT ![f] = @]
    BY <1>1, <2>2 DEF Contents
  <2>5. Abstract!Seek(h, p)
    BY <1>1, <1>3, <1>8, <1>f, <2>2, <2>4, ContentIs DEF Abstract!Seek
  <2>6. QED BY <1>1, <2>2, <2>3, <2>5 DEF FineInv
<1>4. CASE ~a.bad /\ p > z
  <2>1. Truncated(fs, a, f, p)
    <3>1. a = Truncate(fs, f, p) /\ fs.din[f].size < p
      BY <1>4, <1>a, <1>z
    <3>2. QED BY <1>1, <1>4, <3>1, TruncateDoes DEF FineInv
  <2>2. fs' = a.s /\ handle' = IF a.ok THEN [handle EXCEPT ![h].pos = p] ELSE handle
    BY <1>4, <1>a, <1>f DEF Seek
  <2>t. PICK t : t = fs'
    OBVIOUS
  <2>3. /\ Fine(t) /\ t.din[f].size = IF a.ok THEN p ELSE z
        /\ \A g \in File : g # f => /\ t.din[g].size = fs.din[g].size
                                    /\ \A q \in Offset : At(t, g, q) = At(fs, g, q)
        /\ \A q \in Offset : At(t, f, q) = At(fs, f, q)
    BY <1>1, <1>4, <1>z, <2>1, <2>2, <2>t DEF Truncated, Spares
  <2>4. Core(fs') /\ \A g \in File : fs.din[g].size <= fs'.din[g].size
    <3>1. \A g \in File : fs.din[g].size \in Nat
      BY FineIsSound, CountIn
    <3>2. z <= t.din[f].size
      BY <1>1, <1>4, <2>3
    <3>3. QED BY <1>z, <2>3, <2>t, <3>1, <3>2 DEF Fine
  <2>5. CASE a.ok
    <3>1. handle' = [handle EXCEPT ![h].pos = p] /\ t.din[f].size = p
      BY <2>2, <2>3, <2>5
    <3>2. HandleIn' /\ PosIn'
      <4>1. p <= fs'.din[f].size
        BY <1>1, <2>t, <3>1
      <4>2. QED BY <1>1, <1>f, <2>4, <3>1, <4>1, PosMoves
    <3>c. PICK c : c = ContentOf(fs, f)
      OBVIOUS
    <3>3. \A q \in 0..z-1 : c[q] = At(fs, f, q)
      BY <1>z, <3>c DEF ContentOf
    <3>4. ContentOf(t, f) = Abstract!Put(c, z, p, 0, Zero)
      <4>1. \A q \in 0..p-1 : q \in Offset /\ q \in Nat
        BY <1>1, Constants DEF Offset
      <4>2. ASSUME NEW q \in 0..p-1
            PROVE  At(t, f, q) = IF p <= q /\ q < p + 0 THEN Zero ELSE IF q < z THEN c[q] ELSE Zero
        <5>1. ~(p <= q /\ q < p + 0) /\ q \in Offset /\ q \in Nat
          BY <1>1, <4>1
        <5>2. At(t, f, q) = At(fs, f, q)
          BY <2>3, <5>1
        <5>3. q < z => c[q] = At(fs, f, q)
          BY <3>3, <5>1
        <5>4. ~(q < z) => At(fs, f, q) = Zero
          <6>1. ~(q < z) => z <= q
            BY <5>1
          <6>2. QED BY <1>1, <1>z, <5>1, <6>1, FineIsSound DEF Whole, Blank
        <5>5. QED BY <5>1, <5>2, <5>3, <5>4
      <4>3. p + 0 > z /\ p + 0 = p
        BY <1>1, <1>4
      <4>4. ContentOf(t, f) = [q \in 0..p-1 |-> IF p <= q /\ q < p + 0 THEN Zero ELSE IF q < z THEN c[q] ELSE Zero]
        BY <3>1, <4>2 DEF ContentOf
      <4>5. QED BY <4>3, <4>4 DEF Abstract!Put
    <3>5. Contents(fs') = [Contents(fs) EXCEPT ![f] = Abstract!Put(c, z, p, 0, Zero)]
      <4>1. Contents(t) = [Contents(fs) EXCEPT ![f] = Abstract!Put(c, z, p, 0, Zero)]
        BY <1>1, <2>3, <3>4, FineIsSound, ContentsWith
      <4>2. QED BY <2>t, <4>1
    <3>6. Abstract!Seek(h, p)
      <4>1. ~(p <= Abstract!Size(f))
        BY <1>1, <1>4, <1>8
      <4>2. Contents(fs') = [Contents(fs) EXCEPT ![f] = IF p <= Abstract!Size(f) THEN @ ELSE Abstract!Put(@, Abstract!Size(f), p, 0, Zero)]
        BY <1>1, <1>8, <3>5, <3>c, <4>1 DEF Contents
      <4>3. QED BY <1>1, <1>f, <3>1, <4>2, ContentIs DEF Abstract!Seek
    <3>7. QED BY <1>1, <2>3, <2>t, <3>2, <3>6 DEF FineInv
  <2>6. CASE ~a.ok
    <3>1. handle' = handle /\ t.din[f].size = z
      BY <2>2, <2>3, <2>6
    <3>2. \A g \in File : t.din[g].size = fs.din[g].size /\ \A q \in Offset : At(t, g, q) = At(fs, g, q)
      BY <1>z, <2>3, <3>1
    <3>3. Contents(fs') = Contents(fs)
      <4>1. \A g \in File : ContentOf(t, g) = ContentOf(fs, g)
        BY <3>2, FineIsSound, ContentSame
      <4>2. QED BY <2>t, <4>1 DEF Contents
    <3>4. HandleIn' /\ PosIn'
      BY <2>t, <3>1, <3>2, HandleFacts DEF FineInv, HandleIn, PosIn
    <3>5. UNCHANGED Abstract!vars
      BY <3>1, <3>3, ContentIs DEF Abstract!vars
    <3>6. QED BY <1>1, <2>3, <2>t, <3>4, <3>5 DEF FineInv
  <2>7. QED BY <2>5, <2>6
<1>5. QED BY <1>2, <1>3, <1>4

\* FineInv is inductive while nobody truncates a file that is open, and each step is one
\* of FileData.
LEMMA Refines ==
  ASSUME FineInv, ~TruncatesShared, [Next]_vars
  PROVE  FineInv' /\ [Abstract!Next]_Abstract!vars
<1>s. UNCHANGED <<fs, handle>> => FineInv' /\ UNCHANGED Abstract!vars
  BY ContentIs DEF FineInv, HandleIn, PosIn, Abstract!vars
<1>1. CASE UNCHANGED vars
  BY <1>1, <1>s DEF vars
<1>2. CASE Next
  <2>1. PICK h \in Handle :
          \/ \E f \in File : OpenTruncates(h, f) \/ \E append \in BOOLEAN : Open(h, f, append)
          \/ Close(h) \/ Fsync(h)
          \/ \E n \in 1..BlockSize : Read(h, n) \/ \E x \in Byte \ {Zero} : Write(h, n, x)
          \/ \E p \in SeekTo : Seek(h, p)
    BY <1>2 DEF Next
  <2>2. ASSUME NEW f \in File, OpenTruncates(h, f) PROVE FineInv' /\ [Abstract!Next]_Abstract!vars
    BY <1>s, <2>2, OpenTruncatesRefines DEF Abstract!Next
  <2>3. ASSUME NEW f \in File, NEW append \in BOOLEAN, Open(h, f, append)
        PROVE  FineInv' /\ [Abstract!Next]_Abstract!vars
    BY <2>3, OpenRefines DEF Abstract!Next
  <2>4. CASE Close(h)
    BY <2>4, CloseRefines DEF Abstract!Next
  <2>5. CASE Fsync(h)
    BY <2>5, FsyncRefines
  <2>6. ASSUME NEW n \in 1..BlockSize, Read(h, n) PROVE FineInv' /\ [Abstract!Next]_Abstract!vars
    BY <2>6, ReadRefines DEF Abstract!Next, Abstract!Pos
  <2>7. ASSUME NEW n \in 1..BlockSize, NEW x \in Byte \ {Zero}, Write(h, n, x)
        PROVE  FineInv' /\ [Abstract!Next]_Abstract!vars
    BY <1>s, <2>7, WriteRefines DEF Abstract!Next
  <2>8. ASSUME NEW p \in SeekTo, Seek(h, p) PROVE FineInv' /\ [Abstract!Next]_Abstract!vars
    BY <2>8, SeekRefines DEF Abstract!Next, Abstract!Pos
  <2>9. QED BY <2>1, <2>2, <2>3, <2>4, <2>5, <2>6, <2>7, <2>8
<1>3. QED BY <1>1, <1>2

\* The indexed files on the disk are files of bytes: direct and indirect blocks, the clearing
\* of blocks, short writes and inodes that are written late do not show, as long as nobody
\* truncates a file that another descriptor has open.
THEOREM Refinement ==
  ASSUME ~TruncatesShared
  PROVE  Spec => Implements
<1>1. Init => FineInv
  BY InitFine DEF Init, FineInv, PosIn
<1>2. FineInv /\ [Next]_vars => FineInv' /\ [Abstract!Next]_Abstract!vars
  BY Refines
<1>3. Init => Abstract!Init
  <2> SUFFICES ASSUME Init PROVE Abstract!Init
    OBVIOUS
  <2>1. \A f \in File : ContentOf(fs, f) = <<>>
    <3> TAKE f \in File
    <3>1. fs.din[f].size = 0
      BY DEF Init, NoInode
    <3>2. 0..fs.din[f].size-1 = {}
      BY <3>1
    <3>3. ContentOf(fs, f) = [q \in {} |-> At(fs, f, q)]
      BY <3>2 DEF ContentOf
    <3>4. QED BY <3>3
  <2>2. Contents(fs) = [f \in File |-> <<>>]
    BY <2>1 DEF Contents
  <2>3. QED BY <2>2, ContentIs DEF Init, Abstract!Init
<1>4. QED BY <1>1, <1>2, <1>3, PTL DEF Spec, Implements, Abstract!Spec
==============================================================================
