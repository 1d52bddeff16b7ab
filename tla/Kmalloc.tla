------------------------------- MODULE Kmalloc -------------------------------
(* The kernel heap, kern/mm/kmalloc.c: small objects are cut first fit from a   *)
(* ring of free blocks in the order of their addresses, slobfree points into     *)
(* it, and objects of a page or more get pages of their own.  An address counts  *)
(* SLOB_UNITs.  The calls run one after the other: kernel code is not preempted. *)
EXTENDS Integers, Sequences, FiniteSets, SequencesExt

CONSTANTS
  PAGE_SIZE, SLOB_UNIT, BIGBLOCK,  \* in bytes; BIGBLOCK is sizeof(bigblock_t)
  NPages,                          \* what alloc_pages has, pages 1..NPages
  Size                             \* the sizes that are asked for

KmallocAssumption ==
  /\ {PAGE_SIZE, SLOB_UNIT, BIGBLOCK, NPages} \cup Size \subseteq Nat \ {0}
  /\ PAGE_SIZE % SLOB_UNIT = 0 /\ BIGBLOCK + SLOB_UNIT < PAGE_SIZE /\ SLOB_UNIT < BIGBLOCK

VARIABLES
  slob,       \* the ring of free blocks; the first one is *slobfree
  pages,      \* the pages that alloc_pages has left
  blocks,     \* the small objects, with their headers
  bigblocks,  \* the large ones: bb itself, its order and its first page
  halted      \* the kernel has stopped

vars == <<slob, pages, blocks, bigblocks, halted>>

SLOB_UNITS(size) == (size + SLOB_UNIT - 1) \div SLOB_UNIT
PageUnits == PAGE_SIZE \div SLOB_UNIT
Block(at, units) == [at |-> at, units |-> units]
Page(p) == Block(p * PageUnits, PageUnits)

\* the ring from its k-th block on, and the block behind that one
From(l, k) == SubSeq(l, k, Len(l)) \o SubSeq(l, 1, k - 1)
Behind(l, k) == l[(k % Len(l)) + 1]

\* mutant: a block that is cut is not made smaller
CutWhole(l, units) ==
  LET k == Min({i \in DOMAIN l : Behind(l, i).units >= units})
      cur == Behind(l, k)
  IN IF cur.units = units THEN RemoveAt(From(l, k), 2)
     ELSE ReplaceAt(From(l, k), 2, Block(cur.at + units, cur.units))

\* slob_alloc: what is left of the ring, and the object
Fits(l, units) == \E k \in DOMAIN l : Behind(l, k).units >= units
Found(l, units) == Min({i \in DOMAIN l : Behind(l, i).units >= units})
Cut(l, units) ==
  LET k == Found(l, units)
      cur == Behind(l, k)
  IN IF cur.units = units THEN RemoveAt(From(l, k), 2)
     ELSE ReplaceAt(From(l, k), 2, Block(cur.at + units, cur.units - units))
Object(l, units) == Block(Behind(l, Found(l, units)).at, units)

\* where slob_free puts b: between two blocks, or where the ring closes
Between(l, k, b) ==
  LET cur == l[k].at
      next == Behind(l, k).at
  IN (cur < b.at /\ b.at < next) \/ (cur >= next /\ (cur < b.at \/ b.at < next))

\* mutant: nothing is put together with the block in front
JoinBehindOnly(cur, b, rest) == <<cur, b>> \o rest

\* b and the block in front of it, as one when they touch
Join(cur, b, rest) ==
  IF cur.at + cur.units = b.at THEN <<Block(cur.at, cur.units + b.units)>> \o rest
  ELSE <<cur, b>> \o rest

\* slob_free
Put(l, b) ==
  LET r == From(l, Min({k \in DOMAIN l : Between(l, k, b)}))
  IN IF Len(r) > 1 /\ b.at + b.units = r[2].at
     THEN Join(r[1], Block(b.at, b.units + r[2].units), SubSeq(r, 3, Len(r)))
     ELSE Join(r[1], b, SubSeq(r, 2, Len(r)))

\* the ring and the pages after the search of slob_alloc, grown by a page if need be
Grown(units) ==
  IF Fits(slob, units) THEN {<<slob, pages>>}
  ELSE {<<Put(slob, Page(p)), pages \ {p}>> : p \in pages}

\* "assert( (size + SLOB_UNIT) < PAGE_SIZE )", the header counted twice
Asserted(size) == size + 2 * SLOB_UNIT < PAGE_SIZE
IsSmall(size) == size < PAGE_SIZE - SLOB_UNIT
UnitsFor(size) == SLOB_UNITS(IF IsSmall(size) THEN size + SLOB_UNIT ELSE BIGBLOCK)

\* find_order: halves the size until it is a page or less
Order(size) == Min({k \in 0..size : size \div (2 ^ k) <= PAGE_SIZE})

\* where alloc_pages finds so many pages
Runs(left, order) == {p \in left : p..(p + 2 ^ order - 1) \subseteq left}

KmallocSmall(size) ==
  /\ IsSmall(size) /\ Asserted(size)
  /\ \E g \in Grown(UnitsFor(size)) :
       /\ slob' = Cut(g[1], UnitsFor(size)) /\ pages' = g[2]
       /\ blocks' = blocks \cup {Object(g[1], UnitsFor(size))}
  /\ UNCHANGED <<bigblocks, halted>>

\* the assertion fails, or alloc_pages(1) finds no page and calls
\* swap_out(check_mm_struct) with NULL
Halts(size) ==
  /\ \/ IsSmall(size) /\ ~Asserted(size)
     \/ Grown(UnitsFor(size)) = {}
     \/ ~IsSmall(size) /\ Order(size) = 0 /\ \E g \in Grown(UnitsFor(size)) : g[2] = {}
  /\ halted' = TRUE /\ UNCHANGED <<slob, pages, blocks, bigblocks>>

\* kmalloc of a large object
KmallocBig(size) ==
  /\ ~IsSmall(size)
  /\ \E g \in Grown(UnitsFor(size)) : \E p \in Runs(g[2], Order(size)) :
       /\ slob' = Cut(g[1], UnitsFor(size))
       /\ pages' = g[2] \ (p..(p + 2 ^ Order(size) - 1))
       /\ bigblocks' = bigblocks \cup {[bb |-> Object(g[1], UnitsFor(size)),
                                       order |-> Order(size), page |-> p]}
  /\ UNCHANGED <<blocks, halted>>

\* several pages in a row are not there: bb is given back
KmallocFails(size) ==
  /\ ~IsSmall(size) /\ Order(size) > 0
  /\ \E g \in Grown(UnitsFor(size)) :
       /\ Runs(g[2], Order(size)) = {}
       /\ slob' = Put(Cut(g[1], UnitsFor(size)), Object(g[1], UnitsFor(size)))
       /\ pages' = g[2]
  /\ UNCHANGED <<blocks, bigblocks, halted>>

\* kfree; the header says how long the block is
KfreeSmall(b) ==
  /\ slob' = Put(slob, b) /\ blocks' = blocks \ {b}
  /\ UNCHANGED <<pages, bigblocks, halted>>

KfreeBig(big) ==
  /\ pages' = pages \cup big.page..(big.page + 2 ^ big.order - 1)
  /\ slob' = Put(slob, big.bb) /\ bigblocks' = bigblocks \ {big}
  /\ UNCHANGED <<blocks, halted>>

\* the arena, one unit that no object fits in
Init ==
  /\ slob = <<Block(0, 1)>>
  /\ pages = 1..NPages
  /\ blocks = {} /\ bigblocks = {} /\ halted = FALSE

Next ==
  /\ ~halted
  /\ \/ \E size \in Size :
          KmallocSmall(size) \/ KmallocBig(size) \/ KmallocFails(size) \/ Halts(size)
     \/ \E b \in blocks : KfreeSmall(b)
     \/ \E big \in bigblocks : KfreeBig(big)

Spec == Init /\ [][Next]_vars

------------------------------------------------------------------------------
Units(b) == b.at..(b.at + b.units - 1)
Free == {slob[i] : i \in DOMAIN slob}
BigPages(big) == big.page..(big.page + 2 ^ big.order - 1)

\* who has the unit u
Owners(u) ==
  {<<"free", b>> : b \in {x \in Free : u \in Units(x)}}
    \cup {<<"object", b>> : b \in {x \in blocks : u \in Units(x)}}
    \cup {<<"large", b>> : b \in {x \in bigblocks :
             u \in Units(x.bb) \/ u \div PageUnits \in BigPages(x)}}
    \cup {<<"page", p>> : p \in {x \in pages : u \in Units(Page(x))}}

\* Every unit of the heap has one owner: the free blocks, the objects, the large ones
\* with their nodes and the pages that are left never overlap, and none is lost.
HeapExact == \A u \in PageUnits..((NPages + 1) * PageUnits - 1) : Cardinality(Owners(u)) = 1

\* The ring goes up through the addresses and closes once, which is what the search
\* of slob_free relies on, and no two blocks that touch stay apart.
RingExact ==
  /\ Cardinality({k \in DOMAIN slob : slob[k].at >= Behind(slob, k).at}) = 1
  /\ \A x, y \in Free : x.at + x.units # y.at
=============================================================================
