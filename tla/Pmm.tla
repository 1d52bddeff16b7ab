--------------------------------- MODULE Pmm ---------------------------------
(* The first-fit allocator of physical pages, kern/mm/default_pmm.c: one      *)
(* circular doubly linked list of free blocks, threaded through the first    *)
(* page of each block, modelled pointer by pointer.  A stale pointer keeps   *)
(* its value, as list_del leaves it (libs/list.h).                            *)
(* Every call runs to its end with interrupts off (kern/mm/pmm.c:51-80), so  *)
(* one call is one action; a call whose loop would never end has no step.    *)
(* A block freed above every free one is linked to itself (see Insert).  From *)
(* then on the list is not the one the other calls expect: what this module   *)
(* states of the list, of the pages and of the refinement is stated of the    *)
(* time before that, ~topped, and HandedOutOnce shows what can come after it. *)
(* Not modelled: the reference count and the Reserved flag of a page; and     *)
(* alloc_pages(1), when this allocator has nothing, calls swap_out with an mm *)
(* of NULL and never returns (see Vmm.tla and Kmalloc.tla).                   *)
EXTENDS Integers, FiniteSets, FiniteSetsExt

CONSTANTS
  NPages,      \* pages handed to init_memmap, numbered by address
  MaxRequest,  \* the largest n of alloc_pages and free_pages
  NULL         \* no page

PmmAssumption ==
  /\ NPages \in Nat \ {0}
  /\ MaxRequest \in 1..NPages
  /\ NULL \notin Int

Page == 0..NPages-1
Head == NPages              \* &free_list
Node == Page \cup {Head}

Block(b, n) == b..b+n-1

VARIABLES
  link,      \* the page_link of every node: its next and its prev
  property,  \* of the first page of a free block: the pages in the block
  flagged,   \* the pages with PageProperty
  nr_free,
  held,      \* the blocks callers hold: <<first page, number of pages>>
  got,       \* what the last call of alloc_pages returned
  topped     \* history: a block was freed above every free one; no guard reads it

vars == <<link, property, flagged, nr_free, held, got, topped>>

------------------------------------------------------------------------------
(* The list. *)

\* __list_add
Between(l, e, prev, next) ==
  [next |-> [l.next EXCEPT ![prev] = e, ![e] = next],
   prev |-> [l.prev EXCEPT ![next] = e, ![e] = prev]]

ListAdd(l, at, e) == Between(l, e, at, l.next[at])
ListAddBefore(l, at, e) == Between(l, e, l.prev[at], at)

\* list_del: the node's own pointers stay
ListDel(l, e) ==
  [next |-> [l.next EXCEPT ![l.prev[e]] = l.next[e]],
   prev |-> [l.prev EXCEPT ![l.next[e]] = l.prev[e]]]

\* the nodes that the loops meet, one list_next after the other
Hop[k \in 0..NPages+1] == IF k = 0 THEN Head ELSE link.next[Hop[k - 1]]

\* when a loop leaves: at the head, or at the first node of S
Stops(S) == {k \in 1..NPages+1 : Hop[k] \in S \cup {Head}}
Met(S) == Hop[Min(Stops(S))]

------------------------------------------------------------------------------
(* default_alloc_pages *)

\* mutant: refuses a block of just n pages
FitsMore(n) == {p \in Page : property[p] > n}
Fits(n) == {p \in Page : property[p] >= n}

\* list_del, then list_add(prev, &(p->page_link))
Rest(l, page, p) == ListAdd(ListDel(l, page), l.prev[page], p)

RestSize(page, n) == property[page] - n

Alloc(n) ==
  /\ n <= nr_free
  /\ Stops(Fits(n)) # {}
  /\ LET page == Met(Fits(n))
         rest == page + n
     IN /\ page # Head
        /\ IF property[page] > n
           THEN /\ property' = [property EXCEPT ![rest] = RestSize(page, n)]
                /\ flagged' = (flagged \cup {rest}) \ {page}
                /\ link' = Rest(link, page, rest)
           ELSE /\ flagged' = flagged \ {page}
                /\ link' = ListDel(link, page)
                /\ UNCHANGED property
        /\ held' = held \cup {<<page, n>>}
        /\ got' = page
  /\ nr_free' = nr_free - n
  /\ UNCHANGED topped

AllocFails(n) ==
  /\ \/ n > nr_free
     \/ Stops(Fits(n)) # {} /\ Met(Fits(n)) = Head
  /\ got' = NULL
  /\ UNCHANGED <<link, property, flagged, nr_free, held, topped>>

------------------------------------------------------------------------------
(* default_free_pages *)

\* Where the loop puts base in a list that is not empty: before the first page
\* above it, or behind the last node.  The loop does not leave once it has put
\* base behind the last node: it meets base itself next, at the end of the list
\* again, and adds it behind itself.
Insert(base) ==
  LET above == {p \in Page : base < p}
      last == {p \in Page : link.next[p] = Head}
      le == Met(above \cup last)
  IN IF le \in above THEN ListAddBefore(link, le, base)
     ELSE LET l == ListAdd(link, le, base) IN ListAdd(l, base, base)

\* mutant: the length of the second block is lost
JoinLoses(h, base, p) ==
  [link |-> ListDel(h.link, p), property |-> h.property, flagged |-> h.flagged \ {p}]

\* The heap after the block at p was joined to the block at base in front of it.
Join(h, base, p) ==
  [link |-> ListDel(h.link, p),
   property |-> [h.property EXCEPT ![base] = @ + h.property[p]],
   flagged |-> h.flagged \ {p}]

Adjacent(h, base, p) == base # Head /\ p # Head /\ base + h.property[base] = p

\* first the block before base, then the one behind what base has become
Merge(h, base) ==
  LET low == h.link.prev[base]
      h1 == IF Adjacent(h, low, base) THEN Join(h, low, base) ELSE h
      base1 == IF Adjacent(h, low, base) THEN low ELSE base
      high == h1.link.next[base1]
  IN IF Adjacent(h1, base1, high) THEN Join(h1, base1, high) ELSE h1

\* the loop puts base behind the last node
OnTop(base) == link.next[Head] # Head /\ \A p \in flagged : p < base

Free(base, n) ==
  /\ <<base, n>> \in held
  /\ Block(base, n) \cap flagged = {}
  /\ \/ link.next[Head] = Head
     \/ Stops({p \in Page : base < p \/ link.next[p] = Head}) # {}
  /\ LET h == [link |-> IF link.next[Head] = Head THEN ListAdd(link, Head, base)
                        ELSE Insert(base),
               property |-> [property EXCEPT ![base] = n],
               flagged |-> flagged \cup {base}]
         m == Merge(h, base)
     IN link' = m.link /\ property' = m.property /\ flagged' = m.flagged
  /\ nr_free' = nr_free + n
  /\ held' = held \ {<<base, n>>}
  /\ got' = NULL
  /\ topped' = (topped \/ OnTop(base))

------------------------------------------------------------------------------
\* default_init, then page_init's one call of default_init_memmap: one free block
Init ==
  /\ LET empty == [next |-> [x \in Node |-> x], prev |-> [x \in Node |-> x]]
     IN link = ListAdd(empty, Head, 0)
  /\ property = [p \in Page |-> IF p = 0 THEN NPages ELSE 0]
  /\ flagged = {0}
  /\ nr_free = NPages
  /\ held = {}
  /\ got = NULL
  /\ topped = FALSE

Next == \E n \in 1..MaxRequest :
          Alloc(n) \/ AllocFails(n) \/ \E b \in Page : Free(b, n)

Spec == Init /\ [][Next]_vars

------------------------------------------------------------------------------
TypeOK ==
  /\ link \in [next : [Node -> Node], prev : [Node -> Node]]
  /\ property \in [Page -> 0..NPages]
  /\ flagged \subseteq Page
  /\ nr_free \in 0..NPages
  /\ held \subseteq Page \X (1..MaxRequest)
  /\ got \in Page \cup {NULL}
  /\ topped \in BOOLEAN

FreeBlock(p) == Block(p, property[p])

\* The list holds exactly the pages with PageProperty, in the order of their
\* addresses and linked both ways, and no two of its blocks touch: what the
\* search of default_alloc_pages and both merges of default_free_pages rely on.
\* As long as ~topped: a block that is freed on top comes to be its own neighbour.
Following(x) == {p \in flagged : x = Head \/ p > x}
ListExact ==
  \A x \in flagged \cup {Head} :
    LET y == IF Following(x) = {} THEN Head ELSE Min(Following(x))
    IN /\ link.next[x] = y
       /\ link.prev[y] = x
       /\ x # Head /\ y # Head => x + property[x] < y

\* Every page is in one block, held or free, and nr_free is the sum over the free
\* ones (the walks of default_check, default_pmm.c:236-243 and 288-295).  As long as
\* ~topped: later a block can be free and held at once.
PagesExact ==
  /\ \A p \in Page : Cardinality({h \in held : p \in Block(h[1], h[2])})
                     + Cardinality({b \in flagged : p \in FreeBlock(b)}) = 1
  /\ nr_free = Cardinality(UNION {FreeBlock(b) : b \in flagged})

\* alloc_pages returns the lowest run of pages no caller holds, and NULL only
\* when there is none, which needs the blocks to be merged as far as they can be.
\* As long as ~topped: behind a block that is freed on top, the merge with the block
\* below is skipped, and a run of free pages is not found.
Abstract == INSTANCE Frames
Implements == Abstract!Init /\ [][~topped => Abstract!Next]_vars

\* "assert(p0 != p1 && p0 != p2 && p1 != p2)" (default_pmm.c:189): alloc_pages
\* hands out no page of a block that a caller still holds, whatever was freed before.
Taken(n) == got' # NULL /\ nr_free' = nr_free - n
HandedOutOnce ==
  [][\A n \in 1..MaxRequest : Taken(n) =>
       \A h \in held : Block(got', n) \cap Block(h[1], h[2]) = {}]_vars
=============================================================================
