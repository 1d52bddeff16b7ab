--------------------------------- MODULE Vmm ---------------------------------
(* Address spaces: the page tables of kern/mm/pmm.c, do_pgfault, dup_mmap and    *)
(* exit_mmap of kern/mm/vmm.c, as fork, exec and exit of kern/process/proc.c     *)
(* call them.  A page table has two levels below the page directory, and all     *)
(* three and the pages themselves are frames of alloc_page.  The list of vmas    *)
(* is the set of pages that it covers.                                           *)
EXTENDS Integers, FiniteSets, FiniteSetsExt

CONSTANTS
  Proc, NFrames, NPages, Byte,
  NPTEENTRY,      \* pages of a table, and tables of a table above
  Image,          \* what the segments of a program may cover
  Stack, Eager    \* the pages of a stack, and those that load_icode allocates

Frame == 1..NFrames
VPage == 0..NPages-1

VmmAssumption ==
  /\ {NFrames, NPages, NPTEENTRY} \subseteq Nat \ {0} /\ 0 \in Byte
  /\ Eager # {} /\ Eager \subseteq Stack
  /\ Stack \subseteq VPage /\ Image \subseteq SUBSET (VPage \ Stack)

VARIABLES
  mm,      \* of each process: its tables, pages and vmas
  free,    \* the frames that alloc_page has
  byte,    \* what is in each frame that is in use
  halted   \* there was no frame

vars == <<mm, free, byte, halted>>

\* the entries that get_pte goes through, and the one that it returns
PGDIR == <<"pgdir", 0>>
Path(v) ==
  <<<<"dir", v \div (NPTEENTRY * NPTEENTRY)>>, <<"table", v \div NPTEENTRY>>, <<"page", v>>>>

\* an mm: the frame of each entry that is valid, and the vmas
NoMm == [at |-> [e \in {} |-> 0], vma |-> {}]
Has(m) == PGDIR \in DOMAIN m.at
PagesOf(m) == {v \in VPage : <<"page", v>> \in DOMAIN m.at}
FramesOf(m) == {m.at[e] : e \in DOMAIN m.at}

\* alloc_page for the entry e of process p, unless e is valid.  Without a frame it
\* calls swap_out(check_mm_struct) with NULL, which halts the kernel.
Valid(s, p, e) == e \in DOMAIN s.mm[p].at
Give(s, p, e) ==
  IF Valid(s, p, e) \/ s.halted THEN s
  ELSE IF s.free = {} THEN [s EXCEPT !.halted = TRUE]
  ELSE LET f == Min(s.free)
           at == s.mm[p].at
       IN [s EXCEPT !.free = @ \ {f},
                    !.mm[p].at = [x \in DOMAIN at \cup {e} |-> IF x = e THEN f ELSE at[x]]]

\* get_pte with create, and a page
MapPage(s, p, v) ==
  LET entry == Path(v) IN Give(Give(Give(s, p, entry[1]), p, entry[2]), p, entry[3])

\* a loop over the pages V in the order of their addresses
ForPages(step(_, _), s, V) ==
  LET after[n \in 0..NPages] ==
        IF n = 0 THEN s
        ELSE IF n - 1 \in V THEN step(after[n - 1], n - 1) ELSE after[n - 1]
  IN after[NPages]

MapPages(s, p, V) == ForPages(LAMBDA t, v : MapPage(t, p, v), s, V)

\* the frame that a page of p has, and what is written to it
Put(s, p, v, b) == IF s.halted THEN s ELSE [s EXCEPT !.byte[s.mm[p].at[<<"page", v>>]] = b]

\* mutant: the page stays with the parent
CopyShares(s, p, q, v) ==
  LET t == MapPage(s, q, v) IN
  IF t.halted THEN t
  ELSE [t EXCEPT !.mm[q].at[<<"page", v>>] = t.mm[p].at[<<"page", v>>]]

\* mutant: the page of the child keeps what is in the frame
CopyBlank(s, p, q, v) == MapPage(s, q, v)

\* copy_range of one page that is there
Copy(s, p, q, v) ==
  LET t == MapPage(s, q, v) IN
  IF t.halted THEN t ELSE Put(t, q, v, t.byte[t.mm[p].at[<<"page", v>>]])

\* exit_mmap and put_pgdir give back the pages, the tables that the directory points
\* to, and the directory; exit_range does not go down to the tables below
Freed(m) == {m.at[e] : e \in {x \in DOMAIN m.at : x[1] # "table"}}
Drop(s, p) ==
  [s EXCEPT !.free = @ \cup Freed(s.mm[p]), !.mm[p] = NoMm,
            !.byte = [f \in Frame |-> IF f \in Freed(s.mm[p]) THEN 0 ELSE @[f]]]

Now == [mm |-> mm, free |-> free, byte |-> byte, halted |-> halted]

\* what a kernel that has halted leaves is of no interest
Becomes(s) ==
  /\ halted' = s.halted
  /\ IF s.halted THEN UNCHANGED <<mm, free, byte>>
     ELSE mm' = s.mm /\ free' = s.free /\ byte' = s.byte

\* load_icode: setup_pgdir, the segments with what the file says, and the stack
Load(s, p, image, b) ==
  LET dir == Give(s, p, PGDIR)
      full == MapPages(dir, p, image \cup Eager)
      read == ForPages(LAMBDA t, v : Put(t, p, v, b), full, image)
  IN [read EXCEPT !.mm[p].vma = image \cup Stack]

\* do_execve, from a kernel thread too
Exec(p, image, b) == Becomes(Load(Drop(Now, p), p, image, b))

\* load_icode cannot read the file any more after some segments, and do_exit follows
ExecFails(p, image) ==
  Becomes(LET dir == Give(Drop(Now, p), p, PGDIR)
          IN Drop(MapPages(dir, p, image), p))

\* do_exit
Exit(p) == Has(mm[p]) /\ Becomes(Drop(Now, p))

\* copy_mm with dup_mmap
Fork(p, q) ==
  /\ Has(mm[p]) /\ ~Has(mm[q])
  /\ LET dir == Give(Now, q, PGDIR)
         s == ForPages(LAMBDA t, v : Copy(t, p, q, v), dir, PagesOf(mm[p]))
     IN Becomes([s EXCEPT !.mm[q].vma = mm[p].vma])

\* a store, after do_pgfault if the page is not there
Write(p, v, b) ==
  /\ Has(mm[p]) /\ v \in mm[p].vma
  /\ Becomes(Put(MapPage(Now, p, v), p, v, b))

\* an access outside the vmas: "handle pgfault failed", of user mode too
WildAccess(p) ==
  /\ Has(mm[p]) /\ mm[p].vma # VPage
  /\ halted' = TRUE /\ UNCHANGED <<mm, free, byte>>

Init ==
  /\ mm = [p \in Proc |-> NoMm]
  /\ free = Frame /\ byte = [f \in Frame |-> 0]
  /\ halted = FALSE

Next ==
  /\ ~halted
  /\ \E p \in Proc :
       \/ \E image \in Image, b \in Byte : Exec(p, image, b)
       \/ \E image \in Image : ExecFails(p, image)
       \/ Exit(p) \/ WildAccess(p)
       \/ \E q \in Proc : Fork(p, q)
       \/ \E v \in VPage, b \in Byte : Write(p, v, b)

Spec == Init /\ [][Next]_vars

------------------------------------------------------------------------------
\* A frame has at most one place: one entry of one process, or the free list.  It may
\* have none: a table of the lowest level that Drop leaves behind (Reclaimed).
FramesOnce ==
  /\ \A p, q \in Proc : \A d \in DOMAIN mm[p].at, e \in DOMAIN mm[q].at :
       mm[p].at[d] = mm[q].at[e] => p = q /\ d = e
  /\ \A p \in Proc : FramesOf(mm[p]) \cap free = {}

\* Processes do not see each other's memory, and a child has copies: fork, a store and
\* exit are those of Spaces, and every other call changes the pages of one process.
Abstract == INSTANCE Spaces WITH
  val <- [p \in Proc |-> [v \in PagesOf(mm[p]) |-> byte[mm[p].at[<<"page", v>>]]]]
Agrees ==
  /\ Abstract!Next
  /\ \A p \in Proc :
       /\ \A q \in Proc : Fork(p, q) => halted' \/ Abstract!Fork(p, q)
       /\ \A v \in VPage, b \in Byte : Write(p, v, b) => halted' \/ Abstract!Write(p, v, b)
       /\ Exit(p) => Abstract!Exit(p)

\* "do_execve - call exit_mmap(mm)&put_pgdir(mm) to reclaim memory space of current
\* process" (proc.c:800): what no process has is free.
Reclaimed == free \cup UNION {FramesOf(mm[p]) : p \in Proc} = Frame
=============================================================================
