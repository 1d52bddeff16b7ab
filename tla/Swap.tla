--------------------------------- MODULE Swap ---------------------------------
(* Page replacement: do_pgfault of kern/mm/vmm.c, the loop of alloc_pages, and   *)
(* kern/mm/swap.c with the managers swap_fifo.c, A5/swap_clock.c and             *)
(* A5/swap_lru.c, in the address space that check_swap sets up: one mm, pages    *)
(* 1..NPages that are all writable, and NFrames frames.  A page on disk is in    *)
(* the slot of its own number.                                                   *)
EXTENDS Integers, Sequences, FiniteSets, SequencesExt

CONSTANTS NPages, NFrames, Byte

SwapAssumption ==
  NFrames \in Nat \ {0} /\ NPages \in Nat /\ NPages > NFrames /\ Byte \subseteq 0..255

VPage == 1..NPages
Frame == 1..NFrames
Managers == {"fifo", "clock", "lru"}

VARIABLES
  sm,    \* which swap manager there is
  mm,    \* see Init
  last   \* the byte that was written to a page last, -1 when none was

vars == <<sm, mm, last>>

Unmapped == [kind |-> "none", frame |-> 0, A |-> FALSE, D |-> FALSE]
Swapped == [Unmapped EXCEPT !.kind = "swap"]

Resident(m) == {v \in VPage : m.pte[v].kind = "page"}
FreeFrames(m) == Frame \ {m.pte[v].frame : v \in Resident(m)}

\* the first page of the list that is in S, as its place
FirstOf(m, S) == Min({i \in DOMAIN m.ring : m.ring[i] \in S})

\* mutant: clean and dirty are not told apart
ClockBlind(m) ==
  LET fresh == {v \in Resident(m) : ~m.pte[v].A} IN
  IF fresh # {} THEN [at |-> FirstOf(m, fresh), passed |-> {}]
  ELSE [at |-> 1, passed |-> Resident(m)]

\* search_00_01_00_01, four rounds, the second one clears A: the place of the victim, and the pages whose A is cleared
Clock(m) ==
  LET class(a, d) == {v \in Resident(m) : m.pte[v].A = a /\ m.pte[v].D = d}
      until(i) == {m.ring[j] : j \in 1..(i - 1)}
  IN CASE class(FALSE, FALSE) # {} -> [at |-> FirstOf(m, class(FALSE, FALSE)), passed |-> {}]
       [] class(FALSE, FALSE) = {} /\ class(FALSE, TRUE) # {} ->
            LET i == FirstOf(m, class(FALSE, TRUE)) IN [at |-> i, passed |-> until(i)]
       [] OTHER ->
            [at |-> FirstOf(m, IF class(TRUE, FALSE) # {} THEN class(TRUE, FALSE)
                               ELSE class(TRUE, TRUE)),
             passed |-> Resident(m)]

\* _lru_swap_out_victim reads the first byte of every page: the smallest one, and of
\* those the oldest page
Lru(m) ==
  LET byte(v) == m.frame[m.pte[v].frame]
  IN FirstOf(m, {v \in Resident(m) : \A w \in Resident(m) : byte(v) <= byte(w)})

\* swap_out_victim: clock goes on behind the victim, the others keep their order
Victim(m) ==
  CASE sm = "fifo" -> [at |-> 1, passed |-> {}]
    [] sm = "lru" -> [at |-> Lru(m), passed |-> {}]
    [] sm = "clock" -> Clock(m)
RingAfter(l, i) ==
  IF sm = "clock" THEN SubSeq(l, i + 1, Len(l)) \o SubSeq(l, 1, i - 1) ELSE RemoveAt(l, i)

\* swap_out of one page
SwapOut(m) ==
  LET x == Victim(m)
      v == m.ring[x.at]
  IN [m EXCEPT !.disk[v] = m.frame[m.pte[v].frame],
               !.pte = [w \in VPage |-> IF w = v THEN Swapped
                                        ELSE [m.pte[w] EXCEPT !.A = @ /\ w \notin x.passed]],
               !.ring = RingAfter(@, x.at)]

\* alloc_page, which swaps out when there is no frame
WithFrame(m) == IF FreeFrames(m) = {} THEN SwapOut(m) ELSE m

\* mutant: what is on the disk is not read
LoadUnread(m, v, f) ==
  [m EXCEPT !.pte[v] = [kind |-> "page", frame |-> f, A |-> FALSE, D |-> FALSE],
            !.ring = Append(@, v)]

\* do_pgfault: a page that is new keeps what is in the frame; the copy on the disk is
\* of no use any more, 0
Load(m, v, f) ==
  [m EXCEPT !.frame[f] = IF m.pte[v].kind = "swap" THEN m.disk[v] ELSE @,
            !.disk[v] = 0,
            !.pte[v] = [kind |-> "page", frame |-> f, A |-> FALSE, D |-> FALSE],
            !.ring = Append(@, v)]

\* the access faults first if v is not in memory; alloc_page takes the first frame
Faulted(v) ==
  IF v \in Resident(mm) THEN mm
  ELSE LET m == WithFrame(mm) IN Load(m, v, Min(FreeFrames(m)))

Read(v) == mm' = [Faulted(v) EXCEPT !.pte[v].A = TRUE] /\ UNCHANGED <<sm, last>>

Write(v, b) ==
  /\ LET m == Faulted(v) IN
     mm' = [m EXCEPT !.pte[v].A = TRUE, !.pte[v].D = TRUE, !.frame[m.pte[v].frame] = b]
  /\ last' = [last EXCEPT ![v] = b] /\ UNCHANGED sm

Init ==
  /\ sm \in Managers
  /\ mm = [pte   |-> [v \in VPage |-> Unmapped],
           frame |-> [f \in Frame |-> 0],          \* the byte at the start of each frame
           disk  |-> [v \in VPage |-> 0],
           ring  |-> <<>>]                         \* the list of swappable pages, oldest first;
                                                   \* for the clock from its hand on
  /\ last = [v \in VPage |-> -1]

Next == \E v \in VPage : Read(v) \/ \E b \in Byte : Write(v, b)

Spec == Init /\ [][Next]_vars

------------------------------------------------------------------------------
Content(v) == IF mm.pte[v].kind = "page" THEN mm.frame[mm.pte[v].frame] ELSE mm.disk[v]

\* A page reads as it was written, whoever chooses the victims and however often it
\* went to the disk and came back.
ReadsBack == \A v \in VPage : last[v] # -1 => Content(v) = last[v]

\* Every frame belongs to one page, and the managers know each page in memory once.
FramesExact ==
  /\ \A v, w \in Resident(mm) : mm.pte[v].frame = mm.pte[w].frame => v = w
  /\ Len(mm.ring) = Cardinality(Resident(mm)) /\ Resident(mm) = Range(mm.ring)

\* The clock takes a page that was not used since its last round if there is one, and
\* of those that are alike in this one that need not have been written.
Used(x) == 2 * (IF mm.pte[x].A THEN 1 ELSE 0) + (IF mm.pte[x].D THEN 1 ELSE 0)
EvictsLeastUsed ==
  [][sm = "clock" => \A v \in Resident(mm) \ Resident(mm'), w \in Resident(mm) :
                       Used(v) <= Used(w)]_vars
=============================================================================
