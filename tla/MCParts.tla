-------------------------------- MODULE MCParts --------------------------------
(* The parts of the kernel whose calls run to their ends with interrupts off,     *)
(* one part after the other in one state space: the initial state says which of   *)
(* them is used, the others stay as they begin.  get_pid of Pids is there         *)
(* without a prefix.                                                              *)
EXTENDS Competitors, Pids

CONSTANTS
  MaxSleep,                                             \* TimerList
  PAGE_SIZE, SLOB_UNIT, BIGBLOCK, HeapPages, Size,      \* Kmalloc
  SwapPages, SwapFrames, Byte,                          \* Swap
  Space, NFrames, UserPages, NPTEENTRY, Image, Stack, Eager,  \* Vmm
  NPages, MaxRequest, NULL                              \* Pmm

VARIABLES
  part,
  timer_list, woken,                            \* TimerList
  slob, k_pages, blocks, bigblocks, k_halted,   \* Kmalloc
  sm, s_mm, last,                               \* Swap
  mm, free, byte, halted,                       \* Vmm
  link, property, flagged, nr_free, held, got, topped,  \* Pmm
  pool, current, stride, priority               \* StrideHeap

T == INSTANCE TimerList
K == INSTANCE Kmalloc WITH NPages <- HeapPages, pages <- k_pages, halted <- k_halted
W == INSTANCE Swap WITH NPages <- SwapPages, NFrames <- SwapFrames, mm <- s_mm
V == INSTANCE Vmm WITH Proc <- Space, NPages <- UserPages
P == INSTANCE Pmm
H == INSTANCE StrideHeap

ASSUME PartsAssumption ==
  /\ PidsAssumption /\ T!TimerListAssumption /\ K!KmallocAssumption
  /\ W!SwapAssumption /\ V!VmmAssumption /\ P!PmmAssumption

pids == <<last_pid, next_safe, proc_list, le>>
timers == <<timer_list, woken>>
heap == <<slob, k_pages, blocks, bigblocks, k_halted>>
swap == <<sm, s_mm, last>>
spaces == <<mm, free, byte, halted>>
frames == <<link, property, flagged, nr_free, held, got, topped>>
policy == <<pool, current, stride, priority>>
partsVars == <<part, pids, timers, heap, swap, spaces, frames, policy>>

PartsInit ==
  /\ part \in {"pids", "timers", "heap", "swap", "spaces", "frames", "policy"}
  /\ Init /\ T!Init /\ K!Init /\ W!Init /\ V!Init /\ P!Init /\ H!Init
  /\ part # "swap" => sm = "fifo"

\* a call of one of them
Numbers(step) ==
  /\ part = "pids" /\ step
  /\ UNCHANGED <<part, timers, heap, swap, spaces, frames, policy>>

PartsNext ==
  \/ Numbers(Next)
  \/ /\ part = "timers" /\ T!Next
     /\ UNCHANGED <<part, pids, heap, swap, spaces, frames, policy>>
  \/ /\ part = "heap" /\ K!Next
     /\ UNCHANGED <<part, pids, timers, swap, spaces, frames, policy>>
  \/ /\ part = "swap" /\ W!Next
     /\ UNCHANGED <<part, pids, timers, heap, spaces, frames, policy>>
  \/ /\ part = "spaces" /\ V!Next
     /\ UNCHANGED <<part, pids, timers, heap, swap, frames, policy>>
  \/ /\ part = "frames" /\ P!Next
     /\ UNCHANGED <<part, pids, timers, heap, swap, spaces, policy>>
  \/ /\ part = "policy" /\ H!Next
     /\ UNCHANGED <<part, pids, timers, heap, swap, spaces, frames>>

\* FairSpec of Pids; nothing is owed by the other parts
PartsSpec == PartsInit /\ [][PartsNext]_partsVars /\ WF_partsVars(Numbers(GetPid))

\* Of the kernel heap, see Kmalloc: every unit has one owner, and the ring of free
\* blocks is in order and without two blocks that touch.
HeapExact == part = "heap" => K!HeapExact
RingExact == part = "heap" => K!RingExact

\* Of page replacement, see Swap: pages read as they were written, in frames of their
\* own, and the clock takes the page that was used least.
SwapReadsBack == part = "swap" => W!ReadsBack /\ W!FramesExact
EvictsLeastUsed == W!EvictsLeastUsed

\* Of address spaces, see Vmm: a frame has at most one place, an entry of one process or
\* the free list, and processes do not see each other's memory.
FramesOnce == part = "spaces" => V!FramesOnce
SpacesImplement == V!Abstract!Init /\ [][part = "spaces" => V!Agrees]_spaces

\* Of the page allocator, see Pmm: until a block is freed above every free one, list and
\* pages add up, and it gives the lowest run.  What is freed after that breaks both.
PagesExact == part = "frames" /\ ~topped => P!TypeOK /\ P!ListExact /\ P!PagesExact
PagesImplement == P!Abstract!Init /\ [][part = "frames" /\ ~topped => P!Abstract!Next]_frames

\* Of the timer list, see TimerList: everybody is woken by the tick that was asked for,
\* and the first timer is in the future.
TimersImplement == T!Implements /\ [](T!TypeOK /\ T!HeadInFuture)

\* Of the stride policy, see StrideHeap: the heap gives a process with the least stride.
StrideImplements == H!Abstract!Init /\ [][part = "policy" => H!Abstract!Next]_policy
=============================================================================
