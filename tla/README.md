# A TLA+ model of the course kernel

The repository holds the laboratories and assignments of an operating-systems course: the same
small RISC-V kernel at about ten stages (`Lab/`, `Assignment/`) and some stand-alone C exercises.
The most complete stage is **`Assignment/A9/Week15`**; it is the reference of this project, and
every path below is relative to it unless it starts with `src/`. The repository has no test suite.
What it says about itself is in comments, in assertions and in the `check_*` routines that the
kernel runs at boot.

All modules are plain TLA+. `tlc -config X.cfg M` runs a model, `tlapm M.tla` checks a proof module;
`PROJECT.json` lists the runs, the mutants that each property must catch, the source lines of every
definition, the findings and the theorems.

## The system

| part | source | state it keeps | operations |
|---|---|---|---|
| process life cycle | `kern/process/proc.c` | state, wait_state, flags, parent and sibling links, pid, nr_process | fork, exec, exit, wait, kill, yield, sleep, init_main, cpu_idle |
| scheduler core, timers | `kern/schedule/sched.c` | current, need_resched, timer list | wakeup_proc, schedule, add_timer, del_timer, run_timer_list |
| stride policy | `kern/schedule/default_sched_stride.c`, `libs/skew_heap.h` | skew heap, strides, priorities, slices | enqueue, dequeue, pick_next, proc_tick |
| traps | `kern/trap/trap.c` | trap frames, ticks | timer interrupt, system calls, epilogue |
| semaphores, wait queues | `kern/sync/sem.c`, `wait.c` | value, queue of waiters | up, down, try_down |
| monitor | `kern/sync/monitor.c` | mutex, next, next_count, condition variables | cond_wait, cond_signal |
| philosophers | `kern/sync/check_sync.c` | state_sema, state_condvar | take and put forks, twice |
| physical pages | `kern/mm/default_pmm.c`, `pmm.c` | free list, nr_free, page flags | init_memmap, alloc_pages, free_pages |
| virtual memory | `kern/mm/vmm.c` | areas of an address space | mmap, page fault, dup, exit |
| replacement | `kern/mm/swap*.c`, `src/Assignment/A5` | list of swappable pages | map_swappable, victim; FIFO, clock, LRU |
| kernel heap | `kern/mm/kmalloc.c` | SLOB free list | kmalloc, kfree |
| files, VFS | `kern/fs/file.c`, `fs/vfs` | descriptor tables, inode counts | open, close, dup, lookup, fork and exit of the table |
| simple file system | `kern/fs/sfs` | block map, inode cache, free map | load, create, truncate, sync |
| devices | `kern/fs/devs`, `kern/driver` | keyboard buffer, disk | read and write, interrupts |
| assignment 8 | `src/Assignment/A8/Week13/kern/sync` | condition variables that are semaphores, index, milk | cond_wait, cond_signal; three workers; two buyers and two drinkers |
| assignment 7 | `src/Assignment/A7/milk.c` | POSIX semaphores, mutex, num | three buyers and the son |
| other assignments | `src/Assignment/A4`, `A6` | best-fit list; other policies | |

How they interact. There is one hart and **the kernel is not preemptible**: control changes hands
only where code calls `schedule()`. A system call runs with interrupts off up to that point. A
kernel thread (init, idle, the philosophers) runs with interrupts on, so a tick can come between two
of its instructions, and can wake processes and set `need_resched`, but it does not switch. A
tick in user mode ends in the trap epilogue, which makes a killed process exit and then
preempts. Processes meet in shared fields: a parent sleeps with `wait_state = WT_CHILD` until a
child's `do_exit` or a `do_kill` wakes it, a sleeper until `run_timer_list` does, a thread at a
semaphore until `up` hands it over. `do_exit` also moves the children to init, which may be asleep.

What is hard here, part by part, and what makes it right:

* **Life cycle**: wake-ups that come from three places, by what `wait_state` says; a kill at any
  moment; orphans handed to a sleeping init; a failing fork. Right when the queue, the wait states,
  the timers and the family tree agree and no wake-up is lost.
* **Timers**: a list of differences that other sleepers cut up and glue together. Right when each
  sleeper is woken by its own tick.
* **Stride policy**: strides wrap and are compared as signed differences. Right when the process
  picked has the least true stride.
* **Monitor and semaphores**: a signaller gives the monitor away and must get it back; permits are
  handed over without being counted. Right when one thread is inside, and no signal is lost.
* **Page allocator**: pointers of a circular list that every order of frees must leave sorted and
  merged. Right when no page has two owners and a fitting run is always found.
* **Numbers of processes**: a search that begins again at every collision. Right when no number in use is given and the search ends.
* **Kernel heap, address spaces, replacement**: units, frames and pages that change hands between
  calls, tables three levels deep, victims chosen by bits that other accesses set. Right when everything has one
  owner and reads as it was written.
* **Open files**: counts through failing paths, forks and the descriptors of dead processes. Right when the
  counts are those of the table and a closed file is on the disk.
* **File system**: blocks that pass between files, a disk that fills up in the middle of a call, an inode that is
  written back only when it is dirty. Right when a file is an array of bytes.
* **Keyboard**: two rings at their limits, readers that are woken together and killed. Right when nothing is
  lost short of an overrun and nobody sleeps beside characters.
* **Condition variables of assignment 8**: signals that are remembered, a mutex that nobody took. Right when
  the programs do what they print in spite of it.

## The modules

| module | what it is |
|---|---|
| `Proc` | life cycle, scheduler core, tick, trap epilogue, init_main, idle |
| `MCProc`, `ProcProofs` | the symmetry set for TLC; safety proved |
| `Pids` | `get_pid` |
| `Timers` ← `TimerList` | a timer per process; the list of differences that implements it |
| `Competitors` | the constants of the policy and what is assumed of them |
| `Stride` ← `StrideHeap` | unbounded strides and a set; wrapped strides and the skew heap that implement it |
| `Frames` ← `Pmm` | an ideal first-fit allocator; the linked list of `default_pmm.c` |
| `Spaces` ← `Vmm` | memories that are not shared; page tables and frames that implement them |
| `Swap` | page faults, swap_out, and the managers FIFO, clock and LRU |
| `Kmalloc` | the SLOB heap and large objects |
| `OpenFiles` ← `Vfs` | tables of descriptors; counted and cached inodes that implement them |
| `MCVfs`, `VfsProofs` | the descriptors for TLC; counts, write-back and refinement proved |
| `FileData` ← `Sfs` | arrays of bytes with positions; blocks, free map and disk inodes that implement them |
| `MCSfs`, `SfsProofs` | the symmetry set for TLC; blocks, reads and refinement proved |
| `Stdin` | the console ring, the buffer of stdin, the tick and the readers |
| `Ring` | the table of `check_sync.c`: philosophers and neighbours |
| `Semaphore` | `up` and `down` as operators on a record |
| `Philosophers` ← `PhilMonitor`, `PhilSema` | the abstract table; the two programs that implement it |
| `PhilSemaProofs` | safety and refinement of the philosophers with semaphores |
| `Bikes`, `Milk` | the exercises of assignment 8 on their condition variables |
| `Fridge` | the fridge of assignment 7 |
| `MCSync`, `MCParts` | several of these modules in one run each, see below |
| `MCSyncProofs` | the monitor, the bicycle line, the milk and the keyboard proved; what is proved of `PhilSema` holds in `MCSync` |
| `MCPartsProofs`, `HeapProofs` | the parts of `MCParts` proved, the two heaps in a module of their own |
| `Lemmas` | lemmas that several of these proofs use |

**Proc.** A variable per field of `proc_struct`, plus `pc`, the place where a process will resume.
One action is one handler up to the `schedule()` it ends in: `Fork` is all of `do_fork`, `ForkFails`
its exits through the cleanup labels, `Exit` is `do_exit` with its hand-over of children and every wake-up
it makes, `Wait`/`WaitResumes` are the two sides of the sleep in `do_wait`, `SleepArms`,
`SleepSchedules` and `SleepResumes` cut `do_sleep` where a tick makes a difference, `TrapExits`, `TrapReschedules` and
`TrapReturns` are the epilogue. `runq` counts how often a process is linked, so that a double link is a
state and not an impossibility. Timers are absolute here. `schedule()` picks any queued process. An
assertion that fails sets `halt`. Allocation failures are a choice; `exec` is one step (its file
reads may block on semaphores, which is not modelled). Pids are in `Pids`, address spaces in `Vmm`, files in
`Vfs`; the sibling pointers are not there.

**TimerList.** A sequence of `[proc, expires]`. `Add`, `Del` and `Tick` are `add_timer`, `del_timer`
and `run_timer_list`; the refinement maps a process to the sum of the differences up to its timer.
`Proc` uses what `Timers` promises.

**StrideHeap.** `pool` is the tree; `Merge` and `Insert` are the functions of `skew_heap.h`. `stride` is the
unwrapped sum of passes, and the code's field is `stride % Range`. `MaxGap` is the one assumption: a
process starts or comes back only while its stride is that close to the strides of those that
compete. Removal from the middle of the heap is left out, because `schedule()` removes only what
`pick_next` returned, the root.

**Pmm.** `link.next` and `link.prev` of every node, also those `list_del` has left behind. A loop over the
list is the sequence `Hop` of nodes that it meets; a loop that meets neither the head nor what it
looks for has no next state. Callers free whole blocks (only `default_check` frees a part of one), in any order. `topped` is
a history variable that no guard reads: a block was freed above every free one. The code links such a block to itself (finding
`pmm_top`), so what is stated of the list, of the pages and of the refinement is stated of the time before. The runs go on after that.

**PhilMonitor, PhilSema.** A step is one philosopher up to its next semaphore operation or its next
read of shared state. The kernel itself would switch only where a thread blocks; the model lets any
thread that is not blocked take the next step, which includes the kernel's runs and those of a
preemptible kernel. `Test` takes the exits of `cond_signal` as arguments, since it is called from
three places.

**Pids.** One step per process that the search of `get_pid` passes. `next_safe` and `last_pid` are the
static variables of the code, `le` the place in `proc_list`, which has the youngest process first.

**Vmm.** A process has frames for its directory, for the tables of the two levels below and for its pages;
`Give` is `alloc_page`, `MapPage` is `get_pte` with its three levels. `Exec`, `ExecFails`, `Fork`, `Exit` and `Write` are
`load_icode`, its error path, `dup_mmap`, `exit_mmap` with `put_pgdir`, and a store with the page fault before it.
Want of a frame and an access outside the areas halt the kernel, as they do in the code. The areas are the set of the
pages that they cover.

**Swap.** The world of `check_swap`: one address space with more pages than frames. `Victim` is
`swap_out_victim` of the manager that the initial state chose; the clock's four rounds are one
expression that tells the victim and the pages whose A bit the second round cleared.

**Kmalloc.** `slob` is the ring, turned so that its first block is `*slobfree`. `Cut` and `Put` are `slob_alloc` and
`slob_free`. `Halts` has the two ways in which a call stops the kernel.

**Vfs.** Every call on files is one action, because no call blocks while it holds a lock. An inode has its
two counts, the disk inode in memory and on the disk, and its dirty flag; `Closed(i, k)` is `vfs_close`, k times. `Exit`
leaves the descriptors where they are, since `do_exit` does. `OpenExists` is the path that loses a reference;
`leaked` counts these, so that `CountsExact` says that this is the only loss.

**Sfs.** `Get` is `sfs_bmap_get_nolock` with its error path, `Load` appends a block, `Shrink` takes the last one away;
the loops of `sfs_truncfile` are `Grown` and `Shrunk`, that of `sfs_io_nolock` is `Moved`: functions of the number of steps, so that a disk
that fills up stops a call where the code stops. `Reclaimed` forgets the inode in memory: a change that did not mark it dirty is lost there.
`TruncatesShared` says whether a file may be truncated while another descriptor has it open.

**Stdin.** The n-th character typed is n, so that its order is known. `Tick` is a timer interrupt that finds some new
characters with the firmware: they fill the console ring, and one goes on to the buffer of stdin. `Reads` and
`Resumes` are the two sides of the sleep in `dev_stdin_read`; `overrun` is set where a ring is written over.

**Bikes, Milk, Fridge.** One step per operation on a lock, semaphore or shared variable.

**MCSync, MCParts.** A sum of independent specifications: the initial state chooses one of them (`program`,
`part`), and only that one moves. The module that is EXTENDED keeps its names, the others are instances. What is
checked of each is what a run of its own would check; the sums keep the number of runs small.

## What the runs show

| run | module, configuration | bounds | what it checks |
|---|---|---|---|
| `proc` | `MCProc`, `MCProc.cfg` | 3 processes besides idle and init, `MaxProcess` 5, slice 1, sleep ≤ 2, symmetry | six invariants of the life cycle |
| `proc_live` | `MCProc`, `MCProcLive.cfg` | 2 processes, sleep 1 | orphans are reaped, sleepers return, an interrupted process exits |
| `sync` | `MCSync`, `MCSync.cfg` | 4 philosophers, 2 rounds; ≤ 2 signals kept; 2 trips per buyer; keyboard rings of 3 and 2, 4 characters, 2 readers of ≤ 3 | mutual exclusion, counters, no signal lost or missed, two refinements; the exercises; the order of the characters; everybody finishes or goes on |
| `parts` | `MCParts`, `MCParts.cfg` | 6 numbers for 5 processes; 3 sleepers, ≤ 4 ticks; 3 pages of 5 units; 3 pages in 2 frames; 2 processes, 14 frames, 3 pages; 4 pages, requests ≤ 2; 3 processes, 3-bit strides | numbers, heap, swap, frames, page lists (until a block is freed on top); four refinements, that of `Frames` with the same limit |
| `vfs` | `MCVfs`, `MCVfs.cfg` | 2 processes, 2 descriptors, 2 directories, 1 file, 1 lost reference | counts, write-back, `OpenFiles` is implemented |
| `sfs` | `MCSfs`, `MCSfs.cfg` | 2 files, 2 handles, 3 blocks of 2 bytes, 1 direct and 2 indirect entries, symmetry | blocks have one owner, `FileData` is implemented |
| `proc_kill` | `MCProc`, `MCProcKill.cfg` | 2 processes | **violated**: a killed process exits |
| `pmm_top` | `Pmm`, `MCPmmTop.cfg` | 5 pages, requests ≤ 2 | **violated**: no page is handed out twice |
| `stride_gap` | `StrideHeap`, `MCStrideHeapGap.cfg` | any gap | **violated**: the least stride is picked |
| `vfs_readers` | `MCVfs`, `MCVfsReaders.cfg` | 1 process | **violated**: a file changes only while somebody has it open for writing |
| `sfs_shared` | `MCSfs`, `MCSfsShared.cfg` | 1 file, 2 handles, 8 blocks | **violated**: no assertion fails |
| `vmm_exit` | `Vmm`, `MCVmmExit.cfg` | 1 process | **violated**: what no process has is free |

Why the bounds are enough to be interesting. Three processes besides init give a parent, a
child and a bystander that kills either, with a grandchild to hand over; the table is full when all
exist, so fork also fails at the limit. Four philosophers have neighbours on both sides and one opposite; two rounds make a
permit that was left over from the first matter in the second. Rings of two and three places wrap, fill and overrun within
four characters, and two readers compete for them. Six numbers for four processes wrap with some in use. Three sleepers
within four ticks are two with equal deadlines and a third on either side. Three pages of five units make blocks of several
lengths, ring closures between pages and large objects of one and two pages. Two frames for three pages evict at every fault but the first two.
Fourteen frames are two full address spaces and the tables that are lost; when they run out the kernel halts. Four
pages hold two free blocks with an allocated one between them and a fourth page beside, so both merges, either merge and none happen, and blocks
are freed on top. A stride of three bits wraps
inside the bound, and a gap of 3 is the widest that a signed difference of three bits can carry. Two
descriptors of two processes share an inode in every way, across fork, dup and exit. Three blocks are fewer than one file may have with its indirect
block (four), so the disk runs full in every place of a call, and a transfer of one or two bytes starts, ends and
straddles at block boundaries.

Fairness. `Proc!Fairness` says that the clock interrupts again and again, that kernel code
goes on, and that a process that is queued again and again is picked. The last is what a
scheduling policy is for; `stride_gap` shows the limit of the one in the code. User programs get no
fairness: they may compute for ever. In `MCSync` a thread that is not blocked takes its next step: `Turn(t)` is
the step of thread t of the program that was chosen, and each of them is weakly fair. Of the keyboard, readers that are
ready run and the timer ticks; nothing says that anybody types. In `MCParts` only the search of `get_pid` is owed a step. The
other parts are calls that return at once, so no liveness is stated for them.

Deadlock is checked in `proc`, `proc_live` and `sync`, where `Halted` and `AllDone` are the states in which the program has ended.
It is not checked where the system may stop: a kernel that has halted (`parts`, `sfs`), or that has no process left
(`vfs`).

### Findings

* `pmm_top`: the branch of the insertion loop that adds a freed block **behind the last block**
  (`kern/mm/default_pmm.c:149`) has no `break`. The loop goes on, meets the block as the new last
  one and adds it behind itself. Its `prev` is then the block itself and the merge with the block below is
  skipped. The damage stays hidden while the first block is what gets allocated next, because unlinking that one
  repairs the pointer; when the block is taken from behind a smaller one it stays on the list and is
  handed out again. The boot-time checks free blocks on top too
  (`kern/mm/default_pmm.c:205-207` and `227-229`), but take the lowest one first afterwards. The same loop is in every snapshot but `src/Lab/lab7` and in
  `src/Assignment/A4`.
* `proc_kill`: `trap()` tests `PF_EXITING` before it preempts and not after, and `do_wait` only after it
  has slept. A process that is killed while it is preempted there goes back to user mode and may then
  sleep in `wait` for ever.
* `stride_gap`: new processes start at stride 0 and sleepers keep theirs, so the gap that the signed
  comparison needs is not kept by the code; beyond it the process with the greater stride is picked.
* `vfs_readers`: `file_seek` behind the end lengthens a file through `sfs_tryseek`, also through a descriptor that is open
  for reading only.
* `sfs_shared`: a file emptied through one descriptor leaves the position of another one behind the end; the next
  write there fails the assertion of `sfs_bmap_load_nolock` (`kern/fs/sfs/sfs_inode.c:356`), and the kernel stops. An
  open that truncates also runs into the assertion of `sfs_truncfile` (line 945) when an enlargement of the empty
  file failed half-way before.
* `vmm_exit`: a process that executes a second program loses tables of the first. `exit_range` frees the tables that the directory points to, and not the lowest level of three; each exec and
  exit loses the frames of those (`kern/mm/pmm.c:342`).

Not findings, but worth knowing when reading the modules: `do_exit` never calls `put_files`, so the descriptors of a
process that has ended keep their inodes (`Vfs!Exit`); `vfs_open` with `O_EXCL` loses a reference (`Vfs!OpenExists`); a full
keyboard buffer loses its oldest character and a full console ring all of them (`Stdin!Tick`); a kernel without a free frame halts
because `swap_out` gets `check_mm_struct`, which is NULL after boot (`Vmm!Give`, `Kmalloc!Halts`).


## What is proved

For every value of the constants, under the assumptions named in the modules (`ProcAssumption`,
`RingAssumption`, `StrideAssumption`, `VfsAssumption`, `SfsAssumption`, `PartsAssumption`, `SyncAssumption`), all of which TLC evaluates as
well. `PartsAssumption` and `SyncAssumption` collect what the parts and programs of a sum assume, each on its own constants.
Eight modules hold theorems. What is proved of a part or a program in a sum is stated of the sum itself, so that the
theorem and the run say the same formula of the same specification. Of the safety properties and the refinements that passing runs
check, each is stated by a theorem.

Two theorems hold only up to an event: the list of the page allocator accounts for every page (`FramesCorrect`) and implements `Frames`
(`FramesRefine`) until a block is freed above every free one, `~topped` in both formulas. The code has no guard against that, its own `basic_check` does it, and both
claims are false afterwards: a block can be free and held at once (`pmm_top`), and a run of free pages is not found.

Three theorems have a hypothesis beside the assumptions, because without it TLC finds a counterexample: that the skew heap implements the stride
policy and keeps the strides together needs `MaxGap < 2 * BigStride` (`stride_gap` shows a choice that is not the least beyond that), and that the
file system implements `FileData` needs `~TruncatesShared` (run `sfs` with `TruncatesShared = TRUE` violates `Implements`).

* **`Lemmas`**: what several proofs use: semaphores as records, sequences from which one element is taken or to which one is added,
  remainders, places of a ring, circular lists of pages and their blocks, and the loops that search them.
* **`ProcProofs`**: the invariants of run `proc`, and `CountExact` and `ReschedOnlyCurrent`. They are not inductive one by one: a wake-up
  is right only because `wait_state` tells the truth, the queue is exact only because wake-ups are,
  and a sleeping parent has no zombie only because every child's exit wakes it, also when the child changes hands. `IInv` is
  their conjunction with `Shape`, which ties the place of a process to its state. There is one lemma
  per action, above lemmas about `wakeup_proc` and `schedule()`. `TypeCorrect`, `RunQueueCorrect`,
  `WaitStateCorrect`, `TimerCorrect`, `NoLostWakeup`, `FamilyCorrect`, `ReschedCorrect`, `CountCorrect` and `AssertionsHold` follow.
* **`MCPartsProofs`**, on the parts of run `parts`, one after the other:
  * *numbers*, `PidsUnique`. `PidBounds` is what a search has established so far: no process that it passed has a number from `last_pid`
    up to `next_safe`, and outside a search no process has. That makes a number below `next_safe` free without a look.
  * *replacement*, `SwapCorrect` and `ClockCorrect`. `Good` says where pages are: the ring holds the pages in memory once each, a frame is
    free or has one page. Every step of a fault `Keeps` what the pages contain, so that a
    page reads as it was written whatever the manager evicts. The class of the clock's victim is the least there is because the four rounds
    look for the classes in that order.
  * *frames*, `FramesCorrect` and `FramesRefine`. Until a block is freed on top, the list is sorted, no two blocks touch, and the blocks, free and allocated, are
    the pages (`FramesInv`, under `~topped` in `FramesHold`). The loops of `default_alloc_pages` and `default_free_pages` find
    the lowest block that is long enough, and the neighbours of the pages that come back; both merges keep the list sorted and apart. That
    the first block found is the lowest run of free pages is the refinement of `Frames`.
  * *timers*, `TimersRefine`. `DueAt` is the sum of the differences up to a place. An insertion leaves the sums of all others as they were, a
    deletion hands the difference to the one behind, and the tick takes one off all: together, a timer per process.
  * *address spaces*, `SpacesCorrect` and `SpacesRefine`. `Store` are the memories in which a frame has at most one place, an entry or the free list (those of lost tables have none, see `vmm_exit`). Every
    step of `exec`, `fork`, `exit` and a fault is a chain of calls that give or take entries of one process (`Gets`, `Puts`) and leave
    the others as they were; `Whole` says that a process has no memory at all or a directory with pages. That no frame is shared is why a write of one is
    not read by another, which is the refinement of `Spaces`.
* **`HeapProofs`**, two more parts of run `parts`:
  * *the kernel heap*: `HeapCorrect` and `RingCorrect`. Owners exchange units: a free block, an object, a large object and a page that is left are owners,
    and in the middle of a call so is the block under way, `"taken"`. Every step of `slob_alloc` and `slob_free` moves units from one
    owner to the next (`SharedOut`). The ring is read as a function of its addresses that goes up and
    closes once (`Cyclic`); the search of `slob_free` stops at the one gap where the block belongs (`GapIn`), and joining it with
    its neighbours leaves no two that touch (`Spaced`). The invariants of the run alone are not inductive: they do not exclude that the node of a large
    object lies in the pages of that object, so that `kfree` would give away the node with the pages. `LargeOk` excludes it.
  * *the skew heap of the stride policy*: `AbstractSpread`, that strides that compete stay within `MaxGap` in the policy without
    wrapping; `WrappedComparison`; `SpreadCorrect` and `StrideRefines`, the same gap for the heap, and that the heap implements the policy.
    `PolicyInv` says that the heap is in the order of the strides that never wrap, each process once (`Sorted`), and that those who compete are
    `Near` each other. That they are near is why the wrapped comparison keeps the order; that the order is kept is why the
    least stride runs next; and that the least runs next, by a pass of at most `BIG_STRIDE`, is why they stay near: none of the three could be proved
    alone. `Heaps`, `Members` and `Merge` are recursive functions. That such functions exist, and that a merge of sorted heaps is sorted with
    the members of both, is an induction on the levels of the heaps (`Reaches`, on a set of numbers). It
    needs the processes to be finitely many.
* **`MCSyncProofs`**, on the programs of run `sync`:
  * *the Hoare monitor*: its safety for any number of philosophers and rounds, and
    `Refinement`, that it implements `Philosophers`. The argument is that there is one *baton*: it is with the
    thread active in the monitor, or in `mutex`, or in `next`, or in one `cv[j]` where an `up` left
    it for a thread that has not come to its `down` yet. `TestInv` says that who could eat and waits
    is about to be tested, from which no signal is lost.
  * *the philosophers with semaphores*: what `PhilSemaProofs` says holds in the sum, because a step of the sum is a
    step of the philosophers or leaves their variables alone.
  * *the line of bicycle workers*, `LineCorrect`: there is one signal on its way. `LineInv`: one worker has it, in its semaphore or already taken,
    and `index` is its own; the others have none and are before their semaphore or in its queue.
  * *the milk of assignment 8*, `MilkCorrect`. `MilkInv`: one thread at most is between the check and the leave, and who buys saw no milk; nobody else can
    add any, so this still holds when it comes back.
  * *the keyboard*, `KeysInOrder`. `KeyInv`: until something is overrun, the place of a character in either ring is its number modulo the size of the ring,
    and neither ring holds more than has room in it, so no two characters share a place.
* **`PhilSemaProofs`**: mutual exclusion, hand-over and refinement of the philosophers with semaphores. `LockInv`: one thread at most has
  `mutex`. `PhaseInv` ties `state_sema[i]` and the value of `s[i]` to the place of i: the semaphore goes up when i is set EATING, and
  i passes it once. `TestInv`: whoever could eat is about to be tested by the thread that has `mutex`, so nobody could
  when it is given back. `MutualExclusion`, `HandedOverOnce`, `NoIdleForks` and `TableRefinement` follow.
* **`VfsProofs`**: `CountsExact`, `ClosedIsClean`, and `Refinement`, that `Vfs` implements `OpenFiles`. `IInv` adds to the counts that who is not
  born has nothing (`Born`) and that an inode is `Sound`: not dirty unless it is open and in memory, and equal to the disk when in memory and
  not dirty. Every operator of the cache changes the counts of one inode by a known number and keeps it sound (`Counted`);
  every call changes the set of the descriptors that lead to an inode by as much (`Balanced`). For the refinement, what the processes see of a file (`Seen`) is its
  inode in memory or else the disk, which no reference that is taken or dropped changes.
* **`SfsProofs`**: `BlocksCorrect`, `ReadsCorrect`, and `Refinement`, that `Sfs` implements `FileData`. The number of a block is kept
  in one spot, an entry of a file or the place of its indirect block, or the block is free and counted (`Owned`), and a file has as many blocks as it
  counts (`Covered`). `At` is the byte that a file has at an offset, zero where it has no block. A file that is not dirty is on the disk
  as it is in memory but for the count of its blocks (`Clean`), which is why a reclaim loses nothing. The loops are chains of steps, each of which keeps a relation to the state in which
  the call began: `Grows` for blocks that are appended, `Cuts` for blocks that are taken away, `Wrote` for pieces that were
  moved; a step that fails leaves what was reached, still in order. For the refinement two more facts are needed: behind its end a file holds
  zeros (`Blank`), because a block is cleared when it is given, and it has a block for every byte of its size (`Enough`). The last is false when a file may be truncated under a position of another descriptor: a
  write there that finds no room sets the size without the blocks. Hence the hypothesis. The invariants were checked by TLC on the bounds of run
  `sfs` before they were proved.

Only model-checked:

* all liveness (`OrphansReaped`, `SleepersReturn`, `InterruptedExit`, `EverybodyFinishes`, `GoesOn`, `Ends`), since fairness and ENABLED are beyond
  the prover. Of the fridge of assignment 7 nothing but its end is stated;
* that the assertions of the simple file system hold. They do not (`sfs_shared`), and not only there: an open that truncates fails one as well
  after an enlargement that stopped half-way.

## Not modelled and why

* **System-call table, boot, debugging, kernel library, user programs**: dispatch, printing and straight-line code
  without state of their own, or programs that merely call what is modelled.
* **Disk and device drivers**: transfers that wait for the device with interrupts off.
* **Directories, paths and devices in the VFS and the simple file system**: names are resolved, never created (the
  operations that would change a directory are not implemented in this kernel).
* **`try_down`**, which nothing calls, and the removal of a waiter in the middle of a wait queue, which needs a kill of a
  thread at a semaphore.
* **Sibling pointers and the pid hash**: their meaning (`parent`, the set of numbers in use) is modelled.
* **Best-fit of assignment 4, the schedulers of assignment 6, the shell of assignment 3**: small
  variations of parts that are modelled (A4 shares its insertion loop with `Pmm`), or input and output.
* **`phy1`, `phy2` of assignment 7 and lab 12**: a philosopher eats while it holds the only mutex, or threads that share nothing.
* **The other snapshots of the kernel.** The repository holds about ten copies of the same kernel at different stages, so that
  nine files of ten are earlier versions of one that is modelled, or identical to it. A second model of the same
  code would say nothing new; where a finding applies to the others as well, it says so. This is
  also why the modelled lines are a small share of all lines.

## Plan

Done: the modules above. What is left, in order of worth:

1. The sibling pointers (`cptr`, `optr`, `yptr`) as a refinement of `parent` in `Proc`.
2. Best-fit as a second policy over the list of `Pmm`.
3. Directories: `sfs_lookup_once` and `getdirentry` over the blocks of `Sfs`.
