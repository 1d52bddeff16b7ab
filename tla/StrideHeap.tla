------------------------------ MODULE StrideHeap ------------------------------
(* kern/schedule/default_sched_stride.c with the skew heap of libs/skew_heap.h *)
(* and the comparison of two uint32_t strides as an int32_t, under schedule    *)
(* and wakeup_proc (sched.c:57-101).  The width is a parameter: BIG_STRIDE is  *)
(* a quarter of the range of a stride, as 1 << 30 is of 32 bits.               *)
EXTENDS Competitors

VARIABLES
  pool,      \* lab6_run_pool: <<>>, or a node with its two subtrees
  current,
  stride,    \* the sum of all passes; lab6_stride is this modulo Range
  priority

vars == <<pool, current, stride, priority>>

Range == 4 * BigStride

\* mutant: the strides are compared as unsigned numbers
BeforeUnsigned(s, p, q) == s[p] % Range < s[q] % Range

\* proc_stride_comp_f(p, q) = -1: the difference, as a signed number, is negative
Before(s, p, q) == ((s[p] % Range) - (s[q] % Range)) % Range >= Range \div 2

Node(p, l, r) == [proc |-> p, left |-> l, right |-> r]

\* the heaps of up to d levels, and those that the processes are enough for
Heaps[d \in 0..Cardinality(Proc)] ==
  IF d = 0 THEN {<<>>}
  ELSE {<<>>} \cup [proc : Proc, left : Heaps[d - 1], right : Heaps[d - 1]]
Heap == Heaps[Cardinality(Proc)]

\* skew_heap_merge
Merge(s, a, b) ==
  LET merge[h \in Heap \X Heap] ==
        LET x == h[1]
            y == h[2]
        IN IF x = <<>> THEN y
           ELSE IF y = <<>> THEN x
           ELSE IF Before(s, x.proc, y.proc)
                THEN Node(x.proc, merge[<<x.right, y>>], x.left)
                ELSE Node(y.proc, merge[<<x, y.right>>], y.left)
  IN merge[<<a, b>>]

\* skew_heap_insert
Insert(s, h, p) == Merge(s, h, Node(p, <<>>, <<>>))

Members(h) ==
  LET members[x \in Heap] ==
        IF x = <<>> THEN {} ELSE {x.proc} \cup members[x.left] \cup members[x.right]
  IN members[h]

Active == Members(pool) \cup ({current} \ {idleproc})

Pass(p) == IF priority[p] = 0 THEN BigStride ELSE BigStride \div priority[p]

\* stride_pick_next takes the root, and skew_heap_remove of the root merges the rest
Pick(h) ==
  \/ /\ h = <<>>
     /\ current' = idleproc
     /\ pool' = <<>>
     /\ UNCHANGED stride
  \/ /\ h # <<>>
     /\ stride[h.proc] + Pass(h.proc) <= MaxStride
     /\ current' = h.proc
     /\ pool' = Merge(stride, h.left, h.right)
     /\ stride' = [stride EXCEPT ![h.proc] = @ + Pass(h.proc)]

Resched ==
  /\ current # idleproc
  /\ Pick(Insert(stride, pool, current))
  /\ UNCHANGED priority

Leave ==
  /\ Pick(pool)
  /\ UNCHANGED priority

\* cpu_idle, while there is nothing to run
IdleSpins ==
  /\ current = idleproc
  /\ UNCHANGED vars

Near(p, s) == \A q \in Active : s - stride[q] \in -MaxGap..MaxGap

Wake(p) ==
  /\ p \notin Active
  /\ Near(p, stride[p])
  /\ pool' = Insert(stride, pool, p)
  /\ UNCHANGED <<current, stride, priority>>

\* alloc_proc sets the stride to 0 before the process is put in the heap
Fork(p) ==
  /\ p \notin Active
  /\ Near(p, 0)
  /\ stride' = [stride EXCEPT ![p] = 0]
  /\ pool' = Insert(stride', pool, p)
  /\ priority' = [priority EXCEPT ![p] = 0]
  /\ UNCHANGED current

SetPriority(n) ==
  /\ current # idleproc
  /\ priority' = [priority EXCEPT ![current] = IF n = 0 THEN 1 ELSE n]
  /\ UNCHANGED <<pool, current, stride>>

Init ==
  /\ pool = <<>>
  /\ current = idleproc
  /\ stride = [p \in Proc |-> 0]
  /\ priority = [p \in Proc |-> 0]

Next == \/ Resched
        \/ Leave
        \/ IdleSpins
        \/ \E p \in Proc : Wake(p) \/ Fork(p)
        \/ \E n \in Priorities : SetPriority(n)

Spec == Init /\ [][Next]_vars

------------------------------------------------------------------------------
Abstract == INSTANCE Stride WITH queued <- Members(pool)

\* The processes that compete stay within MaxGap, so that the 32-bit difference of
\* two strides has the right sign (Abstract!Spread, proved in HeapProofs.tla).
Spread == Abstract!Spread

\* The root of the heap, ordered by wrapped strides that change between the calls,
\* is a process with the least stride.
Implements == Abstract!Spec

\* "stride_pick_next pick the element from the ``run-queue'', with the minimum value
\* of stride" (default_sched_stride.c:104-105).
PicksMinimum ==
  [][\A p \in Proc : current' = p /\ stride'[p] # stride[p] =>
       \A q \in Members(pool) : stride[p] <= stride[q]]_vars
=============================================================================
