-------------------------------- MODULE Stride --------------------------------
(* Stride scheduling as kern/schedule/default_sched_stride.c means it: every  *)
(* process has a stride that never wraps, the run queue is a set, and the     *)
(* one with the least stride runs next.  StrideHeap.tla has the heap and the  *)
(* 32-bit comparison that the code uses instead.                              *)
EXTENDS Competitors

VARIABLES
  queued,    \* the run queue
  current,
  stride,    \* lab6_stride, unbounded
  priority   \* lab6_priority

vars == <<queued, current, stride, priority>>

Active == queued \cup {p \in Proc : p = current}

\* what stride_pick_next adds
Pass(p) == IF priority[p] = 0 THEN BigStride ELSE BigStride \div priority[p]

Least(Q) == {p \in Q : \A q \in Q : stride[p] <= stride[q]}

\* stride_pick_next and stride_dequeue of what it returns, in schedule
Pick(Q) ==
  \/ /\ Q = {}
     /\ current' = idleproc
     /\ queued' = {}
     /\ UNCHANGED stride
  \/ \E p \in Least(Q) :
       /\ stride[p] + Pass(p) <= MaxStride
       /\ current' = p
       /\ queued' = Q \ {p}
       /\ stride' = [stride EXCEPT ![p] = @ + Pass(p)]

\* the current process is preempted or yields
Resched ==
  /\ current # idleproc
  /\ Pick(queued \cup {current})
  /\ UNCHANGED priority

\* the current process sleeps or exits, or is the idle one
Leave ==
  /\ Pick(queued)
  /\ UNCHANGED priority

Near(p, s) == \A q \in Active : s - stride[q] \in -MaxGap..MaxGap

\* wakeup_proc of a process that slept
Wake(p) ==
  /\ p \notin Active
  /\ Near(p, stride[p])
  /\ queued' = queued \cup {p}
  /\ UNCHANGED <<current, stride, priority>>

\* wakeup_proc of a process from alloc_proc
Fork(p) ==
  /\ p \notin Active
  /\ Near(p, 0)
  /\ queued' = queued \cup {p}
  /\ stride' = [stride EXCEPT ![p] = 0]
  /\ priority' = [priority EXCEPT ![p] = 0]
  /\ UNCHANGED current

\* lab6_set_priority
SetPriority(n) ==
  /\ current # idleproc
  /\ priority' = [priority EXCEPT ![current] = IF n = 0 THEN 1 ELSE n]
  /\ UNCHANGED <<queued, current, stride>>

Init ==
  /\ queued = {}
  /\ current = idleproc
  /\ stride = [p \in Proc |-> 0]
  /\ priority = [p \in Proc |-> 0]

Next == \/ Resched
        \/ Leave
        \/ \E p \in Proc : Wake(p) \/ Fork(p)
        \/ \E n \in Priorities : SetPriority(n)

Spec == Init /\ [][Next]_vars

------------------------------------------------------------------------------
TypeOK ==
  /\ queued \subseteq Proc
  /\ current \in Proc \cup {idleproc}
  /\ stride \in [Proc -> Nat]
  /\ priority \in [Proc -> Nat]

\* The running process is not in the queue (sched.c:84-94 takes it out), and the
\* strides of the processes that compete lie within MaxGap of each other.
Spread ==
  /\ current \notin queued
  /\ \A p, q \in Active : stride[p] - stride[q] <= MaxGap
=============================================================================
