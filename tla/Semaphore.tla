------------------------------ MODULE Semaphore ------------------------------
(***************************************************************************)
(* The kernel semaphore (kern/sync/sem.c over kern/sync/wait.c) as         *)
(* operators on a record [value, queue].  A thread in the queue sleeps     *)
(* with WT_KSEM.  __up hands the semaphore to the first waiter: it unlinks *)
(* and wakes it and leaves value alone, so a thread that arrives between   *)
(* the wakeup and the run of the waiter cannot overtake it.                *)
(***************************************************************************)
EXTENDS Naturals, Sequences

\* sem_init
SemInit(v) == [value |-> v, queue |-> <<>>]

\* a semaphore used as a lock or as a hand-over between threads of P
Binary(P) == [value : {0, 1}, queue : Seq(P)]

Waits(s, p) == \E k \in 1..Len(s.queue) : s.queue[k] = p

\* mutant: the woken waiter must compete again, as value is given back too
UpBoth(s) ==
  IF s.queue = <<>> THEN [s EXCEPT !.value = @ + 1]
  ELSE [value |-> s.value + 1, queue |-> Tail(s.queue)]

\* __up
Up(s) ==
  IF s.queue = <<>> THEN [s EXCEPT !.value = @ + 1]
  ELSE [s EXCEPT !.queue = Tail(@)]

\* __down by p: p goes on when it is not left in the queue
Down(s, p) ==
  IF s.value > 0 THEN [s EXCEPT !.value = @ - 1]
  ELSE [s EXCEPT !.queue = Append(@, p)]
=============================================================================
