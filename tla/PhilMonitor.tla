----------------------------- MODULE PhilMonitor -----------------------------
(***************************************************************************)
(* The Hoare monitor of kern/sync/monitor.c under its client, the dining   *)
(* philosophers of kern/sync/check_sync.c (phi_*_condvar).                 *)
(*                                                                         *)
(* A step runs one philosopher up to and including its next semaphore      *)
(* operation, or to the next place where shared state is read.  The kernel *)
(* switches threads only where a thread blocks; all interleavings of these *)
(* steps are explored, which includes those.                               *)
(***************************************************************************)
EXTENDS FiniteSets, Ring, Semaphore

VARIABLES
  mutex, next,      \* the monitor's semaphores
  cv,               \* cv[i].sem
  count,            \* cv[i].count
  next_count,
  state_condvar,
  pc,               \* where each philosopher is
  iter              \* rounds started

sync == <<mutex, next, cv, count, next_count>>
vars == <<mutex, next, cv, count, next_count, state_condvar, pc, iter>>

Places == {"think",  \* in do_sleep, about to take forks
           "take", "hungry", "took",      \* phi_take_forks_condvar
           "sigO", "backO",               \* cond_signal of its own condition
           "waiting", "woken",            \* cond_wait
           "eat",                         \* in do_sleep, about to put forks
           "put", "testL", "sigL", "backL", "testR", "sigR", "backR", "leave",
           "done"}

Blocked(i) ==
  Waits(mutex, i) \/ Waits(next, i) \/ \E j \in Phil : Waits(cv[j], i)

\* philosopher i runs from place a to place b
Moves(i, a, b) == pc[i] = a /\ ~Blocked(i) /\ pc' = [pc EXCEPT ![i] = b]

\* what a routine or a cond_wait does to let another thread into the monitor
Release ==
  IF next_count > 0 THEN next' = Up(next) /\ UNCHANGED mutex
  ELSE mutex' = Up(mutex) /\ UNCHANGED next

\* mutant: looks at one neighbour only
CanEatRight(j) == state_condvar[j] = "HUNGRY" /\ state_condvar[Right(j)] # "EATING"

CanEat(j) ==
  /\ state_condvar[j] = "HUNGRY"
  /\ state_condvar[Left(j)] # "EATING"
  /\ state_condvar[Right(j)] # "EATING"

\* mutant: cond_signal without the hand-over to the signalled thread
SignalGoesOn(i, j, sig, cont) ==
  /\ cv' = [cv EXCEPT ![j] = IF count[j] > 0 THEN Up(@) ELSE @]
  /\ pc' = [pc EXCEPT ![i] = cont]
  /\ UNCHANGED next_count

\* cond_signal(cv[j]) up to its down(next)
Signal(i, j, sig, cont) ==
  IF count[j] > 0
  THEN /\ next_count' = next_count + 1
       /\ cv' = [cv EXCEPT ![j] = Up(@)]
       /\ pc' = [pc EXCEPT ![i] = sig]
  ELSE /\ pc' = [pc EXCEPT ![i] = cont]
       /\ UNCHANGED <<next_count, cv>>

\* phi_test_condvar(j), called by i
Test(i, j, sig, cont) ==
  /\ ~Blocked(i)
  /\ IF CanEat(j)
     THEN /\ state_condvar' = [state_condvar EXCEPT ![j] = "EATING"]
          /\ Signal(i, j, sig, cont)
     ELSE /\ pc' = [pc EXCEPT ![i] = cont]
          /\ UNCHANGED <<state_condvar, next_count, cv>>
  /\ UNCHANGED <<mutex, next, count, iter>>

\* where cond_signal goes on, in each of its three calls
After == [sigO  |-> "backO", sigL  |-> "backL", sigR  |-> "backR",
          backO |-> "took",  backL |-> "testR", backR |-> "leave"]

\* the rest of cond_signal: down(next), and next_count-- once it returns
SignalWaits(i) ==
  /\ pc[i] \in {"sigO", "sigL", "sigR"}
  /\ Moves(i, pc[i], After[pc[i]])
  /\ next' = Down(next, i)
  /\ UNCHANGED <<mutex, cv, count, next_count, state_condvar, iter>>

\* mutant: the signaller stays counted
SignalReturnsCounted(i) ==
  /\ pc[i] \in {"backO", "backL", "backR"}
  /\ Moves(i, pc[i], After[pc[i]])
  /\ UNCHANGED <<sync, state_condvar, iter>>

SignalReturns(i) ==
  /\ pc[i] \in {"backO", "backL", "backR"}
  /\ Moves(i, pc[i], After[pc[i]])
  /\ next_count' = next_count - 1
  /\ UNCHANGED <<mutex, next, cv, count, state_condvar, iter>>

\* phi_take_forks_condvar
TakeEnters(i) ==
  /\ Moves(i, "think", "take")
  /\ mutex' = Down(mutex, i)
  /\ UNCHANGED <<next, cv, count, next_count, state_condvar, iter>>

GetsHungry(i) ==
  /\ Moves(i, "take", "hungry")
  /\ state_condvar' = [state_condvar EXCEPT ![i] = "HUNGRY"]
  /\ UNCHANGED <<sync, iter>>

TestsItself(i) == pc[i] = "hungry" /\ Test(i, i, "sigO", "took")

\* cond_wait up to its down(cv.sem)
CondWaits(i) ==
  /\ Moves(i, "took", "waiting")
  /\ state_condvar[i] = "HUNGRY"
  /\ count' = [count EXCEPT ![i] = @ + 1]
  /\ Release
  /\ UNCHANGED <<cv, next_count, state_condvar, iter>>

CondSleeps(i) ==
  /\ Moves(i, "waiting", "woken")
  /\ cv' = [cv EXCEPT ![i] = Down(@, i)]
  /\ UNCHANGED <<mutex, next, count, next_count, state_condvar, iter>>

\* mutant: a hungry philosopher leaves without cond_wait
TakeLeavesHungry(i) ==
  /\ Moves(i, "took", "eat")
  /\ Release
  /\ UNCHANGED <<cv, count, next_count, state_condvar, iter>>

\* the end of the routine, after cond_wait or without it
TakeLeaves(i) ==
  /\ \/ Moves(i, "took", "eat") /\ state_condvar[i] # "HUNGRY" /\ UNCHANGED count
     \/ Moves(i, "woken", "eat") /\ count' = [count EXCEPT ![i] = @ - 1]
  /\ Release
  /\ UNCHANGED <<cv, next_count, state_condvar, iter>>

\* phi_put_forks_condvar
PutEnters(i) ==
  /\ Moves(i, "eat", "put")
  /\ mutex' = Down(mutex, i)
  /\ UNCHANGED <<next, cv, count, next_count, state_condvar, iter>>

StopsEating(i) ==
  /\ Moves(i, "put", "testL")
  /\ state_condvar' = [state_condvar EXCEPT ![i] = "THINKING"]
  /\ UNCHANGED <<sync, iter>>

TestsLeft(i)  == pc[i] = "testL" /\ Test(i, Left(i), "sigL", "testR")

\* mutant: the right neighbour is forgotten
TestsNoOne(i) ==
  /\ Moves(i, "testR", "leave")
  /\ UNCHANGED <<sync, state_condvar, iter>>
TestsRight(i) == pc[i] = "testR" /\ Test(i, Right(i), "sigR", "leave")

PutLeaves(i) ==
  /\ Moves(i, "leave", IF iter[i] < TIMES THEN "think" ELSE "done")
  /\ iter' = [iter EXCEPT ![i] = IF @ < TIMES THEN @ + 1 ELSE @]
  /\ Release
  /\ UNCHANGED <<cv, count, next_count, state_condvar>>

Phi(i) ==
  \/ TakeEnters(i) \/ GetsHungry(i) \/ TestsItself(i) \/ CondWaits(i) \/ CondSleeps(i)
  \/ TakeLeaves(i)
  \/ PutEnters(i) \/ StopsEating(i) \/ TestsLeft(i) \/ TestsRight(i) \/ PutLeaves(i)
  \/ SignalWaits(i) \/ SignalReturns(i)

AllDone == (\A i \in Phil : pc[i] = "done") /\ UNCHANGED vars

Next == (\E i \in Phil : Phi(i)) \/ AllDone

\* monitor_init, and the threads in their first do_sleep
Init ==
  /\ mutex = SemInit(1)
  /\ next = SemInit(0)
  /\ cv = [i \in Phil |-> SemInit(0)]
  /\ count = [i \in Phil |-> 0]
  /\ next_count = 0
  /\ state_condvar = [i \in Phil |-> "THINKING"]
  /\ pc = [i \in Phil |-> "think"]
  /\ iter = [i \in Phil |-> 1]

Spec == Init /\ [][Next]_vars

\* a philosopher that is not blocked is run again: the policy serves every
\* runnable thread and do_sleep returns
FairSpec == Spec /\ \A i \in Phil : WF_vars(Phi(i))
-----------------------------------------------------------------------------
TypeOK ==
  /\ mutex \in Binary(Phil) /\ next \in Binary(Phil) /\ cv \in [Phil -> Binary(Phil)]
  /\ count \in [Phil -> Nat] /\ next_count \in Nat
  /\ state_condvar \in [Phil -> Phases]
  /\ pc \in [Phil -> Places] /\ iter \in [Phil -> 1..TIMES]

Inside == {"take", "hungry", "took", "backO", "woken", "put", "testL", "backL", "testR",
           "backR", "leave"}
Active == {i \in Phil : pc[i] \in Inside /\ ~Blocked(i)}

\* "Only one process at a time may be be active in a monitor" (monitor.h:14),
\* through cond_wait, cond_signal and the hand-overs between them.
OneActive == \A i, j \in Active : i = j

\* The waker's promise still holds when the woken philosopher runs: cond_wait is
\* not in a loop (check_sync.c:189), so whoever gets out of the monitor with its
\* forks must be EATING, and stays so until it puts them back.
EatersEat == \A i \in Phil : pc[i] \in {"woken", "eat", "put"} /\ ~Blocked(i) =>
                state_condvar[i] = "EATING"

\* Neighbours never eat at the same time.
NeighboursApart ==
  \A i \in Phil : state_condvar[i] = "EATING" => state_condvar[Right(i)] # "EATING"

Signallers == {i \in Phil : pc[i] \in DOMAIN After}

\* next_count is the number of signallers on their way through down(next), and
\* count[i] tells whether i is in cond_wait: Release and cond_signal choose by them.
CountersExact ==
  /\ next_count = Cardinality(Signallers)
  /\ \A i \in Phil : count[i] = IF pc[i] \in {"waiting", "woken"} THEN 1 ELSE 0

\* No lost signal: while nobody is in the monitor, a hungry philosopher that
\* waits has a neighbour that eats and will test it.
WaitersBlocked ==
  mutex.value = 1 =>
    \A i \in Phil : pc[i] \in {"waiting", "woken"} => ~CanEat(i)

\* The abstract dining table.
Table == INSTANCE Philosophers WITH phase <- state_condvar
Implements == Table!Spec
=============================================================================
