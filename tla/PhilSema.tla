------------------------------ MODULE PhilSema ------------------------------
(***************************************************************************)
(* The dining philosophers of kern/sync/check_sync.c that use semaphores   *)
(* only (phi_*_sema): mutex guards the table, s[i] carries the forks to    *)
(* philosopher i.  Steps are cut as in PhilMonitor.                        *)
(***************************************************************************)
EXTENDS Ring, Semaphore

VARIABLES
  mutex, s,         \* the semaphores
  state_sema,
  pc,               \* where each philosopher is
  iter              \* rounds started

vars == <<mutex, s, state_sema, pc, iter>>

Places == {"think",                                \* in do_sleep
           "take", "hungry", "took", "forks",      \* phi_take_forks_sema
           "eat",                                  \* in do_sleep
           "put", "testL", "testR", "leave",       \* phi_put_forks_sema
           "done"}

Blocked(i) == Waits(mutex, i) \/ Waits(s[i], i)

\* philosopher i runs from place a to place b
Moves(i, a, b) == pc[i] = a /\ ~Blocked(i) /\ pc' = [pc EXCEPT ![i] = b]

\* mutant: looks at one neighbour only
CanEatRight(j) == state_sema[j] = "HUNGRY" /\ state_sema[Right(j)] # "EATING"

CanEat(j) ==
  /\ state_sema[j] = "HUNGRY"
  /\ state_sema[Left(j)] # "EATING"
  /\ state_sema[Right(j)] # "EATING"

\* phi_test_sema
Test(j) ==
  IF CanEat(j)
  THEN /\ state_sema' = [state_sema EXCEPT ![j] = "EATING"]
       /\ s' = [s EXCEPT ![j] = Up(@)]
  ELSE UNCHANGED <<state_sema, s>>

\* down(&mutex) of either routine
Enters(i) ==
  /\ Moves(i, "think", "take") \/ Moves(i, "eat", "put")
  /\ mutex' = Down(mutex, i)
  /\ UNCHANGED <<s, state_sema, iter>>

GetsHungry(i) ==
  /\ Moves(i, "take", "hungry")
  /\ state_sema' = [state_sema EXCEPT ![i] = "HUNGRY"]
  /\ UNCHANGED <<mutex, s, iter>>

TestsItself(i) ==
  /\ Moves(i, "hungry", "took")
  /\ Test(i)
  /\ UNCHANGED <<mutex, iter>>

TakeLeaves(i) ==
  /\ Moves(i, "took", "forks")
  /\ mutex' = Up(mutex)
  /\ UNCHANGED <<s, state_sema, iter>>

\* down(&s[i]): eats when it is through
GetsForks(i) ==
  /\ Moves(i, "forks", "eat")
  /\ s' = [s EXCEPT ![i] = Down(@, i)]
  /\ UNCHANGED <<mutex, state_sema, iter>>

StopsEating(i) ==
  /\ Moves(i, "put", "testL")
  /\ state_sema' = [state_sema EXCEPT ![i] = "THINKING"]
  /\ UNCHANGED <<mutex, s, iter>>

\* mutant: the left neighbour is forgotten
TestsNoLeft(i) ==
  /\ Moves(i, "testL", "testR")
  /\ UNCHANGED <<mutex, s, state_sema, iter>>

TestsLeft(i) ==
  /\ Moves(i, "testL", "testR")
  /\ Test(Left(i))
  /\ UNCHANGED <<mutex, iter>>

TestsRight(i) ==
  /\ Moves(i, "testR", "leave")
  /\ Test(Right(i))
  /\ UNCHANGED <<mutex, iter>>

PutLeaves(i) ==
  /\ Moves(i, "leave", IF iter[i] < TIMES THEN "think" ELSE "done")
  /\ iter' = [iter EXCEPT ![i] = IF @ < TIMES THEN @ + 1 ELSE @]
  /\ mutex' = Up(mutex)
  /\ UNCHANGED <<s, state_sema>>

Phi(i) ==
  \/ Enters(i) \/ GetsHungry(i) \/ TestsItself(i) \/ TakeLeaves(i) \/ GetsForks(i)
  \/ StopsEating(i) \/ TestsLeft(i) \/ TestsRight(i) \/ PutLeaves(i)

AllDone == (\A i \in Phil : pc[i] = "done") /\ UNCHANGED vars

Next == (\E i \in Phil : Phi(i)) \/ AllDone

\* check_sync, and the threads in their first do_sleep
Init ==
  /\ mutex = SemInit(1)
  /\ s = [i \in Phil |-> SemInit(0)]
  /\ state_sema = [i \in Phil |-> "THINKING"]
  /\ pc = [i \in Phil |-> "think"]
  /\ iter = [i \in Phil |-> 1]

Spec == Init /\ [][Next]_vars

\* as in PhilMonitor: a thread that is not blocked is run again
FairSpec == Spec /\ \A i \in Phil : WF_vars(Phi(i))
-----------------------------------------------------------------------------
TypeOK ==
  /\ mutex \in Binary(Phil) /\ s \in [Phil -> Binary(Phil)]
  /\ state_sema \in [Phil -> Phases]
  /\ pc \in [Phil -> Places] /\ iter \in [Phil -> 1..TIMES]

InTable == {"take", "hungry", "took", "put", "testL", "testR", "leave"}

\* One thread at a time works on state_sema, also when mutex is handed over to
\* a waiter that has not run yet.
OneInside ==
  \A i, j \in Phil :
    pc[i] \in InTable /\ ~Blocked(i) /\ pc[j] \in InTable /\ ~Blocked(j) => i = j

\* Forks are handed over exactly once: s[i] holds them from the moment i is set
\* EATING, by itself or by a neighbour, until i passes down(&s[i]), and who is
\* past it is EATING until it puts them back.
ForksOnce ==
  \A i \in Phil :
    /\ s[i].value = 1 <=> state_sema[i] = "EATING" /\ pc[i] \in {"took", "forks"}
    /\ pc[i] = "eat" => (state_sema[i] = "EATING" <=> ~Blocked(i))

\* No lost hand-over: while nobody works on the table, whoever is hungry has a
\* neighbour that eats and will test it.
HungryBlocked == mutex.value = 1 => \A i \in Phil : ~CanEat(i)

\* The abstract dining table.
Table == INSTANCE Philosophers WITH phase <- state_sema
Implements == Table!Spec
=============================================================================
