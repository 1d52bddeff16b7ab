-------------------------------- MODULE MCSync --------------------------------
(* The threads that wait for each other, one program after the other in one      *)
(* state space: the initial state says which of them runs, the others stay as    *)
(* they begin.  Their threads are 0 to 3.  The monitor of PhilMonitor is there      *)
(* without a prefix.                                                             *)
EXTENDS PhilMonitor

CONSTANTS
  Buyer, Drinker, Portion, Bottle, MaxSignals,         \* Milk
  Reader, CONSBUFSIZE, STDIN_BUFSIZE, MaxLen, MaxTyped \* Stdin

VARIABLES
  program,
  s_mutex, s, state_sema, s_pc, s_iter,                            \* PhilSema
  overallMutex, ws, index, b_pc,                                   \* Bikes
  m_mutex, p1, milk, m_pc,                                         \* Milk
  sem_buying, sem_eating, fri_lock, num, f_pc, trips,              \* Fridge
  typed, cons, stdin_buffer, p_rpos, p_wpos, wait_queue, k_pc,     \* Stdin
  wakeup_flags, left, killed, overrun

S == INSTANCE PhilSema WITH mutex <- s_mutex, pc <- s_pc, iter <- s_iter
B == INSTANCE Bikes WITH pc <- b_pc
M == INSTANCE Milk WITH mutex <- m_mutex, pc <- m_pc
F == INSTANCE Fridge WITH Buyer <- {0, 1, 2}, Son <- 3, Trips <- 2, pc <- f_pc
K == INSTANCE Stdin WITH pc <- k_pc

ASSUME SyncAssumption == M!MilkAssumption /\ F!FridgeAssumption /\ K!StdinAssumption

monitor == <<mutex, next, cv, count, next_count, state_condvar, pc, iter>>
semaphores == <<s_mutex, s, state_sema, s_pc, s_iter>>
bikes == <<overallMutex, ws, index, b_pc>>
milk8 == <<m_mutex, p1, milk, m_pc>>
milk7 == <<sem_buying, sem_eating, fri_lock, num, f_pc, trips>>
keyboard == <<typed, cons, stdin_buffer, p_rpos, p_wpos, wait_queue, k_pc, wakeup_flags,
              left, killed, overrun>>
syncVars == <<program, monitor, semaphores, bikes, milk8, milk7, keyboard>>

SyncInit ==
  /\ program \in {"monitor", "semaphores", "bikes", "milk8", "milk7", "keyboard"}
  /\ Init /\ S!Init /\ B!Init /\ M!Init /\ F!Init /\ K!Init

\* one of them takes a step
Monitor(step) ==
  /\ program = "monitor" /\ step
  /\ UNCHANGED <<program, semaphores, bikes, milk8, milk7, keyboard>>
Semaphores(step) ==
  /\ program = "semaphores" /\ step
  /\ UNCHANGED <<program, monitor, bikes, milk8, milk7, keyboard>>
BikeLine(step) ==
  /\ program = "bikes" /\ step
  /\ UNCHANGED <<program, monitor, semaphores, milk8, milk7, keyboard>>
Milk8(step) ==
  /\ program = "milk8" /\ step
  /\ UNCHANGED <<program, monitor, semaphores, bikes, milk7, keyboard>>
Milk7(step) ==
  /\ program = "milk7" /\ step
  /\ UNCHANGED <<program, monitor, semaphores, bikes, milk8, keyboard>>
Keyboard(step) ==
  /\ program = "keyboard" /\ step
  /\ UNCHANGED <<program, monitor, semaphores, bikes, milk8, milk7>>

SyncNext ==
  \/ Monitor(Next) \/ Semaphores(S!Next) \/ BikeLine(B!Next)
  \/ Milk8(M!Next) \/ Milk7(F!Next) \/ Keyboard(K!Next)

\* what the fairness of the running program has to say about its thread t, the
\* fourth of the keyboard being the timer
Turn(t) ==
  \/ t \in Phil /\ (Monitor(Phi(t)) \/ Semaphores(S!Phi(t)))
  \/ t \in B!Worker /\ BikeLine(B!Work(t))
  \/ t \in M!Thread /\ Milk8(M!Run(t))
  \/ Milk7(F!Run(t))
  \/ t \in Reader /\ Keyboard(K!Resumes(t))
  \/ t = 3 /\ Keyboard(K!Tick(0))

\* FairSpec of each of them
SyncSpec == SyncInit /\ [][SyncNext]_syncVars /\ \A t \in 0..3 : WF_syncVars(Turn(t))

\* Of the philosophers with semaphores, see PhilSema: one thread works on the table,
\* the forks are handed over once and not lost, and the abstract table is implemented.
OneInside == S!TypeOK /\ S!OneInside
HungryBlocked == S!ForksOnce /\ S!HungryBlocked
SemaImplements == S!Implements

\* Of the bicycle line, see Bikes: one worker has a signal, the one whose turn it is.
OneBusy == B!OneBusy

\* Of the fridge of assignment 8, see Milk: nobody buys milk while there is some.
NoWaste == M!NoWaste

\* Of the keyboard, see Stdin: nothing is lost, doubled or exchanged, and nobody
\* sleeps beside characters.
KeptInOrder == K!KeptInOrder /\ K!SleeperHasNothing

\* Philosophers and fridge of assignment 7: everybody gets to the end, so nobody is
\* left waiting and no fridge is too full or too empty ("TAT~").
Finished ==
  CASE program = "monitor" -> \A i \in Phil : pc[i] = "done"
    [] program = "semaphores" -> \A i \in Phil : s_pc[i] = "done"
    [] program = "milk7" -> F!AllDone
    [] OTHER -> TRUE
EverybodyFinishes == <>Finished

\* Bicycle line, fridge of assignment 8 and keyboard: whose turn it is gets on, an
\* empty fridge is filled, and a reader that sleeps while characters are in the
\* buffers is woken, unless a buffer overran.
Wanted(t) ==
  CASE program = "bikes" -> index = t
    [] program = "milk8" -> milk = 0
    [] program = "keyboard" -> t \in Reader /\ k_pc[t] = "asleep" /\ K!Pending # <<>>
    [] OTHER -> FALSE
Got(t) ==
  CASE program = "bikes" -> index = (t + 1) % 3
    [] program = "milk8" -> milk > 0
    [] program = "keyboard" -> t = 2 \/ k_pc[t] # "asleep" \/ overrun
    [] OTHER -> TRUE
GoesOn == \A t \in 0..2 : Wanted(t) ~> Got(t)
=============================================================================
