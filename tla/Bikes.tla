-------------------------------- MODULE Bikes --------------------------------
(* The bicycle line of assignment 8, kern/sync/check_exercise.c, on condition  *)
(* variables that are semaphores (condvar.c): a signal that finds nobody is     *)
(* kept, and cond_wait gives up a lock that no worker has taken, overallMutex,  *)
(* which starts at 0.  One step per semaphore operation and per assignment.     *)
EXTENDS Naturals, FiniteSets, Semaphore

Worker == 0..2  \* worker1, worker2, worker3

VARIABLES
  overallMutex, ws,  \* the lock and the semaphores of the condition variables
  index,
  pc                 \* where each worker is

vars == <<overallMutex, ws, index, pc>>

Blocked(w) == Waits(overallMutex, w) \/ Waits(ws[w], w)
Moves(w, a, b) == pc[w] = a /\ ~Blocked(w) /\ pc' = [pc EXCEPT ![w] = b]

\* cond_wait: up(mutex), down(&(cvp->sem)), down(mutex)
Releases(w) ==
  Moves(w, "wait", "sleep") /\ overallMutex' = Up(overallMutex) /\ UNCHANGED <<ws, index>>

Sleeps(w) ==
  /\ Moves(w, "sleep", "relock") /\ ws' = [ws EXCEPT ![w] = Down(@, w)]
  /\ UNCHANGED <<overallMutex, index>>

Relocks(w) ==
  Moves(w, "relock", "count") /\ overallMutex' = Down(overallMutex, w) /\ UNCHANGED <<ws, index>>

Counts(w) ==
  Moves(w, "count", "wrap") /\ index' = index + 1 /\ UNCHANGED <<overallMutex, ws>>

Wraps(w) ==
  Moves(w, "wrap", "signal") /\ index' = index % 3 /\ UNCHANGED <<overallMutex, ws>>

\* mutant: signals all the others
SignalsAll(w) ==
  /\ Moves(w, "signal", "wait") /\ ws' = [v \in Worker |-> IF v = w THEN ws[v] ELSE Up(ws[v])]
  /\ UNCHANGED <<overallMutex, index>>

\* cond_signal
Signals(w) ==
  /\ Moves(w, "signal", "wait") /\ ws' = [ws EXCEPT ![index] = Up(@)]
  /\ UNCHANGED <<overallMutex, index>>

Work(w) == Releases(w) \/ Sleeps(w) \/ Relocks(w) \/ Counts(w) \/ Wraps(w) \/ Signals(w)

\* check_exercise signals ws[0] before it starts the workers
Init ==
  /\ overallMutex = SemInit(0)
  /\ ws = [w \in Worker |-> SemInit(IF w = 0 THEN 1 ELSE 0)]
  /\ index = 0
  /\ pc = [w \in Worker |-> "wait"]

Next == \E w \in Worker : Work(w)

Spec == Init /\ [][Next]_vars

\* kernel threads that are not blocked are run again (schedule)
FairSpec == Spec /\ \A w \in Worker : WF_vars(Work(w))

------------------------------------------------------------------------------
\* the workers that have a signal or are at work on one
Busy == {w \in Worker : \/ ws[w].value > 0
                        \/ pc[w] = "relock" /\ ~Waits(ws[w], w)
                        \/ pc[w] \in {"count", "wrap", "signal"}}

\* One signal goes round: the lock that nobody holds is not needed, because one
\* worker at a time has a signal to work on, kept or delivered, and it is the one
\* that index names until it counts.  The others may run, as far as their semaphore.
OneBusy ==
  \E w \in Worker :
    /\ Busy = {w} /\ ws[w].value <= 1
    /\ pc[w] \notin {"wrap", "signal"} => index = w
    /\ pc[w] = "wrap" => index = w + 1
    /\ pc[w] = "signal" => index = (w + 1) % 3
=============================================================================
