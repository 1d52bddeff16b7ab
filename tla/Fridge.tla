-------------------------------- MODULE Fridge --------------------------------
(* The fridge of assignment 7, A7/milk.c: three threads buy, the son drinks,   *)
(* with two POSIX semaphores and a mutex.  sem_wait, sem_post and the mutex are  *)
(* modelled by their specification; no order among waiters is assumed.          *)
EXTENDS Naturals, FiniteSets

CONSTANTS
  Buyer, Son,  \* mom, dad and grandfather; son
  Trips        \* of each buyer, 10 in the program; the son makes as many as all

FridgeAssumption == Son \notin Buyer /\ IsFiniteSet(Buyer) /\ Trips \in Nat \ {0}

Thread == Buyer \cup {Son}

VARIABLES
  sem_buying, sem_eating,
  fri_lock,  \* the mutex: the set of its holder
  num,       \* *num, the milk in the fridge
  pc,
  trips      \* begun so far

vars == <<sem_buying, sem_eating, fri_lock, num, pc, trips>>

Most(t) == IF t = Son THEN Trips * Cardinality(Buyer) ELSE Trips

Moves(t, a, b) == pc[t] = a /\ pc' = [pc EXCEPT ![t] = b]

\* sem_wait
Waits(t) ==
  /\ Moves(t, "wait", "lock")
  /\ IF t = Son THEN sem_eating > 0 /\ sem_eating' = sem_eating - 1 /\ UNCHANGED sem_buying
     ELSE sem_buying > 0 /\ sem_buying' = sem_buying - 1 /\ UNCHANGED sem_eating
  /\ UNCHANGED <<fri_lock, num, trips>>

Locks(t) ==
  /\ Moves(t, "lock", "fridge") /\ fri_lock = {} /\ fri_lock' = {t}
  /\ UNCHANGED <<sem_buying, sem_eating, num, trips>>

Buys(t) ==
  /\ t # Son /\ Moves(t, "fridge", "post") /\ num' = num + 1
  /\ UNCHANGED <<sem_buying, sem_eating, fri_lock, trips>>

\* while(1)printf("TAT~") when there is nothing to fetch
Fetches(t) ==
  /\ t = Son /\ Moves(t, "fridge", IF num = 0 THEN "stuck" ELSE "post")
  /\ num' = IF num = 0 THEN num ELSE num - 1
  /\ UNCHANGED <<sem_buying, sem_eating, fri_lock, trips>>

\* mutant: the son gives back the wrong semaphore
PostsEating(t) ==
  /\ Moves(t, "post", "check") /\ sem_eating' = sem_eating + 1
  /\ UNCHANGED <<sem_buying, fri_lock, num, trips>>

\* sem_post: a buyer has not compared num with 2 yet
Posts(t) ==
  /\ Moves(t, "post", "check")
  /\ IF t = Son THEN sem_buying' = sem_buying + 1 /\ UNCHANGED sem_eating
     ELSE sem_eating' = sem_eating + 1 /\ UNCHANGED sem_buying
  /\ UNCHANGED <<fri_lock, num, trips>>

\* "What a waste of food!", while(1)printf("TAT~"), when num > 2
Checks(t) ==
  /\ Moves(t, "check", IF t # Son /\ num > 2 THEN "stuck" ELSE "unlock")
  /\ UNCHANGED <<sem_buying, sem_eating, fri_lock, num, trips>>

Unlocks(t) ==
  /\ Moves(t, "unlock", IF trips[t] < Most(t) THEN "wait" ELSE "done")
  /\ trips' = [trips EXCEPT ![t] = IF @ < Most(t) THEN @ + 1 ELSE @]
  /\ fri_lock' = {}
  /\ UNCHANGED <<sem_buying, sem_eating, num>>

Run(t) == Waits(t) \/ Locks(t) \/ Buys(t) \/ Fetches(t) \/ Posts(t) \/ Checks(t) \/ Unlocks(t)

Init ==
  /\ sem_buying = 2 /\ sem_eating = 0
  /\ fri_lock = {} /\ num = 0
  /\ pc = [t \in Thread |-> "wait"] /\ trips = [t \in Thread |-> 1]

AllDone == \A t \in Thread : pc[t] = "done"

Next == (\E t \in Thread : Run(t)) \/ (AllDone /\ UNCHANGED vars)

Spec == Init /\ [][Next]_vars

\* threads run; who has to finish is not kept out of a lock for ever by others
\* that finish
FairSpec == Spec /\ \A t \in Thread : WF_vars(Run(t))

=============================================================================
