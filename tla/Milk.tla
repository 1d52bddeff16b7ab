--------------------------------- MODULE Milk ---------------------------------
(* The fridge of assignment 8, kern/sync/check_milk.c, on the condition        *)
(* variables of condvar.c.  A signal without a waiter is kept, so a buyer can   *)
(* come out of cond_wait long after the milk was bought.                        *)
EXTENDS Naturals, Semaphore

CONSTANTS
  Buyer, Drinker,  \* mom and sister; dad and you
  Portion, Bottle, \* 20 and 100
  MaxSignals       \* bound: so many signals are kept, the others are lost

MilkAssumption ==
  /\ Buyer \cap Drinker = {}
  /\ {Portion, Bottle, MaxSignals} \subseteq Nat \ {0} /\ Bottle % Portion = 0

Thread == Buyer \cup Drinker

VARIABLES
  mutex, p1,  \* the lock, and the semaphore of the condition variable
  milk, pc

vars == <<mutex, p1, milk, pc>>

Blocked(t) == Waits(mutex, t) \/ Waits(p1, t)
Moves(t, a, b) == pc[t] = a /\ ~Blocked(t) /\ pc' = [pc EXCEPT ![t] = b]

\* down(&mutex), after do_sleep
Enters(t) == Moves(t, "asleep", "check") /\ mutex' = Down(mutex, t) /\ UNCHANGED <<p1, milk>>

\* while (milk > 0) cond_wait(&p1, &mutex)
Releases(t) ==
  /\ t \in Buyer /\ milk > 0
  /\ Moves(t, "check", "wait") /\ mutex' = Up(mutex) /\ UNCHANGED <<p1, milk>>

Sleeps(t) == Moves(t, "wait", "relock") /\ p1' = Down(p1, t) /\ UNCHANGED <<mutex, milk>>

\* mutant: the test is an if
RelocksOnce(t) == Moves(t, "relock", "buy") /\ mutex' = Down(mutex, t) /\ UNCHANGED <<p1, milk>>

Relocks(t) == Moves(t, "relock", "check") /\ mutex' = Down(mutex, t) /\ UNCHANGED <<p1, milk>>

GoesToBuy(t) ==
  t \in Buyer /\ milk = 0 /\ Moves(t, "check", "buy") /\ UNCHANGED <<mutex, p1, milk>>

\* "What a waste of food!" when milk > 0
Buys(t) ==
  /\ Moves(t, "buy", IF milk > 0 THEN "waste" ELSE "leave")
  /\ milk' = IF milk > 0 THEN milk ELSE milk + Bottle
  /\ UNCHANGED <<mutex, p1>>

Drinks(t) ==
  /\ t \in Drinker /\ milk # 0
  /\ Moves(t, "check", "leave") /\ milk' = milk - Portion /\ UNCHANGED <<mutex, p1>>

\* cond_signal
Signals(t) ==
  /\ t \in Drinker /\ milk = 0
  /\ Moves(t, "check", "leave") /\ UNCHANGED <<mutex, milk>>
  /\ p1' = IF p1.value < MaxSignals THEN Up(p1) ELSE p1

\* up(&mutex); do_sleep(100)
Leaves(t) ==
  (Moves(t, "leave", "asleep") \/ Moves(t, "waste", "asleep"))
    /\ mutex' = Up(mutex) /\ UNCHANGED <<p1, milk>>

Run(t) == \/ Enters(t) \/ Releases(t) \/ Sleeps(t) \/ Relocks(t) \/ GoesToBuy(t) \/ Buys(t)
          \/ Drinks(t) \/ Signals(t) \/ Leaves(t)

Init ==
  /\ mutex = SemInit(1) /\ p1 = SemInit(0)
  /\ milk = Bottle
  /\ pc = [t \in Thread |-> "asleep"]

Next == \E t \in Thread : Run(t)

Spec == Init /\ [][Next]_vars

\* threads that are not blocked are run again, and do_sleep ends
FairSpec == Spec /\ \A t \in Thread : WF_vars(Run(t))

------------------------------------------------------------------------------
\* Nobody buys milk while there is some: what a buyer sees in the loop still holds
\* when it comes back from the shop, in spite of signals that are out of date.
NoWaste == \A t \in Thread : pc[t] # "waste" /\ (pc[t] = "buy" => milk = 0)
=============================================================================
