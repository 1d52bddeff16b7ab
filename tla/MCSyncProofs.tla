----------------------------- MODULE MCSyncProofs -----------------------------
(* Safety of the programs whose threads wait for each other, as the sum that TLC   *)
(* checks puts them together.  A step of the sum is a step of one of them or        *)
(* leaves its variables alone, so an invariant of one is an invariant of the sum.   *)
(*                                                                                  *)
(* The philosophers with semaphores come from PhilSemaProofs, through the instance  *)
(* SP; the Hoare monitor, the bicycle line, the fridge of assignment 8 and the      *)
(* keyboard are proved here.                                                        *)
EXTENDS MCSync, Lemmas, FiniteSetTheorems
------------------------------------------------------------------------------
(* The Hoare monitor under its client, for any number of philosophers and        *)
(* rounds, and its refinement of the abstract table.  There is one baton.  It is *)
(* either with the thread that is active in the monitor, or in mutex, or in      *)
(* next, or in one cv[j], where an up() has left it for a thread that has not    *)
(* come to its down() yet.                                                       *)

\* The neighbours of a philosopher are other philosophers, and left and right
\* undo each other (LEFT and RIGHT of check_sync.c).
LEMMA Around ==
  \A i \in Phil :
    /\ Left(i) \in Phil /\ Right(i) \in Phil
    /\ Left(Right(i)) = i /\ Right(Left(i)) = i
    /\ Left(i) # i /\ Right(i) # i
<1>1. N \in Nat /\ N > 1 /\ Phil = 0..(N - 1)
  BY RingAssumption DEF Phil
<1>2. \A i \in Phil :
        /\ Right(i) = IF i = N - 1 THEN 0 ELSE i + 1
        /\ Left(i) = IF i = 0 THEN N - 1 ELSE i - 1
  BY <1>1, Neighbours DEF Left, Right
<1>3. QED BY <1>1, <1>2

\* who can stand in which semaphore's queue
QueueInv ==
  \A i, j \in Phil :
    /\ Waits(mutex, i) => pc[i] \in {"take", "put"}
    /\ Waits(next, i) => pc[i] \in {"backO", "backL", "backR"}
    /\ Waits(cv[j], i) => i = j /\ pc[i] = "woken"

Baton ==
  /\ OneActive
  /\ Active # {} \/ mutex.value = 1 \/ next.value = 1 => \A j \in Phil : cv[j].value = 0
  /\ Active # {} \/ mutex.value = 1 => next.value = 0
  /\ Active # {} => mutex.value = 0
  /\ \A j, k \in Phil : cv[j].value = 1 /\ cv[k].value = 1 => j = k

\* what state_condvar[i] is at each place
PhaseInv ==
  \A i \in Phil :
    /\ pc[i] \in {"think", "take", "testL", "sigL", "backL", "testR", "sigR", "backR",
                  "leave", "done"} => state_condvar[i] = "THINKING"
    /\ pc[i] = "hungry" => state_condvar[i] = "HUNGRY"
    /\ pc[i] \in {"took", "waiting", "woken"} => state_condvar[i] # "THINKING"
    /\ pc[i] \in {"sigO", "backO", "eat", "put"} => state_condvar[i] = "EATING"
    /\ pc[i] = "woken" /\ ~Blocked(i) => state_condvar[i] = "EATING"
    /\ cv[i].value = 1 => pc[i] = "waiting" /\ state_condvar[i] = "EATING"

\* signallers go on before the door is opened
DoorInv == mutex.value = 1 => next_count = 0

\* whoever could eat and waits for it is about to be tested
Tested(i) ==
  \E k \in Phil :
    \/ pc[k] = "testL" /\ i \in {Left(k), Right(k)}
    \/ pc[k] \in {"sigL", "backL", "testR"} /\ i = Right(k)
TestInv ==
  \A i \in Phil : pc[i] \in {"took", "waiting", "woken"} /\ CanEat(i) => Tested(i)

IInv ==
  /\ TypeOK /\ CountersExact /\ QueueInv /\ Baton /\ PhaseInv
  /\ NeighboursApart /\ DoorInv /\ TestInv

-----------------------------------------------------------------------------
(* The shape of a step.                                                    *)

\* A thread that runs inside the monitor is the active one, and the baton is
\* nowhere else.
LEMMA RunnerActive ==
  ASSUME IInv, NEW i \in Phil, pc[i] \in Inside, ~Blocked(i)
  PROVE  /\ i \in Active /\ \A j \in Active : j = i
         /\ mutex.value = 0 /\ next.value = 0 /\ \A j \in Phil : cv[j].value = 0
BY DEF IInv, Baton, OneActive, Active

LEMMA PhilFinite == IsFiniteSet(Phil) /\ IsFiniteSet(Signallers)
<1>1. IsFiniteSet(Phil)
  BY FS_Interval, RingAssumption DEF Phil
<1> QED
  BY <1>1, FS_Subset DEF Signallers

LEMMA TypeStep ==
  ASSUME IInv, NEW i \in Phil, Phi(i)
  PROVE  TypeOK'
<1> USE DEF TypeOK, Places, Phases
<1>0. TypeOK /\ Left(i) \in Phil /\ Right(i) \in Phil
  BY Around DEF IInv
<1>1. ASSUME ~Blocked(i), pc[i] \in Inside
      PROVE  /\ Up(mutex) \in Binary(Phil) /\ Up(next) \in Binary(Phil)
             /\ \A j \in Phil : Up(cv[j]) \in Binary(Phil)
  BY <1>0, <1>1, RunnerActive, UpFacts
<1>2. /\ Down(mutex, i) \in Binary(Phil) /\ Down(next, i) \in Binary(Phil)
      /\ \A j \in Phil : Down(cv[j], i) \in Binary(Phil)
  BY <1>0, DownFacts
<1>3. ASSUME pc[i] \in Inside, ~Blocked(i), Release
      PROVE  mutex' \in Binary(Phil) /\ next' \in Binary(Phil)
  BY <1>0, <1>1, <1>3 DEF Release
<1>4. ASSUME NEW j \in Phil, NEW sig \in Places, NEW cont \in Places,
             pc[i] \in Inside, Test(i, j, sig, cont)
      PROVE  TypeOK'
  BY <1>0, <1>1, <1>4 DEF Test, Signal
<1>a. CASE TakeEnters(i)
  BY <1>0, <1>2, <1>a DEF TakeEnters, Moves
<1>b. CASE GetsHungry(i)
  BY <1>0, <1>b DEF GetsHungry, Moves, sync
<1>c. CASE TestsItself(i)
  BY <1>0, <1>4, <1>c DEF TestsItself, Inside
<1>d. CASE CondWaits(i)
  BY <1>0, <1>3, <1>d DEF CondWaits, Moves, Inside
<1>e. CASE CondSleeps(i)
  BY <1>0, <1>2, <1>e DEF CondSleeps, Moves
<1>f. CASE TakeLeaves(i)
  BY <1>0, <1>3, <1>f DEF TakeLeaves, Moves, Inside, IInv, CountersExact
<1>g. CASE PutEnters(i)
  BY <1>0, <1>2, <1>g DEF PutEnters, Moves
<1>h. CASE StopsEating(i)
  BY <1>0, <1>h DEF StopsEating, Moves, sync
<1>i. CASE TestsLeft(i)
  BY <1>0, <1>4, <1>i DEF TestsLeft, Inside
<1>j. CASE TestsRight(i)
  BY <1>0, <1>4, <1>j DEF TestsRight, Inside
<1>k. CASE PutLeaves(i)
  BY <1>0, <1>3, <1>k, RingAssumption DEF PutLeaves, Moves, Inside
<1>l. CASE SignalWaits(i)
  BY <1>0, <1>2, <1>l DEF SignalWaits, Moves, After
<1>m. CASE SignalReturns(i)
  <2>1. i \in Signallers /\ next_count = Cardinality(Signallers) /\ next_count \in Nat
    BY <1>0, <1>m DEF SignalReturns, Signallers, After, IInv, CountersExact
  <2>2. next_count # 0
    BY <2>1, PhilFinite, FS_EmptySet
  <2> QED
    BY <1>0, <1>m, <2>1, <2>2 DEF SignalReturns, Moves, After
<1> QED
  BY <1>a, <1>b, <1>c, <1>d, <1>e, <1>f, <1>g, <1>h, <1>i, <1>j, <1>k, <1>l, <1>m DEF Phi

\* The pc of one thread changes in a step, and it is not blocked.
LEMMA PcStep ==
  ASSUME IInv, NEW i \in Phil, Phi(i)
  PROVE  /\ ~Blocked(i)
         /\ \A j \in Phil : j # i => pc'[j] = pc[j]
         /\ pc' \in [Phil -> Places]
<1> USE DEF IInv, TypeOK, Places
<1>1. ~Blocked(i)
  BY DEF Phi, TakeEnters, GetsHungry, TestsItself, CondWaits, CondSleeps, TakeLeaves,
     PutEnters, StopsEating, TestsLeft, TestsRight, PutLeaves, SignalWaits, SignalReturns,
     Moves, Test
<1>2. \A j \in Phil : j # i => pc'[j] = pc[j]
  BY DEF Phi, TakeEnters, GetsHungry, TestsItself, CondWaits, CondSleeps, TakeLeaves,
     PutEnters, StopsEating, TestsLeft, TestsRight, PutLeaves, SignalWaits, SignalReturns,
     Moves, Test, Signal
<1> QED
  BY <1>1, <1>2, TypeStep

LEMMA CountersStep ==
  ASSUME IInv, NEW i \in Phil, Phi(i)
  PROVE  CountersExact'
<1>0. TypeOK /\ CountersExact /\ IsFiniteSet(Signallers)
  BY PhilFinite DEF IInv
<1>1. ASSUME pc'[i] \notin DOMAIN After <=> pc[i] \notin DOMAIN After,
             next_count' = next_count
      PROVE  next_count' = Cardinality(Signallers')
  <2>1. Signallers' = Signallers
    BY <1>1, PcStep DEF Signallers
  <2> QED
    BY <1>0, <1>1, <2>1 DEF CountersExact
<1>2. ASSUME pc'[i] \in DOMAIN After, pc[i] \notin DOMAIN After,
             next_count' = next_count + 1
      PROVE  next_count' = Cardinality(Signallers')
  <2>1. Signallers' = Signallers \cup {i} /\ i \notin Signallers
    BY <1>2, PcStep DEF Signallers
  <2> QED
    BY <1>0, <1>2, <2>1, FS_AddElement DEF CountersExact
<1>3. ASSUME pc'[i] \notin DOMAIN After, pc[i] \in DOMAIN After,
             next_count' = next_count - 1
      PROVE  next_count' = Cardinality(Signallers')
  <2>1. Signallers' = Signallers \ {i} /\ i \in Signallers
    BY <1>3, PcStep DEF Signallers
  <2> QED
    BY <1>0, <1>3, <2>1, FS_RemoveElement DEF CountersExact
<1>4. ASSUME NEW j \in Phil, NEW sig \in Places, NEW cont \in Places,
             Test(i, j, sig, cont), pc[i] \notin DOMAIN After, cont \notin DOMAIN After,
             sig \in DOMAIN After, pc[i] \notin {"waiting", "woken"},
             {sig, cont} \cap {"waiting", "woken"} = {}
      PROVE  CountersExact'
  <2>0. pc'[i] \in {sig, cont} /\ count' = count
    BY <1>0, <1>4 DEF Test, Signal, TypeOK
  <2>1. next_count' = Cardinality(Signallers')
    <3>1. CASE pc' = [pc EXCEPT ![i] = sig] /\ next_count' = next_count + 1
      BY <1>0, <1>2, <1>4, <3>1 DEF TypeOK
    <3>2. CASE pc' = [pc EXCEPT ![i] = cont] /\ next_count' = next_count
      BY <1>0, <1>1, <1>4, <3>2 DEF TypeOK
    <3> QED
      BY <1>4, <3>1, <3>2 DEF Test, Signal
  <2> QED
    BY <1>0, <1>4, <2>0, <2>1, PcStep DEF CountersExact
<1>5. ASSUME \/ pc'[i] \notin DOMAIN After /\ pc[i] \notin DOMAIN After
             \/ pc'[i] \in DOMAIN After /\ pc[i] \in DOMAIN After,
             next_count' = next_count,
             count'[i] = IF pc'[i] \in {"waiting", "woken"} THEN 1 ELSE 0,
             \A j \in Phil : j # i => count'[j] = count[j]
      PROVE  CountersExact'
  BY <1>0, <1>1, <1>5, PcStep DEF CountersExact
<1> USE DEF After
<1>a. CASE TakeEnters(i)
  BY <1>0, <1>5, <1>a DEF TakeEnters, Moves, TypeOK, CountersExact
<1>b. CASE GetsHungry(i)
  BY <1>0, <1>5, <1>b DEF GetsHungry, Moves, TypeOK, CountersExact, sync
<1>c. CASE TestsItself(i)
  BY <1>4, <1>c DEF TestsItself, Places
<1>d. CASE CondWaits(i)
  BY <1>0, <1>5, <1>d DEF CondWaits, Moves, TypeOK, CountersExact
<1>e. CASE CondSleeps(i)
  BY <1>0, <1>5, <1>e DEF CondSleeps, Moves, TypeOK, CountersExact
<1>f. CASE TakeLeaves(i)
  BY <1>0, <1>5, <1>f DEF TakeLeaves, Moves, TypeOK, CountersExact
<1>g. CASE PutEnters(i)
  BY <1>0, <1>5, <1>g DEF PutEnters, Moves, TypeOK, CountersExact
<1>h. CASE StopsEating(i)
  BY <1>0, <1>5, <1>h DEF StopsEating, Moves, TypeOK, CountersExact, sync
<1>i. CASE TestsLeft(i)
  BY <1>0, <1>4, <1>i, Around DEF TestsLeft, Places
<1>j. CASE TestsRight(i)
  BY <1>0, <1>4, <1>j, Around DEF TestsRight, Places
<1>k. CASE PutLeaves(i)
  BY <1>0, <1>5, <1>k DEF PutLeaves, Moves, TypeOK, CountersExact
<1>l. CASE SignalWaits(i)
  BY <1>0, <1>5, <1>l DEF SignalWaits, Moves, TypeOK, CountersExact
<1>m. CASE SignalReturns(i)
  BY <1>0, <1>3, <1>m, PcStep DEF SignalReturns, Moves, TypeOK, CountersExact
<1> QED
  BY <1>a, <1>b, <1>c, <1>d, <1>e, <1>f, <1>g, <1>h, <1>i, <1>j, <1>k, <1>l, <1>m DEF Phi

\* Queues: up() only lets threads out, down() only lets its caller in.
LEMMA QueueStep ==
  ASSUME IInv, NEW i \in Phil, Phi(i)
  PROVE  QueueInv'
<1> USE DEF QueueInv
<1>0. TypeOK /\ QueueInv /\ ~Blocked(i)
  BY PcStep DEF IInv
<1>1. \A j \in Phil : ~Waits(mutex, i) /\ ~Waits(next, i) /\ ~Waits(cv[j], i)
  BY <1>0 DEF Blocked
<1>2. ASSUME pc[i] \in Inside
      PROVE  /\ \A j : Waits(Up(mutex), j) => Waits(mutex, j)
             /\ \A j : Waits(Up(next), j) => Waits(next, j)
             /\ \A k \in Phil : \A j : Waits(Up(cv[k]), j) => Waits(cv[k], j)
  BY <1>0, <1>2, RunnerActive, UpFacts DEF TypeOK
<1>3. /\ \A j : Waits(Down(mutex, i), j) => Waits(mutex, j) \/ j = i
      /\ \A j : Waits(Down(next, i), j) => Waits(next, j) \/ j = i
      /\ \A k \in Phil : \A j : Waits(Down(cv[k], i), j) => Waits(cv[k], j) \/ j = i
  <2>1. \A q \in Binary(Phil) : \A j : Waits(Down(q, i), j) => Waits(q, j) \/ j = i
    BY DownFacts
  <2> QED
    BY <1>0, <2>1 DEF TypeOK
\* no queue grows
<1>4. ASSUME \A j \in Phil : Waits(mutex', j) => Waits(mutex, j),
             \A j \in Phil : Waits(next', j) => Waits(next, j),
             \A j, k \in Phil : Waits(cv'[k], j) => Waits(cv[k], j)
      PROVE  QueueInv'
  BY <1>0, <1>1, <1>4, PcStep
<1>5. ASSUME pc[i] \in Inside, Release, cv' = cv
      PROVE  QueueInv'
  BY <1>2, <1>4, <1>5 DEF Release
<1>6. ASSUME NEW j \in Phil, NEW sig, NEW cont, pc[i] \in Inside, Test(i, j, sig, cont)
      PROVE  QueueInv'
  BY <1>0, <1>2, <1>4, <1>6 DEF Test, Signal, TypeOK
<1>a. CASE TakeEnters(i) \/ PutEnters(i)
  BY <1>0, <1>1, <1>3, <1>a, PcStep DEF TakeEnters, PutEnters, Moves, TypeOK
<1>b. CASE GetsHungry(i) \/ StopsEating(i)
  BY <1>4, <1>b DEF GetsHungry, StopsEating, sync
<1>c. CASE TestsItself(i) \/ TestsLeft(i) \/ TestsRight(i)
  BY <1>6, <1>c, Around DEF TestsItself, TestsLeft, TestsRight, Inside
<1>d. CASE CondWaits(i) \/ TakeLeaves(i) \/ PutLeaves(i)
  BY <1>5, <1>d DEF CondWaits, TakeLeaves, PutLeaves, Moves, Inside
<1>e. CASE CondSleeps(i)
  BY <1>0, <1>1, <1>3, <1>e, PcStep DEF CondSleeps, Moves, TypeOK
<1>f. CASE SignalWaits(i)
  BY <1>0, <1>1, <1>3, <1>f, PcStep DEF SignalWaits, Moves, TypeOK, After
<1>g. CASE SignalReturns(i)
  BY <1>4, <1>g DEF SignalReturns
<1> QED
  BY <1>a, <1>b, <1>c, <1>d, <1>e, <1>f, <1>g DEF Phi

\* The baton is never duplicated.
LEMMA BatonStep ==
  ASSUME IInv, NEW i \in Phil, Phi(i)
  PROVE  Baton'
<1>0. TypeOK /\ QueueInv /\ Baton /\ TypeOK' /\ ~Blocked(i)
  BY PcStep, TypeStep DEF IInv
<1>1. \A j \in Phil : ~Waits(mutex, i) /\ ~Waits(next, i) /\ ~Waits(cv[j], i)
  BY <1>0 DEF Blocked
\* i keeps the baton
<1>2. ASSUME mutex' = mutex, next' = next, cv' = cv, pc[i] \in Inside, pc'[i] \in Inside
      PROVE  Baton'
  <2>1. \A j \in Phil : Blocked(j)' <=> Blocked(j)
    BY <1>2 DEF Blocked
  <2>2. Active' \subseteq Active
    BY <1>0, <1>2, <2>1, PcStep DEF Active
  <2> QED
    BY <1>0, <1>2, <2>2, RunnerActive DEF Baton, OneActive
\* i takes it from a semaphore, or queues up there
<1>3. ASSUME pc[i] \notin Inside, pc'[i] \in Inside,
             \A j \in Phil : j # i => (Blocked(j)' <=> Blocked(j))
      PROVE  Active' = IF Blocked(i)' THEN Active ELSE Active \cup {i}
  BY <1>3, PcStep DEF Active
<1>4. CASE TakeEnters(i) \/ PutEnters(i)
  <2>1. /\ pc[i] \notin Inside /\ pc'[i] \in Inside
        /\ mutex' = Down(mutex, i) /\ next' = next /\ cv' = cv
    BY <1>0, <1>4 DEF TakeEnters, PutEnters, Moves, Inside, TypeOK
  <2>2. mutex \in Binary(Phil)
    BY <1>0 DEF TypeOK
  <2>3. CASE mutex.value = 1
    <3>1. \A j \in Phil : Blocked(j)' <=> Blocked(j)
      BY <2>1, <2>2, <2>3, DownFacts DEF Blocked
    <3>2. Active' \subseteq {i} /\ mutex'.value = 0
      BY <1>0, <1>3, <2>1, <2>2, <2>3, <3>1, DownFacts DEF Baton
    <3> QED
      BY <1>0, <2>1, <2>3, <3>2 DEF Baton, OneActive
  <2>4. CASE mutex.value = 0
    <3>1. Blocked(i)' /\ \A j \in Phil : j # i => (Blocked(j)' <=> Blocked(j))
      BY <2>1, <2>2, <2>4, DownFacts DEF Blocked
    <3>2. Active' = Active /\ mutex'.value = 0
      BY <1>3, <2>1, <2>2, <3>1, DownFacts
    <3> QED
      BY <1>0, <2>1, <2>4, <3>2 DEF Baton, OneActive
  <2> QED
    BY <2>2, <2>3, <2>4, DownFacts
<1>5. CASE SignalWaits(i)
  <2>1. /\ pc[i] \notin Inside /\ pc'[i] \in Inside
        /\ next' = Down(next, i) /\ mutex' = mutex /\ cv' = cv
    BY <1>0, <1>5 DEF SignalWaits, Moves, Inside, TypeOK, After
  <2>2. next \in Binary(Phil)
    BY <1>0 DEF TypeOK
  <2>3. CASE next.value = 1
    <3>1. \A j \in Phil : Blocked(j)' <=> Blocked(j)
      BY <2>1, <2>2, <2>3, DownFacts DEF Blocked
    <3>2. Active' \subseteq {i} /\ next'.value = 0
      BY <1>0, <1>3, <2>1, <2>2, <2>3, <3>1, DownFacts DEF Baton
    <3>3. mutex.value # 1
      BY <1>0, <2>3 DEF Baton
    <3> QED
      BY <1>0, <2>1, <2>3, <3>2, <3>3 DEF Baton, OneActive, TypeOK, Binary
  <2>4. CASE next.value = 0
    <3>1. Blocked(i)' /\ \A j \in Phil : j # i => (Blocked(j)' <=> Blocked(j))
      BY <2>1, <2>2, <2>4, DownFacts DEF Blocked
    <3>2. Active' = Active /\ next'.value = 0
      BY <1>3, <2>1, <2>2, <3>1, DownFacts
    <3> QED
      BY <1>0, <2>1, <2>4, <3>2 DEF Baton, OneActive
  <2> QED
    BY <2>2, <2>3, <2>4, DownFacts
<1>6. CASE CondSleeps(i)
  <2>1. /\ pc[i] \notin Inside /\ pc'[i] \in Inside
        /\ cv' = [cv EXCEPT ![i] = Down(@, i)] /\ mutex' = mutex /\ next' = next
    BY <1>0, <1>6 DEF CondSleeps, Moves, Inside, TypeOK
  <2>2. cv[i] \in Binary(Phil) /\ cv'[i] = Down(cv[i], i)
        /\ \A j \in Phil : j # i => cv'[j] = cv[j]
    BY <1>0, <2>1 DEF TypeOK
  <2>3. CASE cv[i].value = 1
    <3>1. \A j, k \in Phil : Waits(cv'[k], j) <=> Waits(cv[k], j)
      BY <2>2, <2>3, DownFacts
    <3>2. \A j \in Phil : Blocked(j)' <=> Blocked(j)
      BY <2>1, <3>1 DEF Blocked
    <3>3. Active' \subseteq {i} /\ cv'[i].value = 0
      BY <1>0, <1>3, <2>1, <2>2, <2>3, <3>2, DownFacts DEF Baton
    <3>4. mutex.value # 1 /\ next.value # 1 /\ \A j \in Phil : j # i => cv[j].value # 1
      BY <1>0, <2>3 DEF Baton
    <3>5. mutex.value \in {0, 1} /\ next.value \in {0, 1}
          /\ \A j \in Phil : cv[j].value \in {0, 1}
      BY <1>0 DEF TypeOK, Binary
    <3> QED
      BY <2>1, <2>2, <3>3, <3>4, <3>5 DEF Baton, OneActive
  <2>4. CASE cv[i].value = 0
    <3>1. /\ Waits(cv'[i], i)
          /\ \A j, k \in Phil : j # i => (Waits(cv'[k], j) <=> Waits(cv[k], j))
      BY <2>2, <2>4, DownFacts
    <3>2. Blocked(i)' /\ \A j \in Phil : j # i => (Blocked(j)' <=> Blocked(j))
      BY <2>1, <3>1 DEF Blocked
    <3>3. Active' = Active /\ cv'[i].value = 0
      BY <1>3, <2>1, <2>2, <3>2, DownFacts
    <3> QED
      BY <1>0, <2>1, <2>2, <2>4, <3>3 DEF Baton, OneActive
  <2> QED
    BY <2>2, <2>3, <2>4, DownFacts
\* i gives it to a semaphore: to the first waiter, or to the value
<1>7. ASSUME pc[i] \in Inside, pc'[i] \notin Inside,
             \/ mutex' = Up(mutex) /\ next' = next /\ cv' = cv
             \/ next' = Up(next) /\ mutex' = mutex /\ cv' = cv
             \/ /\ mutex' = mutex /\ next' = next
                /\ \E j \in Phil : cv' = [cv EXCEPT ![j] = Up(@)]
      PROVE  Baton'
  <2>1. /\ \A j \in Active : j = i
        /\ mutex.value = 0 /\ next.value = 0 /\ \A j \in Phil : cv[j].value = 0
    BY <1>0, <1>7, RunnerActive
  <2>2. i \notin Active' /\ \A j \in Active' : pc[j] \in Inside /\ Blocked(j) /\ ~Blocked(j)'
    <3>1. \A j \in Active' : j \in Phil /\ j # i /\ pc[j] \in Inside /\ ~Blocked(j)'
      BY <1>7, PcStep DEF Active
    <3> QED
      BY <2>1, <3>1, <1>7 DEF Active
  <2>3. CASE mutex' = Up(mutex) /\ next' = next /\ cv' = cv
    <3>1. mutex \in Binary(Phil) /\ mutex' \in Binary(Phil)
      BY <1>0 DEF TypeOK
    <3>2. \A j \in Active' : Waits(mutex, j) /\ ~Waits(Up(mutex), j)
      BY <2>2, <2>3 DEF Blocked, Active
    <3>3. OneActive' /\ (mutex'.value = 1 => Active' = {})
      BY <2>1, <2>3, <3>1, <3>2, UpFacts DEF OneActive, Active, Binary
    <3> QED
      BY <2>1, <2>3, <3>1, <3>3 DEF Baton, Binary
  <2>4. CASE next' = Up(next) /\ mutex' = mutex /\ cv' = cv
    <3>1. next \in Binary(Phil) /\ next' \in Binary(Phil)
      BY <1>0 DEF TypeOK
    <3>2. \A j \in Active' : Waits(next, j) /\ ~Waits(Up(next), j)
      BY <2>2, <2>4 DEF Blocked, Active
    <3>3. OneActive' /\ (next'.value = 1 => Active' = {})
      BY <2>1, <2>4, <3>1, <3>2, UpFacts DEF OneActive, Active, Binary
    <3> QED
      BY <2>1, <2>4, <3>1, <3>3 DEF Baton, Binary
  <2>5. ASSUME NEW k \in Phil, mutex' = mutex, next' = next, cv' = [cv EXCEPT ![k] = Up(@)]
        PROVE  Baton'
    <3>1. /\ cv[k] \in Binary(Phil) /\ cv'[k] \in Binary(Phil) /\ cv'[k] = Up(cv[k])
          /\ \A j \in Phil : j # k => cv'[j] = cv[j]
      BY <1>0, <2>5 DEF TypeOK
    <3>2. \A j \in Active' : Waits(cv[k], j) /\ ~Waits(Up(cv[k]), j)
      BY <2>2, <2>5, <3>1 DEF Blocked, Active
    <3>3. OneActive' /\ (cv'[k].value = 1 => Active' = {})
      BY <2>1, <3>1, <3>2, UpFacts DEF OneActive, Active, Binary
    <3> QED
      BY <2>1, <2>5, <3>1, <3>3 DEF Baton, Binary
  <2> QED
    BY <1>7, <2>3, <2>4, <2>5
<1>8. CASE GetsHungry(i) \/ StopsEating(i) \/ SignalReturns(i)
  BY <1>0, <1>2, <1>8 DEF GetsHungry, StopsEating, SignalReturns, Moves, sync, Inside, TypeOK,
     After
<1>9. CASE CondWaits(i) \/ TakeLeaves(i) \/ PutLeaves(i)
  <2>1. pc[i] \in Inside /\ pc'[i] \notin Inside /\ Release /\ cv' = cv
    BY <1>0, <1>9 DEF CondWaits, TakeLeaves, PutLeaves, Moves, Inside, TypeOK
  <2> QED
    BY <1>7, <2>1 DEF Release
<1>10. ASSUME NEW j \in Phil, NEW sig, NEW cont, Test(i, j, sig, cont),
              pc[i] \in Inside, sig \notin Inside, cont \in Inside
       PROVE  Baton'
  <2>1. CASE CanEat(j) /\ count[j] > 0
    BY <1>0, <1>7, <1>10, <2>1 DEF Test, Signal, TypeOK
  <2>2. CASE ~(CanEat(j) /\ count[j] > 0)
    BY <1>0, <1>2, <1>10, <2>2 DEF Test, Signal, TypeOK
  <2> QED
    BY <2>1, <2>2
<1>11. CASE TestsItself(i) \/ TestsLeft(i) \/ TestsRight(i)
  BY <1>10, <1>11, Around DEF TestsItself, TestsLeft, TestsRight, Inside
<1> QED
  BY <1>4, <1>5, <1>6, <1>8, <1>9, <1>11 DEF Phi

\* Who is unblocked by a step: nobody that waits on a semaphore left alone.
LEMMA PhaseStep ==
  ASSUME IInv, NEW i \in Phil, Phi(i)
  PROVE  PhaseInv'
<1>0. TypeOK /\ QueueInv /\ Baton /\ PhaseInv /\ CountersExact /\ ~Blocked(i)
      /\ TypeOK' /\ QueueInv'
  BY PcStep, TypeStep, QueueStep DEF IInv
<1> DEFINE Fixed(j) ==
      /\ pc[j] \in {"think", "take", "testL", "sigL", "backL", "testR", "sigR", "backR",
                    "leave", "done"} => state_condvar[j] = "THINKING"
      /\ pc[j] = "hungry" => state_condvar[j] = "HUNGRY"
      /\ pc[j] \in {"took", "waiting", "woken"} => state_condvar[j] # "THINKING"
      /\ pc[j] \in {"sigO", "backO", "eat", "put"} => state_condvar[j] = "EATING"
    Given(j) ==
      /\ pc[j] = "woken" /\ ~Blocked(j) => state_condvar[j] = "EATING"
      /\ cv[j].value = 1 => pc[j] = "waiting" /\ state_condvar[j] = "EATING"
<1>1. PhaseInv <=> \A j \in Phil : Fixed(j) /\ Given(j)
  BY DEF PhaseInv
<1>2. PhaseInv' <=> \A j \in Phil : Fixed(j)' /\ Given(j)'
  BY DEF PhaseInv
\* nothing is given to j when its semaphore and its place stay
<1>3. ASSUME NEW j \in Phil, cv'[j] = cv[j], pc'[j] = pc[j],
             state_condvar'[j] = state_condvar[j]
      PROVE  Fixed(j)' /\ Given(j)'
  <2>1. ASSUME pc[j] = "woken", ~Blocked(j)'
        PROVE  ~Blocked(j)
    BY <1>0, <1>3, <2>1 DEF QueueInv, Blocked
  <2> QED
    BY <1>0, <1>1, <1>3, <2>1
<1>4. ASSUME NEW j \in Phil, NEW sig, NEW cont, Test(i, j, sig, cont), pc[i] \in Inside,
             \/ pc[i] = "hungry" /\ i = j /\ sig = "sigO" /\ cont = "took"
             \/ pc[i] = "testL" /\ i # j /\ sig = "sigL" /\ cont = "testR"
             \/ pc[i] = "testR" /\ i # j /\ sig = "sigR" /\ cont = "leave"
      PROVE  PhaseInv'
  <2>1. CASE ~CanEat(j)
    <3>1. /\ \A k \in Phil : cv'[k] = cv[k] /\ state_condvar'[k] = state_condvar[k]
          /\ pc'[i] = cont
      BY <1>0, <1>4, <2>1 DEF Test, TypeOK
    <3>2. \A k \in Phil : k # i => Fixed(k)' /\ Given(k)'
      BY <1>3, <3>1, PcStep
    <3>3. Fixed(i)' /\ Given(i)'
      BY <1>0, <1>1, <1>4, <3>1
    <3> QED
      BY <1>2, <3>2, <3>3
  <2>2. CASE CanEat(j)
    <3>1. /\ state_condvar'[j] = "EATING" /\ pc'[i] \in {sig, cont}
          /\ \A k \in Phil : k # j => cv'[k] = cv[k] /\ state_condvar'[k] = state_condvar[k]
          /\ cv'[j] = IF count[j] > 0 THEN Up(cv[j]) ELSE cv[j]
      BY <1>0, <1>4, <2>2 DEF Test, Signal, TypeOK
    <3>2. \A k \in Phil : k # i /\ k # j => Fixed(k)' /\ Given(k)'
      BY <1>3, <3>1, PcStep
    <3>3. CASE i = j
      <4>1. count[i] = 0 /\ cv[i].value = 0
        BY <1>0, <1>4, <3>3, RunnerActive DEF CountersExact
      <4>2. Fixed(i)' /\ Given(i)'
        BY <1>0, <1>4, <3>1, <3>3, <4>1
      <4> QED
        BY <1>2, <3>2, <3>3, <4>2
    <3>4. CASE i # j
      <4>1. Fixed(i)' /\ Given(i)'
        BY <1>0, <1>1, <1>4, <3>1, <3>4
      <4>2. pc'[j] = pc[j] /\ pc[j] \in {"took", "waiting", "woken", "hungry"}
        BY <1>0, <1>1, <2>2, <3>4, PcStep DEF CanEat, TypeOK, Places
      <4>3. pc[j] \notin {"took", "hungry"} /\ (pc[j] = "woken" => Blocked(j))
        BY <1>4, <3>4, RunnerActive, <1>0 DEF Active, Inside, QueueInv, Blocked
      <4>4. cv'[j].value = 1 => pc[j] = "waiting"
        <5>1. SUFFICES ASSUME pc[j] = "woken", cv'[j].value = 1
                       PROVE  FALSE
          BY <4>2, <4>3
        <5>2. Waits(cv[j], j)
          BY <1>0, <4>3, <5>1 DEF Blocked, QueueInv
        <5>3. cv[j] \in Binary(Phil) /\ cv[j].value = 0
          BY <1>0, <1>4, RunnerActive DEF TypeOK
        <5> QED
          BY <3>1, <5>1, <5>2, <5>3, UpFacts
      <4>5. Fixed(j)' /\ Given(j)'
        BY <3>1, <4>2, <4>3, <4>4
      <4> QED
        BY <1>2, <3>2, <4>1, <4>5
    <3> QED
      BY <3>3, <3>4
  <2> QED
    BY <2>1, <2>2
<1>a. ASSUME \A k \in Phil : k # i => cv'[k] = cv[k] /\ state_condvar'[k] = state_condvar[k],
             Fixed(i)' /\ Given(i)'
      PROVE  PhaseInv'
  <2>1. \A k \in Phil : k # i => Fixed(k)' /\ Given(k)'
    BY <1>3, <1>a, PcStep
  <2> QED
    BY <1>2, <1>a, <2>1
<1> HIDE DEF Fixed, Given
<1>b. CASE TakeEnters(i) \/ PutEnters(i)
  BY <1>0, <1>1, <1>a, <1>b DEF TakeEnters, PutEnters, Moves, TypeOK, Fixed, Given
<1>c. CASE GetsHungry(i)
  BY <1>0, <1>1, <1>a, <1>c DEF GetsHungry, Moves, TypeOK, Fixed, Given, sync
<1>d. CASE StopsEating(i)
  BY <1>0, <1>1, <1>a, <1>d DEF StopsEating, Moves, TypeOK, Fixed, Given, sync
<1>e. CASE CondWaits(i)
  <2>1. cv[i].value = 0
    BY <1>e, <1>0, RunnerActive DEF CondWaits, Moves, Inside
  <2> QED
    BY <1>0, <1>1, <1>a, <1>e, <2>1 DEF CondWaits, Moves, TypeOK, Fixed, Given
<1>f. CASE CondSleeps(i)
  <2>1. cv[i] \in Binary(Phil) /\ cv'[i] = Down(cv[i], i) /\ pc[i] = "waiting"
        /\ pc'[i] = "woken" /\ state_condvar' = state_condvar
        /\ \A k \in Phil : k # i => cv'[k] = cv[k]
    BY <1>0, <1>f DEF CondSleeps, Moves, TypeOK
  <2>2. cv'[i].value = 0 /\ (cv[i].value = 1 \/ Waits(cv'[i], i))
    BY <2>1, DownFacts
  <2>3. Waits(cv'[i], i) => Blocked(i)'
    BY DEF Blocked
  <2> QED
    BY <1>0, <1>1, <1>a, <2>1, <2>2, <2>3 DEF Fixed, Given
<1>g. CASE TakeLeaves(i)
  <2>1. cv[i].value = 0
    BY <1>g, <1>0, RunnerActive DEF TakeLeaves, Moves, Inside
  <2>2. state_condvar[i] = "EATING"
    BY <1>0, <1>1, <1>g DEF TakeLeaves, Moves, TypeOK, Fixed, Given, Phases
  <2> QED
    BY <1>0, <1>a, <1>g, <2>1, <2>2 DEF TakeLeaves, Moves, TypeOK, Fixed, Given
<1>h. CASE PutLeaves(i)
  BY <1>0, <1>1, <1>a, <1>h DEF PutLeaves, Moves, TypeOK, Fixed, Given
<1>i. CASE SignalWaits(i)
  BY <1>0, <1>1, <1>a, <1>i DEF SignalWaits, Moves, TypeOK, Fixed, Given, After
<1>j. CASE SignalReturns(i)
  BY <1>0, <1>1, <1>a, <1>j DEF SignalReturns, Moves, TypeOK, Fixed, Given, After
<1>k. CASE TestsItself(i) \/ TestsLeft(i) \/ TestsRight(i)
  BY <1>4, <1>k, Around DEF TestsItself, TestsLeft, TestsRight, Inside
<1> QED
  BY <1>b, <1>c, <1>d, <1>e, <1>f, <1>g, <1>h, <1>i, <1>j, <1>k DEF Phi

\* Only who may eat is set EATING, so neighbours never are at the same time.
LEMMA ApartStep ==
  ASSUME IInv, NEW i \in Phil, Phi(i)
  PROVE  NeighboursApart'
<1>0. TypeOK /\ NeighboursApart
  BY DEF IInv
<1>1. \A k \in Phil : Right(k) \in Phil /\ Right(k) # k /\ Left(Right(k)) = k
  BY Around
<1>2. ASSUME \A k \in Phil : state_condvar'[k] = "EATING" => state_condvar[k] = "EATING"
      PROVE  NeighboursApart'
  BY <1>0, <1>1, <1>2 DEF NeighboursApart
<1>3. ASSUME NEW j \in Phil, NEW sig, NEW cont, Test(i, j, sig, cont)
      PROVE  NeighboursApart'
  <2>1. CASE ~CanEat(j)
    BY <1>2, <1>3, <2>1 DEF Test
  <2>2. CASE CanEat(j)
    <3>1. state_condvar' = [state_condvar EXCEPT ![j] = "EATING"]
      BY <1>3, <2>2 DEF Test
    <3> QED
      BY <1>0, <1>1, <2>2, <3>1 DEF NeighboursApart, CanEat, TypeOK
  <2> QED
    BY <2>1, <2>2
<1>4. CASE TestsItself(i) \/ TestsLeft(i) \/ TestsRight(i)
  BY <1>3, <1>4, Around DEF TestsItself, TestsLeft, TestsRight
<1>5. CASE ~(TestsItself(i) \/ TestsLeft(i) \/ TestsRight(i))
  <2>1. \/ state_condvar' = state_condvar
        \/ \E x \in {"HUNGRY", "THINKING"} : state_condvar' = [state_condvar EXCEPT ![i] = x]
    BY <1>5 DEF Phi, TakeEnters, GetsHungry, CondWaits, CondSleeps, TakeLeaves, PutEnters,
       StopsEating, PutLeaves, SignalWaits, SignalReturns, sync
  <2> QED
    BY <1>0, <1>2, <2>1 DEF TypeOK
<1> QED
  BY <1>4, <1>5

\* The door is opened only when no signaller waits to go on.
LEMMA DoorStep ==
  ASSUME IInv, NEW i \in Phil, Phi(i)
  PROVE  DoorInv'
<1>0. TypeOK /\ DoorInv
  BY DEF IInv
<1>1. ASSUME pc[i] \in Inside, mutex' = mutex
      PROVE  DoorInv'
  BY <1>1, RunnerActive, PcStep DEF DoorInv
<1>2. ASSUME mutex'.value = 1 => mutex.value = 1, next_count' = next_count
      PROVE  DoorInv'
  BY <1>0, <1>2 DEF DoorInv
<1>3. CASE TakeEnters(i) \/ PutEnters(i)
  <2>1. mutex'.value = 0 /\ next_count' = next_count
    BY <1>0, <1>3, DownFacts DEF TakeEnters, PutEnters, TypeOK
  <2> QED
    BY <1>2, <2>1
<1>4. CASE CondSleeps(i) \/ SignalWaits(i)
  BY <1>2, <1>4 DEF CondSleeps, SignalWaits
<1>5. CASE CondWaits(i) \/ TakeLeaves(i) \/ PutLeaves(i)
  <2>1. /\ pc[i] \in Inside /\ Release /\ next_count' = next_count
    BY <1>5 DEF CondWaits, TakeLeaves, PutLeaves, Moves, Inside
  <2>2. CASE next_count > 0
    BY <1>1, <2>1, <2>2 DEF Release
  <2>3. CASE next_count = 0
    BY <2>1, <2>3 DEF DoorInv
  <2> QED
    BY <1>0, <2>2, <2>3 DEF TypeOK
<1>6. CASE GetsHungry(i) \/ StopsEating(i) \/ SignalReturns(i)
  BY <1>1, <1>6 DEF GetsHungry, StopsEating, SignalReturns, Moves, sync, Inside
<1>7. CASE TestsItself(i) \/ TestsLeft(i) \/ TestsRight(i)
  BY <1>1, <1>7 DEF TestsItself, TestsLeft, TestsRight, Test, Inside
<1> QED
  BY <1>3, <1>4, <1>5, <1>6, <1>7 DEF Phi

\* Whoever can eat because a neighbour stopped is tested by that neighbour.
LEMMA TestStep ==
  ASSUME IInv, NEW i \in Phil, Phi(i)
  PROVE  TestInv'
<1>0. TypeOK /\ TestInv /\ TypeOK' /\ PhaseInv
  BY TypeStep DEF IInv
<1>r. \A k \in Phil : /\ Right(k) \in Phil /\ Right(k) # k /\ Left(Right(k)) = k
                      /\ Left(k) \in Phil /\ Left(k) # k /\ Right(Left(k)) = k
  BY Around
\* a test of j by i: i has no other duty to j afterwards
<1>1. ASSUME NEW j \in Phil, NEW sig, NEW cont, Test(i, j, sig, cont),
             \/ pc[i] = "hungry" /\ i = j /\ sig = "sigO" /\ cont = "took"
             \/ pc[i] = "testL" /\ j = Left(i) /\ sig = "sigL" /\ cont = "testR"
             \/ pc[i] = "testR" /\ j = Right(i) /\ sig = "sigR" /\ cont = "leave"
      PROVE  TestInv'
  <2>1. /\ \A k \in Phil : CanEat(k)' => CanEat(k) /\ k # j
        /\ pc'[i] \in {sig, cont}
    BY <1>0, <1>1, <1>r DEF Test, Signal, CanEat, TypeOK
  <2>2. ASSUME NEW k \in Phil, pc'[k] \in {"took", "waiting", "woken"}, CanEat(k)'
        PROVE  Tested(k)'
    <3>1. k # j /\ CanEat(k)
      BY <2>1, <2>2
    <3>2. CASE k = i
      BY <1>0, <1>1, <2>1, <2>2, <3>1, <3>2 DEF PhaseInv
    <3>3. CASE k # i
      <4>1. PICK t \in Phil : \/ pc[t] = "testL" /\ k \in {Left(t), Right(t)}
                              \/ pc[t] \in {"sigL", "backL", "testR"} /\ k = Right(t)
        BY <1>0, <2>2, <3>1, <3>3, PcStep DEF TestInv, Tested
      <4>2. CASE t = i
        BY <1>1, <2>1, <3>1, <4>1, <4>2 DEF Tested
      <4>3. CASE t # i
        BY <4>1, <4>3, PcStep DEF Tested
      <4> QED
        BY <4>2, <4>3
    <3> QED
      BY <3>2, <3>3
  <2> QED
    BY <2>2 DEF TestInv
\* steps that neither let anybody eat nor drop a duty
<1>2. ASSUME \A k \in Phil : pc'[k] \in {"took", "waiting", "woken"} /\ CanEat(k)' =>
                             pc[k] \in {"took", "waiting", "woken"} /\ CanEat(k),
             \/ pc[i] \notin {"testL", "sigL", "backL", "testR"}
             \/ pc[i] \in {"sigL", "backL"} /\ pc'[i] \in {"backL", "testR"}
      PROVE  TestInv'
  <2>1. \A k \in Phil : Tested(k) => Tested(k)'
    BY <1>2, PcStep DEF Tested
  <2> QED
    BY <1>0, <1>2, <2>1 DEF TestInv
<1>3. CASE TestsItself(i)
  BY <1>1, <1>3 DEF TestsItself
<1>4. CASE TestsLeft(i)
  BY <1>1, <1>4, <1>r DEF TestsLeft
<1>5. CASE TestsRight(i)
  BY <1>1, <1>5, <1>r DEF TestsRight
<1>6. CASE StopsEating(i)
  <2>1. /\ pc[i] = "put" /\ pc'[i] = "testL"
        /\ state_condvar' = [state_condvar EXCEPT ![i] = "THINKING"]
    BY <1>0, <1>6 DEF StopsEating, Moves, TypeOK
  <2>2. ASSUME NEW k \in Phil, pc'[k] \in {"took", "waiting", "woken"}, CanEat(k)'
        PROVE  Tested(k)'
    <3>1. k # i /\ pc'[k] = pc[k]
      BY <2>1, <2>2, PcStep
    <3>2. CASE CanEat(k)
      BY <1>0, <2>1, <2>2, <3>1, <3>2, PcStep DEF TestInv, Tested
    <3>3. CASE ~CanEat(k)
      <4>1. i = Left(k) \/ i = Right(k)
        BY <1>0, <1>r, <2>1, <2>2, <3>1, <3>3 DEF CanEat, TypeOK
      <4> QED
        BY <1>r, <2>1, <4>1 DEF Tested
    <3> QED
      BY <3>2, <3>3
  <2> QED
    BY <2>2 DEF TestInv
<1>7. CASE GetsHungry(i)
  <2>1. /\ pc[i] = "take" /\ pc'[i] = "hungry"
        /\ state_condvar' = [state_condvar EXCEPT ![i] = "HUNGRY"]
        /\ state_condvar[i] = "THINKING"
    BY <1>0, <1>7 DEF GetsHungry, Moves, TypeOK, PhaseInv
  <2>2. \A k \in Phil : k # i => (CanEat(k)' => CanEat(k))
    BY <1>0, <1>r, <2>1 DEF CanEat, TypeOK
  <2> QED
    BY <1>2, <2>1, <2>2, PcStep
<1>8. CASE TakeEnters(i) \/ PutEnters(i) \/ CondWaits(i) \/ CondSleeps(i) \/ TakeLeaves(i)
           \/ PutLeaves(i)
  <2>1. /\ state_condvar' = state_condvar /\ pc[i] \notin {"testL", "sigL", "backL", "testR"}
        /\ pc'[i] \in {"took", "waiting", "woken"} => pc[i] \in {"took", "waiting", "woken"}
    BY <1>0, <1>8 DEF TakeEnters, PutEnters, CondWaits, CondSleeps, TakeLeaves, PutLeaves,
       Moves, TypeOK
  <2> QED
    BY <1>2, <2>1, PcStep DEF CanEat
<1>9. CASE SignalWaits(i) \/ SignalReturns(i)
  <2>1. /\ state_condvar' = state_condvar
        /\ \/ pc[i] = "backO" /\ pc'[i] = "took"
           \/ pc'[i] \notin {"took", "waiting", "woken"}
        /\ \/ pc[i] \notin {"testL", "sigL", "backL", "testR"}
           \/ pc[i] \in {"sigL", "backL"} /\ pc'[i] \in {"backL", "testR"}
    BY <1>0, <1>9 DEF SignalWaits, SignalReturns, Moves, TypeOK, After
  <2>2. pc[i] = "backO" => ~CanEat(i)
    BY <1>0 DEF PhaseInv, CanEat
  <2> QED
    BY <1>2, <2>1, <2>2, PcStep DEF CanEat
<1> QED
  BY <1>3, <1>4, <1>5, <1>6, <1>7, <1>8, <1>9 DEF Phi

-----------------------------------------------------------------------------
LEMMA Initially == Init => IInv
<1> SUFFICES ASSUME Init PROVE IInv
  OBVIOUS
<1> USE DEF Init, SemInit
<1>1. TypeOK
  BY RingAssumption DEF TypeOK, Binary, Places, Phases
<1>2. \A p : ~Waits(mutex, p) /\ ~Waits(next, p) /\ \A j \in Phil : ~Waits(cv[j], p)
  BY DEF Waits
<1>3. QueueInv
  BY <1>2 DEF QueueInv
<1>4. Active = {}
  BY DEF Active, Inside
<1>5. Baton
  BY <1>4 DEF Baton, OneActive
<1>6. PhaseInv /\ DoorInv /\ TestInv
  BY DEF PhaseInv, DoorInv, TestInv
<1>7. NeighboursApart
  BY DEF NeighboursApart
<1>8. Signallers = {}
  BY DEF Signallers, After
<1>9. CountersExact
  BY <1>8, FS_EmptySet DEF CountersExact
<1> QED
  BY <1>1, <1>3, <1>5, <1>6, <1>7, <1>9 DEF IInv

LEMMA Stuttering == IInv /\ UNCHANGED vars => IInv'
BY DEF IInv, vars, TypeOK, CountersExact, QueueInv, Baton, PhaseInv, NeighboursApart, DoorInv,
   TestInv, Tested, OneActive, Active, Blocked, Signallers, CanEat

\* The inductive invariant holds in every reachable state.
THEOREM Invariance == Spec => []IInv
<1>1. IInv /\ [Next]_vars => IInv'
  <2> SUFFICES ASSUME IInv, [Next]_vars PROVE IInv'
    OBVIOUS
  <2>1. ASSUME NEW i \in Phil, Phi(i)
        PROVE  IInv'
    BY <2>1, TypeStep, CountersStep, QueueStep, BatonStep, PhaseStep, ApartStep, DoorStep,
       TestStep DEF IInv
  <2>2. CASE UNCHANGED vars
    BY <2>2, Stuttering
  <2> QED
    BY <2>1, <2>2 DEF Next, AllDone
<1> QED
  BY Initially, <1>1, PTL DEF Spec

\* Every variable keeps its type; in particular no semaphore of the monitor ever
\* counts beyond 1.
THEOREM TypeCorrect == Spec => []TypeOK
<1>1. IInv => TypeOK
  BY DEF IInv
<1> QED
  BY Invariance, <1>1, PTL

\* monitor.c keeps the promise of monitor.h:14: at most one thread is active.
THEOREM MutualExclusion == Spec => []OneActive
<1>1. IInv => OneActive
  BY DEF IInv, Baton
<1> QED
  BY Invariance, <1>1, PTL

\* Who leaves the monitor with its forks eats, although cond_wait is not in a
\* loop, and neighbours never eat together.
THEOREM EatingCorrect == Spec => [](EatersEat /\ NeighboursApart)
<1>1. IInv => EatersEat /\ NeighboursApart
  BY DEF IInv, PhaseInv, EatersEat
<1> QED
  BY Invariance, <1>1, PTL

\* next_count and the condition variables' counts are exact.
THEOREM CountersCorrect == Spec => []CountersExact
<1>1. IInv => CountersExact
  BY DEF IInv
<1> QED
  BY Invariance, <1>1, PTL

\* No signal is lost.
THEOREM NoLostSignal == Spec => []WaitersBlocked
<1>1. IInv => WaitersBlocked
  <2> SUFFICES ASSUME IInv, mutex.value = 1, NEW i \in Phil,
                      pc[i] \in {"waiting", "woken"}, CanEat(i)
               PROVE  FALSE
    BY DEF WaitersBlocked
  <2>1. PICK k \in Phil : pc[k] \in {"testL", "sigL", "backL", "testR"}
    BY DEF IInv, TestInv, Tested
  <2>2. Active = {} /\ next_count = 0
    BY DEF IInv, Baton, DoorInv
  <2>3. Signallers = {}
    BY <2>2, PhilFinite, FS_EmptySet DEF IInv, CountersExact
  <2>4. pc[k] \in {"testL", "testR"}
    BY <2>1, <2>3 DEF Signallers, After
  <2>5. ~Blocked(k)
    BY <2>4 DEF IInv, QueueInv, Blocked
  <2> QED
    BY <2>2, <2>4, <2>5 DEF Active, Inside
<1> QED
  BY Invariance, <1>1, PTL

\* The monitor and its client implement the abstract table: each step gets one
\* philosopher hungry, or starts or ends a meal that its neighbours allow, or
\* changes nothing there.
THEOREM Refinement == Spec => Implements
<1>1. Init => Table!Init
  BY DEF Init, Table!Init, Phil, Table!Phil
<1>2. IInv /\ [Next]_vars => [Table!Next]_state_condvar
  <2> SUFFICES ASSUME IInv, NEW i \in Phil, Phi(i)
               PROVE  [Table!Next]_state_condvar
    BY DEF Next, AllDone, vars
  <2> USE DEF Phil, Table!Phil, Left, Right, Table!Left, Table!Right
  <2>1. ASSUME NEW j \in Phil, NEW sig, NEW cont, Test(i, j, sig, cont)
        PROVE  [Table!Next]_state_condvar
    <3>1. CASE CanEat(j)
      <4>1. Table!Eat(j)
        BY <2>1, <3>1 DEF Test, CanEat, Table!Eat
      <4> QED
        BY <4>1 DEF Table!Next
    <3>2. CASE ~CanEat(j)
      BY <2>1, <3>2 DEF Test
    <3> QED
      BY <3>1, <3>2
  <2>2. CASE GetsHungry(i)
    <3>1. Table!Hungry(i)
      BY <2>2 DEF IInv, PhaseInv, GetsHungry, Moves, Table!Hungry
    <3> QED
      BY <3>1 DEF Table!Next
  <2>3. CASE StopsEating(i)
    <3>1. Table!Think(i)
      BY <2>3 DEF IInv, PhaseInv, StopsEating, Moves, Table!Think
    <3> QED
      BY <3>1 DEF Table!Next
  <2>4. CASE TestsItself(i) \/ TestsLeft(i) \/ TestsRight(i)
    <3>1. Left(i) \in Phil /\ Right(i) \in Phil
      BY Around
    <3> QED
      BY <2>1, <2>4, <3>1 DEF TestsItself, TestsLeft, TestsRight
  <2>5. CASE ~(GetsHungry(i) \/ StopsEating(i) \/ TestsItself(i) \/ TestsLeft(i)
               \/ TestsRight(i))
    BY <2>5 DEF Phi, TakeEnters, CondWaits, CondSleeps, TakeLeaves, PutEnters, PutLeaves,
       SignalWaits, SignalReturns
  <2> QED
    BY <2>2, <2>3, <2>4, <2>5
<1> QED
  BY Invariance, <1>1, <1>2, PTL DEF Spec, Implements, Table!Spec

------------------------------------------------------------------------------
(* The philosophers with semaphores, whose proofs are in PhilSemaProofs.         *)

SP == INSTANCE PhilSemaProofs WITH mutex <- s_mutex, pc <- s_pc, iter <- s_iter

\* Both instances say the same of the state.
LEMMA SameState ==
  /\ S!Phil = SP!Phil
  /\ \A i : S!Blocked(i) <=> SP!Blocked(i)
  /\ \A i : S!CanEat(i) <=> SP!CanEat(i)
  /\ S!TypeOK <=> SP!TypeOK
  /\ S!OneInside <=> SP!OneInside
  /\ S!ForksOnce <=> SP!ForksOnce
  /\ S!HungryBlocked <=> SP!HungryBlocked
<1>1. S!Phil = SP!Phil
  BY DEF S!Phil, SP!Phil
<1>2. \A i : S!Blocked(i) <=> SP!Blocked(i)
  BY DEF S!Blocked, SP!Blocked, S!Waits, SP!Waits
<1>3. \A i : S!CanEat(i) <=> SP!CanEat(i)
  BY DEF S!CanEat, SP!CanEat, S!Left, SP!Left, S!Right, SP!Right
<1>4. S!TypeOK <=> SP!TypeOK
  BY <1>1 DEF S!TypeOK, SP!TypeOK, S!Binary, SP!Binary, S!Phases, SP!Phases, S!Places, SP!Places
<1>5. S!OneInside <=> SP!OneInside
  BY <1>1, <1>2 DEF S!OneInside, SP!OneInside, S!InTable, SP!InTable
<1>6. S!ForksOnce <=> SP!ForksOnce
  BY <1>1, <1>2 DEF S!ForksOnce, SP!ForksOnce
<1>7. S!HungryBlocked <=> SP!HungryBlocked
  BY <1>1, <1>3 DEF S!HungryBlocked, SP!HungryBlocked
<1> QED
  BY <1>1, <1>2, <1>3, <1>4, <1>5, <1>6, <1>7

LEMMA SameInit == SyncInit => SP!Init
BY DEF SyncInit, S!Init, SP!Init, S!SemInit, SP!SemInit, S!Phil, SP!Phil

\* Both instances say the same of a step.
LEMMA SameStep == S!Next => SP!Next
<1>1. \A i, a, b : S!Moves(i, a, b) <=> SP!Moves(i, a, b)
  BY SameState DEF S!Moves, SP!Moves
<1>2. \A i : S!Test(i) <=> SP!Test(i)
  BY SameState DEF S!Test, SP!Test, S!Up, SP!Up
<1>3. ASSUME NEW i \in S!Phil, S!Phi(i) PROVE SP!Phi(i)
  <2>1. S!Enters(i) => SP!Enters(i)
    BY <1>1 DEF S!Enters, SP!Enters, S!Down, SP!Down
  <2>2. S!GetsHungry(i) => SP!GetsHungry(i)
    BY <1>1 DEF S!GetsHungry, SP!GetsHungry
  <2>3. S!TestsItself(i) => SP!TestsItself(i)
    BY <1>1, <1>2 DEF S!TestsItself, SP!TestsItself
  <2>4. S!TakeLeaves(i) => SP!TakeLeaves(i)
    BY <1>1 DEF S!TakeLeaves, SP!TakeLeaves, S!Up, SP!Up
  <2>5. S!GetsForks(i) => SP!GetsForks(i)
    BY <1>1 DEF S!GetsForks, SP!GetsForks, S!Down, SP!Down
  <2>6. S!StopsEating(i) => SP!StopsEating(i)
    BY <1>1 DEF S!StopsEating, SP!StopsEating
  <2>7. S!TestsLeft(i) => SP!TestsLeft(i)
    BY <1>1, <1>2 DEF S!TestsLeft, SP!TestsLeft, S!Left, SP!Left
  <2>8. S!TestsRight(i) => SP!TestsRight(i)
    BY <1>1, <1>2 DEF S!TestsRight, SP!TestsRight, S!Right, SP!Right
  <2>9. S!PutLeaves(i) => SP!PutLeaves(i)
    BY <1>1 DEF S!PutLeaves, SP!PutLeaves, S!Up, SP!Up
  <2> QED
    BY <1>3, <2>1, <2>2, <2>3, <2>4, <2>5, <2>6, <2>7, <2>8, <2>9 DEF S!Phi, SP!Phi
<1>4. S!AllDone => SP!AllDone
  BY SameState DEF S!AllDone, SP!AllDone, S!vars, SP!vars
<1> QED
  BY <1>3, <1>4, SameState DEF S!Next, SP!Next

\* A step of the sum is one of the philosophers or leaves them alone.
LEMMA StepOrStutter == [SyncNext]_syncVars => [SP!Next]_(SP!vars)
<1>1. Semaphores(S!Next) => SP!Next
  BY SameStep DEF Semaphores
<1>2. \/ Monitor(Next) \/ BikeLine(B!Next) \/ Milk8(M!Next)
      \/ Milk7(F!Next) \/ Keyboard(K!Next)
      => UNCHANGED semaphores
  BY DEF Monitor, BikeLine, Milk8, Milk7, Keyboard
<1>3. UNCHANGED syncVars => UNCHANGED semaphores
  BY DEF syncVars
<1>4. UNCHANGED semaphores => UNCHANGED SP!vars
  BY DEF semaphores, SP!vars
<1> QED
  BY <1>1, <1>2, <1>3, <1>4 DEF SyncNext

LEMMA SameRing == SP!RingAssumption
BY RingAssumption DEF RingAssumption, SP!RingAssumption

LEMMA SumContains == SyncSpec => SP!Spec
BY SameInit, StepOrStutter, PTL DEF SyncSpec, SP!Spec

\* One thread at a time works on the table of phi_*_sema, also when mutex is handed
\* over.
THEOREM SemaMutualExclusion == SyncSpec => []OneInside
<1>1. SP!Spec => [](SP!TypeOK /\ SP!OneInside)
  BY SP!MutualExclusion, SameRing
<1>2. SP!TypeOK /\ SP!OneInside => OneInside
  BY SameState DEF OneInside
<1> QED
  BY <1>1, <1>2, SumContains, PTL

\* Forks are handed over once by phi_test_sema, and nobody stays hungry beside two
\* free forks while the table is free.
THEOREM SemaHandOver == SyncSpec => []HungryBlocked
<1>1. SP!Spec => []SP!ForksOnce
  BY SP!HandedOverOnce, SameRing
<1>2. SP!Spec => []SP!HungryBlocked
  BY SP!NoIdleForks, SameRing
<1>3. SP!ForksOnce /\ SP!HungryBlocked => HungryBlocked
  BY SameState DEF HungryBlocked
<1> QED
  BY <1>1, <1>2, <1>3, SumContains, PTL

\* The program with semaphores implements the abstract table.
THEOREM SemaRefinement == SyncSpec => SemaImplements
<1>1. SP!Spec => SP!Implements
  BY SP!TableRefinement, SameRing
<1>2. SP!Table!Init => S!Table!Init
  BY DEF SP!Table!Init, S!Table!Init, SP!Table!Phil, S!Table!Phil
<1>3. SP!Table!Next => S!Table!Next
  BY DEF SP!Table!Next, S!Table!Next, SP!Table!Phil, S!Table!Phil,
         SP!Table!Hungry, S!Table!Hungry, SP!Table!Eat, S!Table!Eat, SP!Table!Think, S!Table!Think,
         SP!Table!Left, S!Table!Left, SP!Table!Right, S!Table!Right
<1> QED
  BY <1>1, <1>2, <1>3, SumContains, PTL
  DEF SemaImplements, SP!Implements, S!Implements, SP!Table!Spec, S!Table!Spec

------------------------------------------------------------------------------
(* The bicycle line.  One signal goes round: the worker that has it is in none   *)
(* of the queues, and the others are before their semaphore or in its queue.     *)

HasSignal(w) ==
  /\ b_pc[w] \in {"wait", "sleep", "relock", "count", "wrap", "signal"}
  /\ ws[w] = [value |-> IF b_pc[w] \in {"wait", "sleep"} THEN 1 ELSE 0, queue |-> <<>>]
  /\ index = IF b_pc[w] = "wrap" THEN w + 1
             ELSE IF b_pc[w] = "signal" THEN (w + 1) % 3 ELSE w

HasNone(w) ==
  /\ b_pc[w] \in {"wait", "sleep", "relock"}
  /\ ws[w] = [value |-> 0, queue |-> IF b_pc[w] = "relock" THEN <<w>> ELSE <<>>]

Signalled(w) == HasSignal(w) /\ \A v \in B!Worker \ {w} : HasNone(v)

LineInv ==
  /\ DOMAIN b_pc = B!Worker /\ b_pc = [v \in B!Worker |-> b_pc[v]]
  /\ DOMAIN ws = B!Worker /\ ws = [v \in B!Worker |-> ws[v]]
  /\ \E w \in B!Worker : Signalled(w)

\* The only worker in the queue of a semaphore is its own.
LEMMA LineBlocked ==
  ASSUME NEW w
  PROVE  /\ HasSignal(w) => ~B!Waits(ws[w], w)
         /\ HasNone(w) => (B!Waits(ws[w], w) <=> b_pc[w] = "relock")
<1>1. ~B!Waits([value |-> 0, queue |-> <<>>], w) /\ ~B!Waits([value |-> 1, queue |-> <<>>], w)
  BY DEF B!Waits
<1>2. Len(<<w>>) = 1 /\ <<w>>[1] = w
  OBVIOUS
<1>3. B!Waits([value |-> 0, queue |-> <<w>>], w)
  BY <1>2 DEF B!Waits
<1>4. QED BY <1>1, <1>3 DEF HasSignal, HasNone

LEMMA LineInit == SyncInit => LineInv
<1> SUFFICES ASSUME SyncInit PROVE LineInv
  OBVIOUS
<1>1. /\ b_pc = [w \in B!Worker |-> "wait"] /\ index = 0
      /\ ws = [w \in B!Worker |-> [value |-> IF w = 0 THEN 1 ELSE 0, queue |-> <<>>]]
  BY DEF SyncInit, B!Init, B!SemInit
<1>2. 0 \in B!Worker
  BY DEF B!Worker
<1>3. Signalled(0)
  BY <1>1, <1>2 DEF Signalled, HasSignal, HasNone
<1>4. QED BY <1>1, <1>2, <1>3 DEF LineInv

\* A step of the worker with the signal: it keeps it or passes it on.
LEMMA LineOwn ==
  ASSUME LineInv, NEW w \in B!Worker, Signalled(w), B!Work(w)
  PROVE  \E v \in B!Worker : Signalled(v)'
<1>1. b_pc[w] \in {"wait", "sleep", "relock", "count", "wrap"} => Signalled(w)'
  <2> HAVE b_pc[w] \in {"wait", "sleep", "relock", "count", "wrap"}
  <2>0. HasSignal(w)
    BY DEF Signalled
  <2>1. \A v \in B!Worker \ {w} : b_pc'[v] = b_pc[v] /\ ws'[v] = ws[v]
    BY DEF LineInv, B!Work, B!Releases, B!Sleeps, B!Relocks, B!Counts, B!Wraps, B!Signals, B!Moves
  <2>2. \A v \in B!Worker \ {w} : HasNone(v)'
    BY <2>1 DEF Signalled, HasNone
  <2>3. HasSignal(w)'
    <3> USE DEF LineInv, B!Moves
    <3>1. CASE B!Releases(w)
      BY <2>0, <3>1 DEF B!Releases, HasSignal
    <3>2. CASE B!Sleeps(w)
      BY <2>0, <3>2 DEF B!Sleeps, B!Down, HasSignal
    <3>3. CASE B!Relocks(w)
      BY <2>0, <3>3 DEF B!Relocks, HasSignal
    <3>4. CASE B!Counts(w)
      BY <2>0, <3>4 DEF B!Counts, HasSignal
    <3>5. CASE B!Wraps(w)
      BY <2>0, <3>5 DEF B!Wraps, HasSignal
    <3>6. CASE B!Signals(w)
      BY <2>0, <3>6 DEF B!Signals
    <3>7. QED BY <3>1, <3>2, <3>3, <3>4, <3>5, <3>6 DEF B!Work
  <2>4. QED BY <2>2, <2>3 DEF Signalled
<1>2. b_pc[w] = "signal" => \E v \in B!Worker : Signalled(v)'
  <2> HAVE b_pc[w] = "signal"
  <2>1. B!Signals(w) /\ index = (w + 1) % 3 /\ HasSignal(w)
    BY DEF Signalled, HasSignal, B!Work, B!Releases, B!Sleeps, B!Relocks, B!Counts, B!Wraps,
           B!Moves
  <2>2. index \in B!Worker /\ index # w
    BY <2>1 DEF B!Worker
  <2>3. PICK j \in B!Worker : j = index
    BY <2>2
  <2>4. HasNone(j) /\ j # w
    BY <2>2, <2>3 DEF Signalled
  <2>5. /\ b_pc' = [b_pc EXCEPT ![w] = "wait"] /\ index' = j
        /\ ws' = [ws EXCEPT ![j] = B!Up(ws[j])]
    BY <2>1, <2>3 DEF B!Signals, B!Moves
  <2>6. B!Up(ws[j]) = [value |-> IF b_pc[j] = "relock" THEN 0 ELSE 1, queue |-> <<>>]
    <3>1. CASE b_pc[j] = "relock"
      <4>1. Tail(<<j>>) = <<>> /\ <<j>> # <<>>
        OBVIOUS
      <4>2. ws[j] = [value |-> 0, queue |-> <<j>>]
        BY <2>4, <3>1 DEF HasNone
      <4>3. QED BY <3>1, <4>1, <4>2 DEF B!Up
    <3>2. CASE b_pc[j] # "relock"
      BY <2>4, <3>2 DEF HasNone, B!Up
    <3>3. QED BY <3>1, <3>2
  <2>7. /\ b_pc'[w] = "wait" /\ ws'[w] = ws[w] /\ b_pc'[j] = b_pc[j] /\ ws'[j] = B!Up(ws[j])
        /\ \A v \in B!Worker \ {w, j} : b_pc'[v] = b_pc[v] /\ ws'[v] = ws[v]
    BY <2>4, <2>5 DEF LineInv
  <2>8. HasSignal(j)'
    <3>1. b_pc'[j] \in {"wait", "sleep", "relock"}
      BY <2>4, <2>7 DEF HasNone
    <3>2. ws'[j] = [value |-> IF b_pc'[j] \in {"wait", "sleep"} THEN 1 ELSE 0, queue |-> <<>>]
      BY <2>6, <2>7, <3>1
    <3>3. QED BY <2>5, <3>1, <3>2 DEF HasSignal
  <2>9. HasNone(w)'
    BY <2>1, <2>7 DEF HasSignal, HasNone
  <2>10. \A v \in B!Worker \ {w, j} : HasNone(v)'
    BY <2>7 DEF Signalled, HasNone
  <2>11. Signalled(j)'
    BY <2>8, <2>9, <2>10 DEF Signalled
  <2>12. QED BY <2>11
<1>3. QED BY <1>1, <1>2 DEF Signalled, HasSignal

\* A step of another worker: it comes nearer to its semaphore.
LEMMA LineOther ==
  ASSUME LineInv, NEW w \in B!Worker, Signalled(w), NEW v \in B!Worker, v # w, B!Work(v)
  PROVE  Signalled(w)'
<1>1. HasNone(v) /\ HasSignal(w)
  BY DEF Signalled
<1>2. b_pc[v] # "relock"
  BY <1>1, LineBlocked DEF B!Work, B!Releases, B!Sleeps, B!Relocks, B!Counts, B!Wraps, B!Signals,
     B!Moves, B!Blocked
<1>3. B!Releases(v) \/ B!Sleeps(v)
  BY <1>1, <1>2 DEF HasNone, B!Work, B!Relocks, B!Counts, B!Wraps, B!Signals, B!Moves
<1>4. \A u \in B!Worker \ {v} : b_pc'[u] = b_pc[u] /\ ws'[u] = ws[u]
  BY <1>3 DEF LineInv, B!Releases, B!Sleeps, B!Moves
<1>5. \A u \in B!Worker \ {w, v} : HasNone(u)'
  BY <1>4 DEF Signalled, HasNone
<1>6. HasSignal(w)'
  BY <1>1, <1>3, <1>4 DEF HasSignal, B!Releases, B!Sleeps
<1>7. HasNone(v)'
  <2>1. CASE B!Releases(v)
    BY <1>1, <2>1 DEF LineInv, HasNone, B!Releases, B!Moves
  <2>2. CASE B!Sleeps(v)
    <3>1. ws[v] = [value |-> 0, queue |-> <<>>] /\ Append(<<>>, v) = <<v>>
      BY <1>1, <2>2 DEF HasNone, B!Sleeps, B!Moves
    <3>2. ws'[v] = B!Down(ws[v], v) /\ b_pc'[v] = "relock"
      BY <2>2 DEF LineInv, B!Sleeps, B!Moves
    <3>3. QED BY <3>1, <3>2 DEF HasNone, B!Down
  <2>3. QED BY <1>3, <2>1, <2>2
<1>8. QED BY <1>5, <1>6, <1>7 DEF Signalled

LEMMA LineStep ==
  ASSUME LineInv, NEW v \in B!Worker, B!Work(v)
  PROVE  LineInv'
<1>1. PICK w \in B!Worker : Signalled(w)
  BY DEF LineInv
<1>2. \E u \in B!Worker : Signalled(u)'
  BY <1>1, LineOwn, LineOther
<1>3. /\ DOMAIN b_pc' = B!Worker /\ b_pc' = [u \in B!Worker |-> b_pc'[u]]
      /\ DOMAIN ws' = B!Worker /\ ws' = [u \in B!Worker |-> ws'[u]]
  BY DEF LineInv, B!Work, B!Releases, B!Sleeps, B!Relocks, B!Counts, B!Wraps, B!Signals, B!Moves
<1>4. QED BY <1>2, <1>3 DEF LineInv

LEMMA LineStutter == LineInv /\ UNCHANGED bikes => LineInv'
BY DEF LineInv, Signalled, HasSignal, HasNone, bikes

\* Every worker of assignment 8 waits for its own turn: the signal that goes round is
\* never doubled or lost, though no worker holds the lock.
THEOREM LineCorrect == SyncSpec => []OneBusy
<1>1. LineInv /\ [SyncNext]_syncVars => LineInv'
  <2>1. LineInv /\ BikeLine(B!Next) => LineInv'
    BY LineStep DEF BikeLine, B!Next
  <2>2. Monitor(Next) \/ Semaphores(S!Next) \/ Milk8(M!Next) \/ Milk7(F!Next) \/ Keyboard(K!Next)
          => UNCHANGED bikes
    BY DEF Monitor, Semaphores, Milk8, Milk7, Keyboard
  <2>3. UNCHANGED syncVars => UNCHANGED bikes
    BY DEF syncVars
  <2>4. QED BY <2>1, <2>2, <2>3, LineStutter DEF SyncNext
<1>2. LineInv => OneBusy
  <2> SUFFICES ASSUME LineInv PROVE B!OneBusy
    BY DEF OneBusy
  <2>1. PICK w \in B!Worker : Signalled(w)
    BY DEF LineInv
  <2>2. w \in B!Busy
    <3>1. HasSignal(w) /\ ~B!Waits(ws[w], w)
      BY <2>1, LineBlocked DEF Signalled
    <3>2. QED BY <3>1 DEF HasSignal, B!Busy
  <2>3. \A v \in B!Worker \ {w} : v \notin B!Busy
    <3>1. ASSUME NEW v \in B!Worker \ {w} PROVE v \notin B!Busy
      <4>1. HasNone(v) /\ (B!Waits(ws[v], v) <=> b_pc[v] = "relock")
        BY <2>1, LineBlocked DEF Signalled
      <4>2. QED BY <4>1 DEF HasNone, B!Busy
    <3>2. QED BY <3>1
  <2>4. B!Busy = {w}
    BY <2>2, <2>3 DEF B!Busy
  <2>5. HasSignal(w)
    BY <2>1 DEF Signalled
  <2>6. /\ ws[w].value <= 1
        /\ b_pc[w] \notin {"wrap", "signal"} => index = w
        /\ b_pc[w] = "wrap" => index = w + 1
        /\ b_pc[w] = "signal" => index = (w + 1) % 3
    BY <2>5 DEF HasSignal
  <2>7. QED BY <2>4, <2>6 DEF B!OneBusy
<1>3. QED BY <1>1, <1>2, LineInit, PTL DEF SyncSpec

------------------------------------------------------------------------------
(* The fridge of assignment 8.  One thread at a time has mutex and is between     *)
(* the test of milk and up; a thread in the queue of mutex is about to test.      *)

AtMilk == {t \in M!Thread : m_pc[t] \in {"check", "buy", "leave"} /\ ~Waits(m_mutex, t)}

MilkInv ==
  /\ m_mutex \in Binary(M!Thread)
  /\ m_pc \in [M!Thread -> {"asleep", "check", "wait", "relock", "buy", "leave"}]
  /\ \A t \in M!Thread : Waits(m_mutex, t) => m_pc[t] = "check"
  /\ \A t, u \in AtMilk : t = u
  /\ m_mutex.value = 1 => AtMilk = {}
  /\ \A t \in M!Thread : m_pc[t] = "buy" => milk = 0

LEMMA MilkInit == SyncInit => MilkInv
<1>1. \A t : ~Waits([value |-> 1, queue |-> <<>>], t)
  BY DEF Waits
<1>2. [value |-> 1, queue |-> <<>>] \in Binary(M!Thread)
  BY DEF Binary
<1>3. SyncInit => m_mutex = [value |-> 1, queue |-> <<>>] /\ m_pc = [t \in M!Thread |-> "asleep"]
  BY DEF SyncInit, M!Init, M!SemInit
<1>4. QED BY <1>1, <1>2, <1>3 DEF MilkInv, AtMilk

\* The thread that has mutex goes on to another place where it has it.
LEMMA MilkKeeps ==
  ASSUME MilkInv, NEW t \in AtMilk, NEW b \in {"check", "buy", "leave"},
         m_pc' = [m_pc EXCEPT ![t] = b], m_mutex' = m_mutex, b = "buy" => milk' = 0
  PROVE  MilkInv'
<1>1. t \in M!Thread /\ ~Waits(m_mutex, t)
  BY DEF AtMilk
<1>2. \A u \in M!Thread : m_pc'[u] = IF u = t THEN b ELSE m_pc[u]
  BY DEF MilkInv
<1>3. AtMilk' = AtMilk
  BY <1>1, <1>2 DEF AtMilk
<1>4. \A u \in M!Thread : u # t => m_pc[u] # "buy"
  BY DEF MilkInv, AtMilk
<1>5. QED BY <1>1, <1>2, <1>3, <1>4 DEF MilkInv

\* It gives mutex up, and the next one in the queue has it.
LEMMA MilkGives ==
  ASSUME MilkInv, NEW t \in AtMilk, NEW b \in {"asleep", "wait"},
         m_pc' = [m_pc EXCEPT ![t] = b], m_mutex' = M!Up(m_mutex), milk' = milk
  PROVE  MilkInv'
<1>0. M!Up(m_mutex) = Up(m_mutex)
  BY DEF M!Up, Up
<1>1. t \in M!Thread /\ ~Waits(m_mutex, t) /\ m_mutex.value = 0
  BY DEF AtMilk, MilkInv, Binary
<1>2. \A u \in M!Thread : m_pc'[u] = IF u = t THEN b ELSE m_pc[u]
  BY DEF MilkInv
<1>3. /\ m_mutex' \in Binary(M!Thread)
      /\ \A u : Waits(m_mutex', u) => Waits(m_mutex, u)
      /\ m_mutex'.value = 1 => \A u : ~Waits(m_mutex, u) /\ ~Waits(m_mutex', u)
      /\ m_mutex'.value = 0 =>
           \A u, v : Waits(m_mutex, u) /\ ~Waits(m_mutex', u) /\ Waits(m_mutex, v)
                     /\ ~Waits(m_mutex', v) => u = v
  <2>1. m_mutex \in Binary(M!Thread)
    BY DEF MilkInv
  <2>2. QED BY <1>0, <1>1, <2>1, UpFacts
<1>4. \A u \in AtMilk' : Waits(m_mutex, u) /\ ~Waits(m_mutex', u)
  BY <1>1, <1>2 DEF AtMilk, MilkInv
<1>5. \A u, v \in AtMilk' : u = v
  BY <1>3, <1>4 DEF Binary
<1>6. m_mutex'.value = 1 => AtMilk' = {}
  BY <1>3, <1>4
<1>7. \A u \in M!Thread : Waits(m_mutex', u) => m_pc'[u] = "check"
  BY <1>1, <1>2, <1>3 DEF MilkInv
<1>8. m_pc' \in [M!Thread -> {"asleep", "check", "wait", "relock", "buy", "leave"}]
  BY DEF MilkInv
<1>9. \A u \in M!Thread : m_pc'[u] = "buy" => milk' = 0
  BY <1>2 DEF MilkInv
<1>10. QED BY <1>3, <1>5, <1>6, <1>7, <1>8, <1>9 DEF MilkInv

\* A thread asks for mutex, and has it or joins the queue.
LEMMA MilkAsks ==
  ASSUME MilkInv, NEW t \in M!Thread, m_pc[t] \in {"asleep", "relock"},
         m_pc' = [m_pc EXCEPT ![t] = "check"], m_mutex' = M!Down(m_mutex, t), milk' = milk
  PROVE  MilkInv'
<1>0. M!Down(m_mutex, t) = Down(m_mutex, t)
  BY DEF M!Down, Down
<1>1. ~Waits(m_mutex, t) /\ t \notin AtMilk
  BY DEF MilkInv, AtMilk
<1>2. \A u \in M!Thread : m_pc'[u] = IF u = t THEN "check" ELSE m_pc[u]
  BY DEF MilkInv
<1>3. /\ m_mutex' \in Binary(M!Thread)
      /\ m_mutex'.value = 0 /\ m_mutex.value \in {0, 1}
      /\ m_mutex.value = 1 => \A u : Waits(m_mutex', u) <=> Waits(m_mutex, u)
      /\ m_mutex.value = 0 => \A u : Waits(m_mutex', u) <=> Waits(m_mutex, u) \/ u = t
  <2>1. m_mutex \in Binary(M!Thread)
    BY DEF MilkInv
  <2>2. QED BY <1>0, <2>1, DownFacts
<1>4. m_mutex.value = 1 => AtMilk' \subseteq {t}
  BY <1>2, <1>3 DEF MilkInv, AtMilk
<1>5. m_mutex.value = 0 => AtMilk' \subseteq AtMilk
  BY <1>2, <1>3 DEF AtMilk
<1>6. \A u, v \in AtMilk' : u = v
  BY <1>3, <1>4, <1>5 DEF MilkInv
<1>7. \A u \in M!Thread : Waits(m_mutex', u) => m_pc'[u] = "check"
  BY <1>2, <1>3 DEF MilkInv
<1>8. m_pc' \in [M!Thread -> {"asleep", "check", "wait", "relock", "buy", "leave"}]
  BY DEF MilkInv
<1>9. \A u \in M!Thread : m_pc'[u] = "buy" => milk' = 0
  BY <1>2 DEF MilkInv
<1>10. QED BY <1>3, <1>6, <1>7, <1>8, <1>9 DEF MilkInv

LEMMA MilkStep ==
  ASSUME MilkInv, NEW t \in M!Thread, M!Run(t)
  PROVE  MilkInv'
<1>1. \A u : M!Waits(m_mutex, u) <=> Waits(m_mutex, u)
  BY DEF M!Waits, Waits
<1>2. \A a, b : M!Moves(t, a, b) =>
        /\ m_pc[t] = a /\ m_pc' = [m_pc EXCEPT ![t] = b]
        /\ a \in {"check", "buy", "leave"} => t \in AtMilk
  BY <1>1 DEF M!Moves, M!Blocked, AtMilk
<1>3. CASE M!Enters(t)
  BY <1>2, <1>3, MilkAsks DEF M!Enters
<1>4. CASE M!Releases(t)
  BY <1>2, <1>4, MilkGives DEF M!Releases
<1>5. CASE M!Sleeps(t)
  <2>1. /\ m_pc[t] = "wait" /\ m_pc' = [m_pc EXCEPT ![t] = "relock"]
        /\ m_mutex' = m_mutex /\ milk' = milk
    BY <1>2, <1>5 DEF M!Sleeps
  <2>2. \A u \in M!Thread : m_pc'[u] = IF u = t THEN "relock" ELSE m_pc[u]
    BY <2>1 DEF MilkInv
  <2>3. AtMilk' = AtMilk
    BY <2>1, <2>2 DEF AtMilk
  <2>4. QED BY <2>1, <2>2, <2>3 DEF MilkInv
<1>6. CASE M!Relocks(t)
  BY <1>2, <1>6, MilkAsks DEF M!Relocks
<1>7. CASE M!GoesToBuy(t)
  BY <1>2, <1>7, MilkKeeps DEF M!GoesToBuy
<1>8. CASE M!Buys(t)
  <2>1. milk = 0 /\ t \in AtMilk
    BY <1>2, <1>8 DEF M!Buys, MilkInv
  <2>2. m_pc' = [m_pc EXCEPT ![t] = "leave"] /\ m_mutex' = m_mutex
    BY <1>2, <1>8, <2>1 DEF M!Buys
  <2>3. QED BY <2>1, <2>2, MilkKeeps
<1>9. CASE M!Drinks(t)
  BY <1>2, <1>9, MilkKeeps DEF M!Drinks
<1>10. CASE M!Signals(t)
  BY <1>2, <1>10, MilkKeeps DEF M!Signals
<1>11. CASE M!Leaves(t)
  <2>1. m_pc[t] # "waste"
    BY DEF MilkInv
  <2>2. /\ t \in AtMilk /\ m_pc' = [m_pc EXCEPT ![t] = "asleep"]
        /\ m_mutex' = M!Up(m_mutex) /\ milk' = milk
    BY <1>2, <1>11, <2>1 DEF M!Leaves
  <2>3. QED BY <2>2, MilkGives
<1>12. QED BY <1>3, <1>4, <1>5, <1>6, <1>7, <1>8, <1>9, <1>10, <1>11 DEF M!Run

LEMMA MilkStutter == MilkInv /\ UNCHANGED milk8 => MilkInv'
BY DEF MilkInv, AtMilk, milk8

\* Nobody brings milk to a fridge that has some, for any number of buyers and drinkers,
\* though a buyer may be woken by a signal that is long out of date.
THEOREM MilkCorrect == SyncSpec => []NoWaste
<1>1. MilkInv /\ [SyncNext]_syncVars => MilkInv'
  <2>1. MilkInv /\ Milk8(M!Next) => MilkInv'
    BY MilkStep DEF Milk8, M!Next
  <2>2. Monitor(Next) \/ Semaphores(S!Next) \/ BikeLine(B!Next) \/ Milk7(F!Next) \/ Keyboard(K!Next)
          => UNCHANGED milk8
    BY DEF Monitor, Semaphores, BikeLine, Milk7, Keyboard
  <2>3. UNCHANGED syncVars => UNCHANGED milk8
    BY DEF syncVars
  <2>4. QED BY <2>1, <2>2, <2>3, MilkStutter DEF SyncNext
<1>2. MilkInv => NoWaste
  BY DEF MilkInv, NoWaste, M!NoWaste
<1>3. QED BY <1>1, <1>2, MilkInit, PTL DEF SyncSpec

------------------------------------------------------------------------------
(* The keyboard.  The positions of dev_stdin.c count for ever, those of the       *)
(* console are the same numbers in its ring: until a character is lost the       *)
(* console holds what was typed after p_wpos, and stdin_buffer what was typed     *)
(* from p_rpos to p_wpos.                                                        *)

KeyTypes ==
  /\ typed \in Nat /\ p_rpos \in Nat /\ p_wpos \in Nat
  /\ p_rpos <= p_wpos /\ p_wpos <= p_rpos + STDIN_BUFSIZE
  /\ cons = [buf |-> cons.buf, rpos |-> cons.rpos, wpos |-> cons.wpos]
  /\ DOMAIN cons.buf = 0..(CONSBUFSIZE - 1)
  /\ DOMAIN stdin_buffer = 0..(STDIN_BUFSIZE - 1)
  /\ wait_queue \in Seq(Reader)
  /\ k_pc \in [Reader -> {"user", "asleep", "ready"}]
  /\ left \in [Reader -> Nat]

\* what the console holds
ConsHolds ==
  /\ p_wpos <= typed /\ typed < p_wpos + CONSBUFSIZE
  /\ cons.rpos = p_wpos % CONSBUFSIZE /\ cons.wpos = typed % CONSBUFSIZE
  /\ \A i \in p_wpos..(typed - 1) : cons.buf[i % CONSBUFSIZE] = i + 1

\* what stdin_buffer holds
StdinHolds == \A i \in p_rpos..(p_wpos - 1) : stdin_buffer[i % STDIN_BUFSIZE] = i + 1

KeyInv ==
  /\ KeyTypes /\ overrun \in BOOLEAN
  /\ overrun = FALSE => ConsHolds /\ StdinHolds
  /\ K!SleeperHasNothing

KeySizes == /\ CONSBUFSIZE \in Nat \ {0} /\ STDIN_BUFSIZE \in Nat \ {0}
            /\ MaxLen \in Nat /\ MaxTyped \in Nat

LEMMA KeyConstants == KeySizes
BY SyncAssumption DEF KeySizes, K!StdinAssumption

LEMMA KeyInit == SyncInit => KeyInv
<1> SUFFICES ASSUME SyncInit PROVE KeyInv
  OBVIOUS
<1>1. /\ typed = 0 /\ p_rpos = 0 /\ p_wpos = 0 /\ wait_queue = <<>> /\ overrun = FALSE
      /\ cons = [buf |-> [i \in 0..(CONSBUFSIZE - 1) |-> 0], rpos |-> 0, wpos |-> 0]
      /\ stdin_buffer = [i \in 0..(STDIN_BUFSIZE - 1) |-> 0]
      /\ k_pc = [r \in Reader |-> "user"] /\ left = [r \in Reader |-> 0]
  BY DEF SyncInit, K!Init
<1>2. KeyTypes /\ overrun \in BOOLEAN
  <2>1. <<>> \in Seq(Reader)
    OBVIOUS
  <2>2. /\ typed \in Nat /\ p_rpos \in Nat /\ p_wpos \in Nat
        /\ p_rpos <= p_wpos /\ p_wpos <= p_rpos + STDIN_BUFSIZE
    BY <1>1, KeyConstants DEF KeySizes
  <2>3. /\ cons = [buf |-> cons.buf, rpos |-> cons.rpos, wpos |-> cons.wpos]
        /\ DOMAIN cons.buf = 0..(CONSBUFSIZE - 1)
        /\ DOMAIN stdin_buffer = 0..(STDIN_BUFSIZE - 1)
    BY <1>1
  <2>4. /\ k_pc \in [Reader -> {"user", "asleep", "ready"}] /\ left \in [Reader -> Nat]
        /\ overrun \in BOOLEAN
    BY <1>1
  <2>5. QED BY <1>1, <2>1, <2>2, <2>3, <2>4 DEF KeyTypes
<1>3. ConsHolds /\ StdinHolds
  <2>1. 0 % CONSBUFSIZE = 0
    BY KeyConstants, ModSmall DEF KeySizes
  <2>2. QED BY <1>1, <2>1, KeyConstants DEF ConsHolds, StdinHolds, KeySizes
<1>4. K!SleeperHasNothing
  BY <1>1 DEF K!SleeperHasNothing
<1>5. QED BY <1>2, <1>3, <1>4 DEF KeyInv

\* The loop of dev_stdin_read: who does not get everything finds the buffer empty.
LEMMA KeyTakes ==
  ASSUME KeyInv, NEW r \in Reader, NEW len \in Nat, NEW q \in Seq(Reader), K!Takes(r, len, q),
         \A u \in Reader : u # r /\ k_pc[u] = "asleep" => K!Contains(q, u),
         UNCHANGED <<typed, cons, stdin_buffer, p_wpos, overrun>>
  PROVE  KeyInv'
<1> DEFINE k == K!Least(len, p_wpos - p_rpos)
<1>0. KeyTypes /\ KeySizes
  BY KeyConstants DEF KeyInv
<1>1. k \in Nat /\ k <= len /\ p_rpos + k <= p_wpos /\ (k # len => p_rpos + k = p_wpos)
      /\ (p_rpos = p_wpos => k = 0)
  BY <1>0 DEF K!Least, KeyTypes
<1>2. p_rpos' = p_rpos + k /\ left' = [left EXCEPT ![r] = len - k]
      /\ IF k = len
         THEN k_pc' = [k_pc EXCEPT ![r] = "user"] /\ wait_queue' = q
         ELSE k_pc' = [k_pc EXCEPT ![r] = "asleep"] /\ wait_queue' = Append(q, r)
  BY DEF K!Takes
<1> HIDE DEF k
<1>3. wait_queue' \in Seq(Reader)
  BY <1>2, AppendProperties
<1>4. KeyTypes'
  <2>0. len - k \in Nat /\ left \in [Reader -> Nat]
        /\ k_pc \in [Reader -> {"user", "asleep", "ready"}]
    BY <1>0, <1>1 DEF KeyTypes
  <2>1. left' \in [Reader -> Nat]
    BY <1>2, <2>0
  <2>1a. k_pc' \in [Reader -> {"user", "asleep", "ready"}]
    BY <1>2, <2>0
  <2>2. p_rpos' \in Nat /\ p_rpos' <= p_wpos' /\ p_wpos' <= p_rpos' + STDIN_BUFSIZE
    <3>1. p_wpos' = p_wpos /\ p_rpos' = p_rpos + k
      BY <1>2
    <3>2. /\ p_rpos \in Nat /\ p_wpos \in Nat /\ STDIN_BUFSIZE \in Nat
          /\ p_wpos <= p_rpos + STDIN_BUFSIZE
      BY <1>0 DEF KeyTypes, KeySizes
    <3>3. QED BY <1>1, <3>1, <3>2
  <2>3. /\ typed' \in Nat /\ p_wpos' \in Nat
        /\ cons' = [buf |-> cons'.buf, rpos |-> cons'.rpos, wpos |-> cons'.wpos]
        /\ DOMAIN cons'.buf = 0..(CONSBUFSIZE - 1)
        /\ DOMAIN stdin_buffer' = 0..(STDIN_BUFSIZE - 1)
    BY <1>0 DEF KeyTypes
  <2>4. QED BY <1>3, <2>1, <2>1a, <2>2, <2>3 DEF KeyTypes
<1>5. overrun' = overrun
  OBVIOUS
<1>6. ConsHolds => ConsHolds'
  BY DEF ConsHolds
<1>7. StdinHolds => StdinHolds'
  BY <1>0, <1>1, <1>2 DEF StdinHolds, KeyTypes
<1>8. overrun' \in BOOLEAN /\ (overrun' = FALSE => ConsHolds' /\ StdinHolds')
  BY <1>5, <1>6, <1>7 DEF KeyInv
<1>9. \A u \in Reader : u # r => k_pc'[u] = k_pc[u]
  BY <1>0, <1>2 DEF KeyTypes
<1>10. \A u \in Reader : u # r /\ k_pc[u] = "asleep" =>
         p_rpos' = p_wpos' /\ K!Contains(wait_queue', u)
  <2> SUFFICES ASSUME NEW u \in Reader, u # r, k_pc[u] = "asleep"
               PROVE  p_rpos' = p_wpos' /\ K!Contains(wait_queue', u)
    OBVIOUS
  <2>1. p_rpos = p_wpos
    BY DEF KeyInv, K!SleeperHasNothing
  <2>2. p_rpos' = p_wpos'
    BY <1>0, <1>1, <1>2, <2>1 DEF KeyTypes
  <2>3. PICK i \in 1..Len(q) : q[i] = u
    BY DEF K!Contains
  <2>4. Len(wait_queue') >= Len(q) /\ wait_queue'[i] = u /\ Len(q) \in Nat
        /\ Len(wait_queue') \in Nat
    BY <1>2, <2>3, AppendProperties
  <2>5. i \in 1..Len(wait_queue')
    BY <2>4
  <2>6. QED BY <2>2, <2>4, <2>5 DEF K!Contains
<1>11. k_pc'[r] = "asleep" => p_rpos' = p_wpos' /\ K!Contains(wait_queue', r)
  <2> SUFFICES ASSUME k_pc'[r] = "asleep"
               PROVE  p_rpos' = p_wpos' /\ K!Contains(wait_queue', r)
    OBVIOUS
  <2>1. k # len /\ wait_queue' = Append(q, r)
    BY <1>0, <1>2 DEF KeyTypes
  <2>2. Len(q) \in Nat /\ Len(wait_queue') = Len(q) + 1 /\ wait_queue'[Len(q) + 1] = r
    BY <2>1, AppendProperties
  <2>3. p_rpos' = p_wpos'
    BY <1>1, <1>2, <2>1
  <2>4. QED BY <2>2, <2>3 DEF K!Contains
<1>12. K!SleeperHasNothing'
  BY <1>9, <1>10, <1>11 DEF K!SleeperHasNothing
<1>13. QED BY <1>4, <1>8, <1>12 DEF KeyInv

LEMMA KeyReads ==
  ASSUME KeyInv, NEW r \in Reader, NEW len \in 1..MaxLen, K!Reads(r, len)
  PROVE  KeyInv'
<1>1. wait_queue \in Seq(Reader) /\ len \in Nat
  BY KeyConstants DEF KeyInv, KeyTypes, KeySizes
<1>2. \A u \in Reader : u # r /\ k_pc[u] = "asleep" => K!Contains(wait_queue, u)
  BY DEF KeyInv, K!SleeperHasNothing
<1>3. /\ K!Takes(r, len, wait_queue)
      /\ UNCHANGED <<typed, cons, stdin_buffer, p_wpos, overrun>>
  BY DEF K!Reads
<1>4. QED BY <1>1, <1>2, <1>3, KeyTakes

LEMMA KeyResumes ==
  ASSUME KeyInv, NEW r \in Reader, K!Resumes(r)
  PROVE  KeyInv'
<1> DEFINE q == K!RemoveFirst(wait_queue, r)
<1>0. KeyTypes
  BY DEF KeyInv
<1>1. q \in Seq(Reader) /\ \A u : u # r /\ K!Contains(wait_queue, u) => K!Contains(q, u)
  <2>1. wait_queue \in Seq(Reader)
    BY <1>0 DEF KeyTypes
  <2>2. q = RemoveFirst(wait_queue, r)
    BY DEF K!RemoveFirst, RemoveFirst, K!RemoveAt, RemoveAt, K!SelectInSeq, SelectInSeq,
           K!Min, Min
  <2>3. \A l, u : K!Contains(l, u) <=> Contains(l, u)
    BY DEF K!Contains, Contains
  <2> HIDE DEF q
  <2>4. QED BY <2>1, <2>2, <2>3, RemoveFirstFacts
<1>2. \A u \in Reader : u # r /\ k_pc[u] = "asleep" => K!Contains(q, u)
  BY <1>1 DEF KeyInv, K!SleeperHasNothing
<1>3. k_pc[r] = "ready" /\ UNCHANGED <<typed, cons, stdin_buffer, p_wpos, overrun>>
  BY DEF K!Resumes
<1>4. CASE wakeup_flags[r] = "WT_KBD"
  <2>1. K!Takes(r, left[r], q)
    BY <1>4 DEF K!Resumes
  <2>2. left[r] \in Nat
    BY <1>0 DEF KeyTypes
  <2> HIDE DEF q
  <2>3. QED BY <1>1, <1>2, <1>3, <2>1, <2>2, KeyTakes
<1>5. CASE wakeup_flags[r] # "WT_KBD"
  <2>1. /\ k_pc' = [k_pc EXCEPT ![r] = "user"] /\ wait_queue' = q
        /\ UNCHANGED <<p_rpos, left>>
    BY <1>5 DEF K!Resumes
  <2> HIDE DEF q
  <2>2. KeyTypes'
    BY <1>0, <1>1, <1>3, <2>1 DEF KeyTypes
  <2>3. (ConsHolds => ConsHolds') /\ (StdinHolds => StdinHolds') /\ overrun' = overrun
    BY <1>3, <2>1 DEF ConsHolds, StdinHolds
  <2>4. overrun' \in BOOLEAN /\ (overrun' = FALSE => ConsHolds' /\ StdinHolds')
    BY <2>3 DEF KeyInv
  <2>5. K!SleeperHasNothing'
    <3>1. \A u \in Reader : k_pc'[u] = "asleep" => u # r /\ k_pc[u] = "asleep"
      BY <1>0, <2>1 DEF KeyTypes
    <3>2. QED BY <1>2, <1>3, <2>1, <3>1 DEF KeyInv, K!SleeperHasNothing
  <2>6. QED BY <2>2, <2>4, <2>5 DEF KeyInv
<1>6. QED BY <1>4, <1>5

LEMMA KeyKill ==
  ASSUME KeyInv, NEW r \in Reader, K!Kill(r)
  PROVE  KeyInv'
<1>0. KeyTypes
  BY DEF KeyInv
<1>1. /\ k_pc' = [k_pc EXCEPT ![r] = IF @ = "asleep" THEN "ready" ELSE @]
      /\ UNCHANGED <<typed, cons, stdin_buffer, p_rpos, p_wpos, wait_queue, left, overrun>>
  BY DEF K!Kill
<1>2. KeyTypes'
  BY <1>0, <1>1 DEF KeyTypes
<1>3. (ConsHolds => ConsHolds') /\ (StdinHolds => StdinHolds') /\ overrun' = overrun
  BY <1>1 DEF ConsHolds, StdinHolds
<1>4. overrun' \in BOOLEAN /\ (overrun' = FALSE => ConsHolds' /\ StdinHolds')
  BY <1>3 DEF KeyInv
<1>5. K!SleeperHasNothing'
  <2>1. \A u \in Reader : k_pc'[u] = "asleep" => k_pc[u] = "asleep"
    BY <1>0, <1>1 DEF KeyTypes
  <2>2. QED BY <1>1, <2>1 DEF KeyInv, K!SleeperHasNothing
<1>6. QED BY <1>2, <1>4, <1>5 DEF KeyInv

\* What cons_intr makes of the ring of the console.
LEMMA KeyFill ==
  ASSUME KeyInv, NEW n \in 0..MaxTyped, NEW full, full = K!Fill(n)
  PROVE  /\ full = [buf |-> full.buf, rpos |-> cons.rpos, wpos |-> (cons.wpos + n) % CONSBUFSIZE]
         /\ DOMAIN full.buf = 0..(CONSBUFSIZE - 1)
         /\ \A i \in 0..(CONSBUFSIZE - 1) :
              LET put == {k \in 1..n : (cons.wpos + k - 1) % CONSBUFSIZE = i}
              IN full.buf[i] = IF put = {} THEN cons.buf[i]
                               ELSE typed + CHOOSE k \in put : \A h \in put : h <= k
<1>1. /\ cons = [buf |-> cons.buf, rpos |-> cons.rpos, wpos |-> cons.wpos]
      /\ DOMAIN cons.buf = 0..(CONSBUFSIZE - 1)
  BY DEF KeyInv, KeyTypes
<1> DEFINE g(i) == LET put == {k \in 1..n : (cons.wpos + k - 1) % CONSBUFSIZE = i}
                   IN IF put = {} THEN cons.buf[i]
                      ELSE typed + CHOOSE k \in put : \A h \in put : h <= k
<1>2. full = [cons EXCEPT !.buf = [i \in DOMAIN cons.buf |-> g(i)],
                          !.wpos = (cons.wpos + n) % CONSBUFSIZE]
  BY DEF K!Fill
<1> HIDE DEF g
<1>3. /\ full = [buf |-> full.buf, rpos |-> cons.rpos, wpos |-> (cons.wpos + n) % CONSBUFSIZE]
      /\ full.buf = [i \in 0..(CONSBUFSIZE - 1) |-> g(i)]
  BY <1>1, <1>2
<1>4. DOMAIN full.buf = 0..(CONSBUFSIZE - 1) /\ \A i \in 0..(CONSBUFSIZE - 1) : full.buf[i] = g(i)
  BY <1>3
<1>5. QED BY <1>3, <1>4 DEF g

\* Unless that is too much, what was typed comes after what the console held.
LEMMA KeyFilled ==
  ASSUME KeyInv, ConsHolds, NEW n \in 0..MaxTyped, ~(Len(K!Pending) + n >= CONSBUFSIZE),
         NEW full, full = K!Fill(n)
  PROVE  /\ typed + n < p_wpos + CONSBUFSIZE
         /\ full.rpos = p_wpos % CONSBUFSIZE /\ full.wpos = (typed + n) % CONSBUFSIZE
         /\ \A j \in p_wpos..(typed + n - 1) : full.buf[j % CONSBUFSIZE] = j + 1
<1>0. /\ typed \in Nat /\ p_wpos \in Nat /\ n \in Nat /\ CONSBUFSIZE \in Nat \ {0}
      /\ p_wpos <= typed /\ typed < p_wpos + CONSBUFSIZE
      /\ cons.rpos = p_wpos % CONSBUFSIZE /\ cons.wpos = typed % CONSBUFSIZE
  BY KeyConstants DEF KeyInv, KeyTypes, ConsHolds, KeySizes
<1>1. ((cons.wpos - cons.rpos) % CONSBUFSIZE) = typed - p_wpos
  <2>1. ((typed % CONSBUFSIZE) - (p_wpos % CONSBUFSIZE)) % CONSBUFSIZE = typed - p_wpos
    BY <1>0, ModDiff
  <2>2. QED BY <1>0, <2>1
<1>2. Len(K!Pending) = typed - p_wpos
  <2> DEFINE m == (cons.wpos - cons.rpos) % CONSBUFSIZE
  <2>1. m \in Nat
    BY <1>0, <1>1
  <2> HIDE DEF m
  <2>2. K!Pending = [k \in 1..m |-> cons.buf[(cons.rpos + k - 1) % CONSBUFSIZE]]
    BY DEF K!Pending, m
  <2>3. Len(K!Pending) = m
    BY <2>1, <2>2
  <2>4. QED BY <1>1, <2>3 DEF m
<1>3. typed + n < p_wpos + CONSBUFSIZE
  BY <1>0, <1>2
<1>4. full.rpos = p_wpos % CONSBUFSIZE /\ full.wpos = (typed + n) % CONSBUFSIZE
  <2>1. full.rpos = cons.rpos /\ full.wpos = (cons.wpos + n) % CONSBUFSIZE
    BY KeyFill
  <2>2. (cons.wpos + n) % CONSBUFSIZE = (typed + n) % CONSBUFSIZE
    BY <1>0, ModAdd
  <2>3. QED BY <1>0, <2>1, <2>2
<1>5. ASSUME NEW j \in p_wpos..(typed + n - 1)
      PROVE  full.buf[j % CONSBUFSIZE] = j + 1
  <2> DEFINE i == j % CONSBUFSIZE
             put == {k \in 1..n : (cons.wpos + k - 1) % CONSBUFSIZE = i}
  <2>0. j \in Nat /\ i \in 0..(CONSBUFSIZE - 1)
    BY <1>0
  <2>1. full.buf[i] = IF put = {} THEN cons.buf[i]
                      ELSE typed + CHOOSE k \in put : \A h \in put : h <= k
    BY <2>0, KeyFill
  <2>2. \A k \in 1..n : (cons.wpos + k - 1) % CONSBUFSIZE = (typed + (k - 1)) % CONSBUFSIZE
    <3> SUFFICES ASSUME NEW k \in 1..n
                 PROVE  (cons.wpos + k - 1) % CONSBUFSIZE = (typed + (k - 1)) % CONSBUFSIZE
      OBVIOUS
    <3>1. k - 1 \in Nat
      OBVIOUS
    <3>2. ((typed % CONSBUFSIZE) + (k - 1)) % CONSBUFSIZE = (typed + (k - 1)) % CONSBUFSIZE
      BY <1>0, <3>1, ModAdd
    <3>3. cons.wpos + k - 1 = (typed % CONSBUFSIZE) + (k - 1)
      BY <1>0
    <3>4. QED BY <3>2, <3>3
  <2>3. \A k \in 1..n : typed + (k - 1) # j => (typed + (k - 1)) % CONSBUFSIZE # i
    <3> SUFFICES ASSUME NEW k \in 1..n, typed + (k - 1) # j
                 PROVE  (typed + (k - 1)) % CONSBUFSIZE # i
      OBVIOUS
    <3>1. PICK x \in Nat : x = typed + (k - 1)
      BY <1>0
    <3>2. x # j /\ j < x + CONSBUFSIZE /\ x < j + CONSBUFSIZE
      BY <1>0, <1>3, <2>0, <3>1
    <3>3. x % CONSBUFSIZE # j % CONSBUFSIZE
      <4>1. CASE x < j
        BY <1>0, <2>0, <3>2, <4>1, ModDistinct
      <4>2. CASE j < x
        BY <1>0, <2>0, <3>2, <4>2, ModDistinct
      <4>3. QED BY <2>0, <3>2, <4>1, <4>2
    <3>4. QED BY <3>1, <3>3
  <2>4. CASE j < typed
    <3>1. put = {}
      <4>1. \A k \in 1..n : typed + (k - 1) # j
        BY <1>0, <2>0, <2>4
      <4> HIDE DEF i
      <4>2. QED BY <2>2, <2>3, <4>1
    <3>2. cons.buf[i] = j + 1
      <4>1. j \in p_wpos..(typed - 1)
        BY <1>0, <2>0, <2>4
      <4>2. QED BY <4>1 DEF ConsHolds
    <3>3. QED BY <2>1, <3>1, <3>2
  <2>5. CASE j >= typed
    <3>1. PICK k \in 1..n : k = j - typed + 1
      BY <1>0, <2>0, <2>5
    <3>2. typed + (k - 1) = j /\ \A h \in 1..n : typed + (h - 1) = j => h = k
      BY <1>0, <2>0, <3>1
    <3>3. put = {k}
      BY <2>2, <2>3, <3>2
    <3> HIDE DEF put
    <3>4. (CHOOSE h \in put : \A g \in put : g <= h) = k
      BY <3>3
    <3>5. full.buf[i] = typed + k
      BY <2>1, <3>3, <3>4
    <3>6. QED BY <1>0, <2>0, <3>1, <3>5
  <2>6. QED BY <1>0, <2>0, <2>4, <2>5
<1>6. QED BY <1>3, <1>4, <1>5

\* dev_stdin_write(cons_getc()): the first character of the console goes to stdin_buffer.
LEMMA KeyMoved ==
  ASSUME KeyInv, ConsHolds, StdinHolds, NEW n \in 0..MaxTyped, K!Tick(n),
         ~(Len(K!Pending) + n >= CONSBUFSIZE),
         NEW full, full = K!Fill(n),
         NEW c, c = IF full.rpos = full.wpos THEN 0 ELSE full.buf[full.rpos],
         c # 0 => p_wpos - p_rpos < STDIN_BUFSIZE
  PROVE  ConsHolds' /\ StdinHolds'
<1>0. /\ typed \in Nat /\ p_wpos \in Nat /\ p_rpos \in Nat /\ n \in Nat
      /\ CONSBUFSIZE \in Nat \ {0} /\ STDIN_BUFSIZE \in Nat \ {0}
      /\ p_wpos <= typed /\ typed < p_wpos + CONSBUFSIZE
      /\ p_rpos <= p_wpos /\ DOMAIN stdin_buffer = 0..(STDIN_BUFSIZE - 1)
  BY KeyConstants DEF KeyInv, KeyTypes, ConsHolds, KeySizes
<1>1. /\ full = [buf |-> full.buf, rpos |-> full.rpos, wpos |-> full.wpos]
      /\ typed + n < p_wpos + CONSBUFSIZE
      /\ full.rpos = p_wpos % CONSBUFSIZE /\ full.wpos = (typed + n) % CONSBUFSIZE
      /\ \A j \in p_wpos..(typed + n - 1) : full.buf[j % CONSBUFSIZE] = j + 1
  BY KeyFill, KeyFilled
<1>2. typed' = typed + n /\ p_rpos' = p_rpos
  BY DEF K!Tick
<1>3. CASE typed + n = p_wpos
  <2>1. full.rpos = full.wpos /\ c = 0
    BY <1>1, <1>3
  <2>2. cons' = full /\ p_wpos' = p_wpos /\ stdin_buffer' = stdin_buffer
    BY <2>1 DEF K!Tick, K!Grab
  <2>3. ConsHolds'
    <3>1. p_wpos' <= typed' /\ typed' < p_wpos' + CONSBUFSIZE
      BY <1>0, <1>2, <1>3, <2>2
    <3>2. cons'.rpos = p_wpos' % CONSBUFSIZE /\ cons'.wpos = typed' % CONSBUFSIZE
      BY <1>1, <1>2, <2>2
    <3>3. ~\E i \in p_wpos'..(typed' - 1) : TRUE
      BY <1>0, <1>2, <1>3, <2>2
    <3>4. QED BY <3>1, <3>2, <3>3 DEF ConsHolds
  <2>4. StdinHolds'
    BY <1>2, <2>2 DEF StdinHolds
  <2>5. QED BY <2>3, <2>4
<1>4. CASE typed + n # p_wpos
  <2>1. p_wpos < typed + n /\ p_wpos \in p_wpos..(typed + n - 1)
    BY <1>0, <1>4
  <2>2. full.rpos # full.wpos
    <3>1. PICK x \in Nat : x = typed + n
      BY <1>0
    <3>2. p_wpos % CONSBUFSIZE # x % CONSBUFSIZE
      BY <1>0, <1>1, <2>1, <3>1, ModDistinct
    <3>3. QED BY <1>1, <3>1, <3>2
  <2>3. c = p_wpos + 1 /\ c # 0
    BY <1>0, <1>1, <2>1, <2>2
  <2>4. p_wpos - p_rpos < STDIN_BUFSIZE
    BY <2>3
  <2>5. cons' = [full EXCEPT !.rpos = (full.rpos + 1) % CONSBUFSIZE]
    BY <2>2 DEF K!Tick, K!Grab
  <2>6. /\ stdin_buffer' = [stdin_buffer EXCEPT ![p_wpos % STDIN_BUFSIZE] = c]
        /\ p_wpos' = p_wpos + 1
    BY <2>3, <2>4 DEF K!Tick
  <2>7. (full.rpos + 1) % CONSBUFSIZE = (p_wpos + 1) % CONSBUFSIZE
    <3>1. ((p_wpos % CONSBUFSIZE) + 1) % CONSBUFSIZE = (p_wpos + 1) % CONSBUFSIZE
      BY <1>0, ModAdd
    <3>2. QED BY <1>1, <3>1
  <2>8. cons'.buf = full.buf /\ cons'.rpos = p_wpos' % CONSBUFSIZE /\ cons'.wpos = full.wpos
    BY <1>1, <2>5, <2>6, <2>7
  <2>9. ConsHolds'
    <3>1. p_wpos' <= typed' /\ typed' < p_wpos' + CONSBUFSIZE
      <4>1. p_wpos' = p_wpos + 1 /\ typed' = typed + n /\ typed + n < p_wpos + CONSBUFSIZE
        BY <1>1, <1>2, <2>6
      <4>2. QED BY <1>0, <2>1, <4>1
    <3>2. cons'.rpos = p_wpos' % CONSBUFSIZE /\ cons'.wpos = typed' % CONSBUFSIZE
      BY <1>1, <1>2, <2>8
    <3>3. \A i \in p_wpos'..(typed' - 1) : cons'.buf[i % CONSBUFSIZE] = i + 1
      <4>1. \A i \in p_wpos'..(typed' - 1) : i \in p_wpos..(typed + n - 1)
        BY <1>0, <1>2, <2>6
      <4>2. QED BY <1>1, <2>8, <4>1
    <3>4. QED BY <3>1, <3>2, <3>3 DEF ConsHolds
  <2>10. ASSUME NEW j \in p_rpos..p_wpos
         PROVE  stdin_buffer'[j % STDIN_BUFSIZE] = j + 1
    <3>0. j \in Nat /\ j % STDIN_BUFSIZE \in 0..(STDIN_BUFSIZE - 1)
      BY <1>0
    <3>1. CASE j = p_wpos
      BY <1>0, <2>3, <2>6, <3>0, <3>1
    <3>2. CASE j # p_wpos
      <4>1. j < p_wpos /\ p_wpos < j + STDIN_BUFSIZE
        BY <1>0, <2>4, <3>0, <3>2
      <4>2. j % STDIN_BUFSIZE # p_wpos % STDIN_BUFSIZE
        BY <1>0, <3>0, <4>1, ModDistinct
      <4>3. stdin_buffer[j % STDIN_BUFSIZE] = j + 1
        BY <1>0, <3>0, <4>1 DEF StdinHolds
      <4>4. QED BY <1>0, <2>6, <3>0, <4>2, <4>3
    <3>3. QED BY <3>1, <3>2
  <2>11. StdinHolds'
    <3>1. \A j \in p_rpos'..(p_wpos' - 1) : j \in p_rpos..p_wpos
      BY <1>0, <1>2, <2>6
    <3>2. QED BY <2>10, <3>1 DEF StdinHolds
  <2>12. QED BY <2>9, <2>11
<1>5. QED BY <1>3, <1>4

LEMMA KeyTick ==
  ASSUME KeyInv, NEW n \in 0..MaxTyped, K!Tick(n)
  PROVE  KeyInv'
<1> DEFINE full == K!Fill(n)
           c == IF full.rpos = full.wpos THEN 0 ELSE full.buf[full.rpos]
           room == p_wpos - p_rpos < STDIN_BUFSIZE
<1>0. KeyTypes /\ KeySizes /\ n \in Nat /\ overrun \in BOOLEAN
  BY KeyConstants DEF KeyInv, KeySizes
<1>1. /\ typed' = typed + n /\ cons' = K!Grab(full) /\ p_rpos' = p_rpos /\ left' = left
      /\ IF c = 0 THEN UNCHANGED <<stdin_buffer, p_wpos, wait_queue, k_pc, wakeup_flags>>
         ELSE /\ stdin_buffer' = [stdin_buffer EXCEPT ![p_wpos % STDIN_BUFSIZE] = c]
              /\ p_wpos' = IF room THEN p_wpos + 1 ELSE p_wpos
              /\ K!Wakes
  BY DEF K!Tick
<1>2. overrun' = (overrun \/ Len(K!Pending) + n >= CONSBUFSIZE \/ (c # 0 /\ ~room))
  BY DEF K!Tick
<1>3. /\ full = [buf |-> full.buf, rpos |-> full.rpos, wpos |-> full.wpos]
      /\ DOMAIN full.buf = 0..(CONSBUFSIZE - 1)
  BY KeyFill
<1>4. /\ overrun' \in BOOLEAN
      /\ overrun' = FALSE =>
           overrun = FALSE /\ ~(Len(K!Pending) + n >= CONSBUFSIZE) /\ (c # 0 => room)
  <2> HIDE DEF c, room, full
  <2>1. QED BY <1>0, <1>2, Zenon
<1>5. overrun' = FALSE => ConsHolds' /\ StdinHolds'
  <2> HAVE overrun' = FALSE
  <2>1. ConsHolds /\ StdinHolds
    BY <1>4 DEF KeyInv
  <2>2. ~(Len(K!Pending) + n >= CONSBUFSIZE) /\ (c # 0 => room)
    BY <1>4
  <2>3. QED BY <2>1, <2>2, KeyMoved
<1> HIDE DEF c, full
<1>6. K!Wakes => /\ wait_queue' = <<>>
                 /\ k_pc' \in [Reader -> {"user", "asleep", "ready"}]
                 /\ \A r \in Reader : k_pc'[r] # "asleep"
  <2> HAVE K!Wakes
  <2> DEFINE all == {wait_queue[i] : i \in DOMAIN wait_queue}
  <2>1. /\ wait_queue' = <<>>
        /\ k_pc' = [r \in Reader |-> IF r \in all THEN "ready" ELSE k_pc[r]]
    BY DEF K!Wakes
  <2>2. \A r \in Reader : k_pc[r] = "asleep" => r \in all
    <3>1. DOMAIN wait_queue = 1..Len(wait_queue)
      BY <1>0 DEF KeyTypes
    <3>2. QED BY <3>1 DEF KeyInv, K!SleeperHasNothing, K!Contains
  <2> HIDE DEF all
  <2>3. QED BY <1>0, <2>1, <2>2 DEF KeyTypes
<1>7. KeyTypes'
  <2>1. /\ cons' = [buf |-> cons'.buf, rpos |-> cons'.rpos, wpos |-> cons'.wpos]
        /\ DOMAIN cons'.buf = 0..(CONSBUFSIZE - 1)
    BY <1>1, <1>3 DEF K!Grab
  <2>2. /\ DOMAIN stdin_buffer' = 0..(STDIN_BUFSIZE - 1)
        /\ p_wpos' \in {p_wpos, IF room THEN p_wpos + 1 ELSE p_wpos}
    BY <1>0, <1>1 DEF KeyTypes
  <2>3. /\ typed' \in Nat /\ p_rpos' \in Nat /\ p_wpos' \in Nat
        /\ p_rpos' <= p_wpos' /\ p_wpos' <= p_rpos' + STDIN_BUFSIZE
    BY <1>0, <1>1, <2>2 DEF KeyTypes, KeySizes
  <2>4. wait_queue' \in Seq(Reader) /\ k_pc' \in [Reader -> {"user", "asleep", "ready"}]
    <3>1. <<>> \in Seq(Reader)
      OBVIOUS
    <3>2. QED BY <1>0, <1>1, <1>6, <3>1 DEF KeyTypes
  <2>5. left' \in [Reader -> Nat]
    BY <1>0, <1>1 DEF KeyTypes
  <2>6. QED BY <2>1, <2>2, <2>3, <2>4, <2>5 DEF KeyTypes
<1>8. K!SleeperHasNothing'
  BY <1>1, <1>6 DEF KeyInv, K!SleeperHasNothing, K!Contains
<1>9. QED BY <1>4, <1>5, <1>7, <1>8 DEF KeyInv

LEMMA KeyStutter == KeyInv /\ UNCHANGED keyboard => KeyInv'
BY DEF KeyInv, KeyTypes, ConsHolds, StdinHolds, K!SleeperHasNothing, keyboard

\* What is read is what was typed.
LEMMA KeyOrder == KeyInv => KeptInOrder
<1> SUFFICES ASSUME KeyInv PROVE K!KeptInOrder
  BY DEF KeptInOrder, KeyInv
<1> SUFFICES ASSUME overrun = FALSE
             PROVE  K!Unread \o K!Pending = [n \in 1..(typed - p_rpos) |-> p_rpos + n]
  BY DEF K!KeptInOrder, KeyInv
<1>0. /\ typed \in Nat /\ p_wpos \in Nat /\ p_rpos \in Nat
      /\ CONSBUFSIZE \in Nat \ {0} /\ STDIN_BUFSIZE \in Nat \ {0}
      /\ p_wpos <= typed /\ typed < p_wpos + CONSBUFSIZE /\ p_rpos <= p_wpos
      /\ cons.rpos = p_wpos % CONSBUFSIZE /\ cons.wpos = typed % CONSBUFSIZE
      /\ ConsHolds /\ StdinHolds
  BY KeyConstants DEF KeyInv, KeyTypes, ConsHolds, KeySizes
<1>1. /\ K!Unread \in Seq(Nat) /\ Len(K!Unread) = p_wpos - p_rpos
      /\ \A n \in 1..(p_wpos - p_rpos) : K!Unread[n] = p_rpos + n
  <2>1. ASSUME NEW n \in 1..(p_wpos - p_rpos)
        PROVE  stdin_buffer[(p_rpos + n - 1) % STDIN_BUFSIZE] = p_rpos + n
    <3>1. p_rpos + n - 1 \in p_rpos..(p_wpos - 1)
      BY <1>0
    <3>2. QED BY <1>0, <3>1 DEF StdinHolds
  <2>2. K!Unread = [n \in 1..(p_wpos - p_rpos) |-> p_rpos + n]
    BY <2>1 DEF K!Unread
  <2>3. p_wpos - p_rpos \in Nat
    BY <1>0
  <2>4. QED BY <1>0, <2>2, <2>3
<1>2. /\ K!Pending \in Seq(Nat) /\ Len(K!Pending) = typed - p_wpos
      /\ \A n \in 1..(typed - p_wpos) : K!Pending[n] = p_wpos + n
  <2>1. ((cons.wpos - cons.rpos) % CONSBUFSIZE) = typed - p_wpos
    <3>1. ((typed % CONSBUFSIZE) - (p_wpos % CONSBUFSIZE)) % CONSBUFSIZE = typed - p_wpos
      BY <1>0, ModDiff
    <3>2. QED BY <1>0, <3>1
  <2>2. ASSUME NEW n \in 1..(typed - p_wpos)
        PROVE  cons.buf[(cons.rpos + n - 1) % CONSBUFSIZE] = p_wpos + n
    <3>1. n - 1 \in Nat /\ p_wpos + (n - 1) \in p_wpos..(typed - 1)
      BY <1>0
    <3>2. ((p_wpos % CONSBUFSIZE) + (n - 1)) % CONSBUFSIZE = (p_wpos + (n - 1)) % CONSBUFSIZE
      BY <1>0, <3>1, ModAdd
    <3>3. cons.rpos + n - 1 = (p_wpos % CONSBUFSIZE) + (n - 1)
      BY <1>0
    <3>4. cons.buf[(p_wpos + (n - 1)) % CONSBUFSIZE] = p_wpos + (n - 1) + 1
      BY <1>0, <3>1 DEF ConsHolds
    <3>5. QED BY <1>0, <3>2, <3>3, <3>4
  <2>3. K!Pending = [n \in 1..(typed - p_wpos) |-> p_wpos + n]
    BY <2>1, <2>2 DEF K!Pending
  <2>4. typed - p_wpos \in Nat
    BY <1>0
  <2>5. QED BY <1>0, <2>3, <2>4
<1> DEFINE u == K!Unread  v == K!Pending
<1> HIDE DEF u, v
<1>3. /\ u \o v \in Seq(Nat) /\ Len(u \o v) = Len(u) + Len(v)
      /\ \A n \in 1..(Len(u) + Len(v)) : (u \o v)[n] = IF n <= Len(u) THEN u[n] ELSE v[n - Len(u)]
  BY <1>1, <1>2, ConcatProperties DEF u, v
<1> DEFINE w == u \o v
<1>4. /\ Len(w) = typed - p_rpos /\ w \in Seq(Nat)
      /\ \A n \in 1..(typed - p_rpos) : w[n] = p_rpos + n
  <2>1. /\ Len(u) = p_wpos - p_rpos /\ Len(v) = typed - p_wpos
        /\ \A n \in 1..(p_wpos - p_rpos) : u[n] = p_rpos + n
        /\ \A n \in 1..(typed - p_wpos) : v[n] = p_wpos + n
    BY <1>1, <1>2 DEF u, v
  <2>2. Len(w) = typed - p_rpos /\ w \in Seq(Nat)
    BY <1>0, <1>3, <2>1
  <2>3. ASSUME NEW n \in 1..(typed - p_rpos) PROVE w[n] = p_rpos + n
    <3>1. w[n] = IF n <= Len(u) THEN u[n] ELSE v[n - Len(u)]
      <4>1. n \in 1..(Len(u) + Len(v))
        BY <1>0, <2>1
      <4>2. QED BY <1>3, <4>1
    <3>2. CASE n <= Len(u)
      BY <1>0, <2>1, <3>1, <3>2
    <3>3. CASE n > Len(u)
      <4>1. n - (p_wpos - p_rpos) \in 1..(typed - p_wpos)
        BY <1>0, <2>1, <3>3
      <4>2. w[n] = v[n - (p_wpos - p_rpos)]
        BY <1>0, <2>1, <3>1, <3>3
      <4>3. QED BY <1>0, <2>1, <4>1, <4>2
    <3>4. QED BY <1>0, <2>1, <3>2, <3>3
  <2>4. QED BY <2>2, <2>3
<1> HIDE DEF w
<1>5. w = [n \in 1..(typed - p_rpos) |-> p_rpos + n]
  <2>1. DOMAIN w = 1..(typed - p_rpos) /\ w = [n \in 1..Len(w) |-> w[n]]
    BY <1>4
  <2>2. QED BY <1>4, <2>1
<1>6. QED BY <1>5 DEF w, u, v

\* From the keys to the readers nothing is lost, doubled or exchanged, for any sizes of
\* the two rings and any number of readers, until a ring overruns; and no reader sleeps
\* beside characters.
THEOREM KeysInOrder == SyncSpec => []KeptInOrder
<1>1. KeyInv /\ [SyncNext]_syncVars => KeyInv'
  <2>1. KeyInv /\ Keyboard(K!Next) => KeyInv'
    BY KeyTick, KeyReads, KeyResumes, KeyKill DEF Keyboard, K!Next
  <2>2. Monitor(Next) \/ Semaphores(S!Next) \/ BikeLine(B!Next) \/ Milk7(F!Next) \/ Milk8(M!Next)
          => UNCHANGED keyboard
    BY DEF Monitor, Semaphores, BikeLine, Milk7, Milk8
  <2>3. UNCHANGED syncVars => UNCHANGED keyboard
    BY DEF syncVars
  <2>4. QED BY <2>1, <2>2, <2>3, KeyStutter DEF SyncNext
<1>2. QED BY <1>1, KeyInit, KeyOrder, PTL DEF SyncSpec
================================================================================
