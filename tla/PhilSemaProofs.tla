--------------------------- MODULE PhilSemaProofs ---------------------------
(***************************************************************************)
(* Safety of the philosophers with semaphores, for any number of them and  *)
(* of rounds, and their refinement of the abstract table.                  *)
(*                                                                         *)
(* The argument: mutex is with one thread at most, a semaphore s[i] is     *)
(* raised once for each time that i is set EATING, and whoever could eat   *)
(* is about to be tested by the thread that has mutex.                     *)
(***************************************************************************)
EXTENDS PhilSema, Lemmas

\* The neighbours of a philosopher are other philosophers, and left and right
\* undo each other (LEFT and RIGHT of check_sync.c).
LEMMA Around ==
  \A i \in Phil :
    /\ Left(i) \in Phil /\ Right(i) \in Phil
    /\ Left(Right(i)) = i /\ Right(Left(i)) = i
    /\ Left(i) # i /\ Right(i) # i
<1>1. N \in Nat /\ N > 1 /\ Phil = 0..(N - 1)
  BY RingAssumption DEF Phil
<1>2. \A i \in Phil :
        /\ Right(i) = IF i = N - 1 THEN 0 ELSE i + 1
        /\ Left(i) = IF i = 0 THEN N - 1 ELSE i - 1
  BY <1>1, Neighbours DEF Left, Right
<1>3. QED BY <1>1, <1>2

\* who can stand in which queue; the queue of s[i] holds nobody, or i once
QueueInv ==
  \A i \in Phil :
    /\ Waits(mutex, i) => pc[i] \in {"take", "put"}
    /\ s[i].queue = <<>> \/ (s[i] = [value |-> 0, queue |-> <<i>>] /\ pc[i] = "eat")

\* the thread that has mutex
Active == {i \in Phil : pc[i] \in InTable /\ ~Waits(mutex, i)}
LockInv ==
  /\ \A i, j \in Active : i = j
  /\ mutex.value = 1 => Active = {}

\* what state_sema[i] is at each place
PhaseInv ==
  \A i \in Phil :
    /\ pc[i] \in {"think", "take", "testL", "testR", "leave", "done"} => state_sema[i] = "THINKING"
    /\ pc[i] = "hungry" => state_sema[i] = "HUNGRY"
    /\ pc[i] \in {"took", "forks"} => state_sema[i] # "THINKING"
    /\ pc[i] = "eat" => state_sema[i] = IF s[i].queue = <<>> THEN "EATING" ELSE "HUNGRY"
    /\ pc[i] = "put" => state_sema[i] = "EATING"
    /\ s[i].value = 1 <=> (state_sema[i] = "EATING" /\ pc[i] \in {"took", "forks"})

\* whoever could eat is about to be tested
Tested(i) ==
  \/ pc[i] = "hungry"
  \/ \E k \in Phil :
       \/ pc[k] = "testL" /\ i \in {Left(k), Right(k)}
       \/ pc[k] = "testR" /\ i = Right(k)
TestInv == \A i \in Phil : CanEat(i) => Tested(i)

IInv == TypeOK /\ QueueInv /\ LockInv /\ PhaseInv /\ TestInv

-----------------------------------------------------------------------------
\* A thread is blocked at a semaphore by its place alone.
LEMMA BlockedAt ==
  ASSUME IInv, NEW i \in Phil
  PROVE  /\ pc[i] \notin {"take", "put", "eat"} => ~Blocked(i)
         /\ pc[i] = "eat" => (Blocked(i) <=> s[i].queue # <<>>)
         /\ pc[i] \in {"take", "put"} => (Blocked(i) <=> Waits(mutex, i))
         /\ Waits(s[i], i) <=> s[i].queue # <<>>
<1>1. Waits(s[i], i) <=> s[i].queue # <<>>
  <2>1. CASE s[i].queue = <<>>
    BY <2>1 DEF Waits
  <2>2. CASE s[i] = [value |-> 0, queue |-> <<i>>]
    <3>1. Len(s[i].queue) = 1 /\ s[i].queue[1] = i /\ s[i].queue # <<>>
      BY <2>2
    <3>2. QED BY <3>1 DEF Waits
  <2>3. QED BY <2>1, <2>2 DEF IInv, QueueInv
<1>2. QED BY <1>1 DEF IInv, QueueInv, Blocked

\* up() and down() of s[i], which holds nobody but i
LEMMA ForkSem ==
  ASSUME IInv, NEW i \in Phil
  PROVE  /\ s[i].value \in {0, 1}
         /\ s[i] = [value |-> s[i].value, queue |-> s[i].queue]
         /\ s[i].value = 0 => Up(s[i]) = IF s[i].queue = <<>> THEN [value |-> 1, queue |-> <<>>]
                                         ELSE [value |-> 0, queue |-> <<>>]
         /\ s[i].queue = <<>> =>
              Down(s[i], i) = IF s[i].value = 1 THEN [value |-> 0, queue |-> <<>>]
                              ELSE [value |-> 0, queue |-> <<i>>]
<1>1. s[i] \in [value : {0, 1}, queue : Seq(Phil)]
  BY DEF IInv, TypeOK, Binary
<1>2. CASE s[i].queue = <<>>
  BY <1>1, <1>2 DEF Up, Down
<1>3. CASE s[i] = [value |-> 0, queue |-> <<i>>]
  <2>1. Tail(<<i>>) = <<>> /\ <<i>> # <<>>
    OBVIOUS
  <2>2. QED BY <1>1, <1>3, <2>1 DEF Up
<1>4. QED BY <1>2, <1>3 DEF IInv, QueueInv

LEMMA InitIInv == Init => IInv
<1> SUFFICES ASSUME Init PROVE IInv
  OBVIOUS
<1>1. SemInit(0) \in Binary(Phil) /\ SemInit(1) \in Binary(Phil)
  BY DEF SemInit, Binary
<1>2. TypeOK
  BY <1>1, RingAssumption DEF Init, TypeOK, Phases, Places
<1>3. /\ \A i \in Phil : /\ s[i].value = 0 /\ s[i].queue = <<>> /\ pc[i] = "think"
                          /\ state_sema[i] = "THINKING"
      /\ mutex.queue = <<>>
  BY DEF Init, SemInit
<1>4. QueueInv /\ LockInv
  <2>1. \A p : ~Waits(mutex, p)
    BY <1>3 DEF Waits
  <2>2. Active = {}
    BY <1>3 DEF Active, InTable
  <2>3. QED BY <1>3, <2>1, <2>2 DEF QueueInv, LockInv
<1>5. PhaseInv
  BY <1>3 DEF PhaseInv
<1>6. TestInv
  BY <1>3 DEF TestInv, CanEat
<1>7. QED BY <1>2, <1>4, <1>5, <1>6 DEF IInv

\* a step of i takes i to another place, and only i
LEMMA Step ==
  ASSUME IInv, NEW i \in Phil, Phi(i)
  PROVE  /\ ~Blocked(i) /\ pc' \in [Phil -> Places] /\ iter' \in [Phil -> 1..TIMES]
         /\ \A j \in Phil : j # i => pc'[j] = pc[j]
<1>1. TypeOK
  BY DEF IInv
<1>2. \A a, b : Moves(i, a, b) /\ b \in Places =>
         /\ ~Blocked(i) /\ pc' \in [Phil -> Places]
         /\ \A j \in Phil : j # i => pc'[j] = pc[j]
  BY <1>1 DEF TypeOK, Moves
<1>3. \E a, b : Moves(i, a, b) /\ b \in Places
  BY DEF Phi, Enters, GetsHungry, TestsItself, TakeLeaves, GetsForks, StopsEating, TestsLeft,
     TestsRight, PutLeaves, Places
<1>4. iter' \in [Phil -> 1..TIMES]
  <2>1. CASE PutLeaves(i)
    <3>1. iter[i] \in 1..TIMES /\ TIMES \in Nat
      BY <1>1, RingAssumption DEF TypeOK
    <3>2. (IF iter[i] < TIMES THEN iter[i] + 1 ELSE iter[i]) \in 1..TIMES
      BY <3>1
    <3>3. iter' = [iter EXCEPT ![i] = IF iter[i] < TIMES THEN iter[i] + 1 ELSE iter[i]]
      BY <2>1 DEF PutLeaves
    <3>4. QED BY <1>1, <3>2, <3>3 DEF TypeOK
  <2>2. CASE ~PutLeaves(i)
    BY <1>1, <2>2 DEF TypeOK, Phi, Enters, GetsHungry, TestsItself, TakeLeaves, GetsForks,
       StopsEating, TestsLeft, TestsRight
  <2>3. QED BY <2>1, <2>2
<1>5. QED BY <1>2, <1>3, <1>4

\* who works on the table has mutex
LEMMA Runner ==
  ASSUME IInv, NEW i \in Phil, pc[i] \in InTable, ~Blocked(i)
  PROVE  i \in Active /\ mutex.value = 0 /\ \A j \in Active : j = i
<1>1. i \in Active
  BY DEF Active, Blocked
<1>2. mutex.value \in {0, 1}
  BY DEF IInv, TypeOK, Binary
<1>3. QED BY <1>1, <1>2 DEF IInv, LockInv

\* mutex, which only the steps into the table and out of it touch
LEMMA LockStep ==
  ASSUME IInv, NEW i \in Phil, Phi(i)
  PROVE  /\ LockInv' /\ mutex' \in Binary(Phil)
         /\ \A j \in Phil : Waits(mutex', j) => pc'[j] \in {"take", "put"}
<1>1. /\ mutex \in Binary(Phil) /\ pc \in [Phil -> Places]
      /\ \A j \in Phil : Waits(mutex, j) => pc[j] \in {"take", "put"}
  BY DEF IInv, TypeOK, QueueInv
<1>2. /\ ~Blocked(i) /\ pc' \in [Phil -> Places] /\ \A j \in Phil : j # i => pc'[j] = pc[j]
  BY Step
<1>3. ~Waits(mutex, i)
  BY <1>2 DEF Blocked
<1>4. CASE Enters(i)
  <2>1. /\ pc[i] \in {"think", "eat"} /\ pc'[i] \in {"take", "put"} /\ mutex' = Down(mutex, i)
    BY <1>1, <1>4 DEF Enters, Moves
  <2>2. /\ Down(mutex, i) \in Binary(Phil) /\ Down(mutex, i).value = 0 /\ mutex.value \in {0, 1}
        /\ mutex.value = 1 => \A q : Waits(Down(mutex, i), q) <=> Waits(mutex, q)
        /\ mutex.value = 0 => \A q : Waits(Down(mutex, i), q) <=> Waits(mutex, q) \/ q = i
    BY <1>1, DownFacts
  <2>3. i \notin Active
    BY <2>1 DEF Active, InTable
  <2>4. \A j \in Phil : Waits(mutex', j) => pc'[j] \in {"take", "put"}
    BY <1>1, <1>2, <2>1, <2>2
  <2>5. CASE mutex.value = 1
    <3>1. Active = {}
      BY <2>5 DEF IInv, LockInv
    <3>2. \A j \in Phil : j \in Active' => j = i
      BY <1>2, <2>1, <2>2, <2>5, <3>1 DEF Active
    <3>3. QED BY <2>1, <2>2, <2>4, <3>2 DEF LockInv, Active
  <2>6. CASE mutex.value = 0
    <3>1. \A j \in Phil : j \in Active' => j \in Active
      BY <1>2, <2>1, <2>2, <2>6 DEF Active
    <3>2. QED BY <2>1, <2>2, <2>4, <3>1 DEF IInv, LockInv, Active
  <2>7. QED BY <2>2, <2>5, <2>6
<1>5. CASE TakeLeaves(i) \/ PutLeaves(i)
  <2>1. pc[i] \in {"took", "leave"} /\ pc'[i] \in {"forks", "think", "done"} /\ mutex' = Up(mutex)
    BY <1>1, <1>5 DEF TakeLeaves, PutLeaves, Moves
  <2>2. i \in Active /\ mutex.value = 0 /\ \A j \in Active : j = i
    BY <1>2, <2>1, Runner DEF InTable
  <2>3. /\ Up(mutex) \in Binary(Phil)
        /\ \A p : Waits(Up(mutex), p) => Waits(mutex, p)
        /\ Up(mutex).value = 1 => \A p : ~Waits(mutex, p)
        /\ Up(mutex).value = 0 =>
             \A p, q : Waits(mutex, p) /\ ~Waits(Up(mutex), p)
                         /\ Waits(mutex, q) /\ ~Waits(Up(mutex), q) => p = q
    BY <1>1, <2>2, UpFacts
  <2>4. \A j \in Phil : Waits(mutex', j) => pc'[j] \in {"take", "put"}
    BY <1>1, <1>2, <1>3, <2>1, <2>3
  <2>5. \A j \in Active' : j # i /\ Waits(mutex, j) /\ ~Waits(Up(mutex), j)
    BY <1>2, <2>1, <2>2 DEF Active, InTable
  <2>6. Up(mutex).value \in {0, 1}
    BY <2>3 DEF Binary
  <2>7. LockInv'
    BY <2>1, <2>3, <2>5, <2>6 DEF LockInv
  <2>8. QED BY <2>1, <2>3, <2>4, <2>7
<1>6. CASE ~(Enters(i) \/ TakeLeaves(i) \/ PutLeaves(i))
  <2>1. /\ mutex' = mutex
        /\ pc[i] \in InTable <=> pc'[i] \in InTable
        /\ pc[i] \notin {"take", "put"} \/ ~Waits(mutex, i)
    BY <1>1, <1>3, <1>6 DEF Phi, GetsHungry, TestsItself, GetsForks, StopsEating, TestsLeft,
       TestsRight, Moves, InTable
  <2>2. Active' = Active
    BY <1>2, <2>1 DEF Active
  <2>3. QED BY <1>1, <1>2, <1>3, <2>1, <2>2 DEF IInv, LockInv
<1>7. QED BY <1>4, <1>5, <1>6

\* what the invariant says of one philosopher
Fork(i) ==
  /\ s[i] \in Binary(Phil) /\ state_sema[i] \in Phases
  /\ s[i].queue = <<>> \/ (s[i] = [value |-> 0, queue |-> <<i>>] /\ pc[i] = "eat")
  /\ pc[i] \in {"think", "take", "testL", "testR", "leave", "done"} => state_sema[i] = "THINKING"
  /\ pc[i] = "hungry" => state_sema[i] = "HUNGRY"
  /\ pc[i] \in {"took", "forks"} => state_sema[i] # "THINKING"
  /\ pc[i] = "eat" => state_sema[i] = IF s[i].queue = <<>> THEN "EATING" ELSE "HUNGRY"
  /\ pc[i] = "put" => state_sema[i] = "EATING"
  /\ s[i].value = 1 <=> (state_sema[i] = "EATING" /\ pc[i] \in {"took", "forks"})

LEMMA ForkOf ==
  ASSUME IInv, NEW i \in Phil
  PROVE  Fork(i) /\ pc[i] \in Places
BY DEF IInv, TypeOK, QueueInv, PhaseInv, Fork

\* a semaphore as it can be at a place
LEMMA Binaries ==
  \A i \in Phil : /\ [value |-> 0, queue |-> <<>>] \in Binary(Phil)
                  /\ [value |-> 1, queue |-> <<>>] \in Binary(Phil)
                  /\ [value |-> 0, queue |-> <<i>>] \in Binary(Phil)
BY DEF Binary

\* phi_test_sema of j by i, which goes from a place to another one in the table
LEMMA TestFacts ==
  ASSUME IInv, NEW i \in Phil, NEW j \in Phil, ~Blocked(i), Test(j),
         \A k \in Phil : k # i => pc'[k] = pc[k],
         \/ pc[i] = "hungry" /\ pc'[i] = "took" /\ j = i
         \/ pc[i] = "testL" /\ pc'[i] = "testR" /\ j # i
         \/ pc[i] = "testR" /\ pc'[i] = "leave" /\ j # i
  PROVE  /\ \A k \in Phil : Fork(k)'
         /\ ~CanEat(j)' /\ \A k \in Phil : CanEat(k)' => CanEat(k)
         /\ s' \in [Phil -> Binary(Phil)] /\ state_sema' \in [Phil -> Phases]
<1>0. /\ s \in [Phil -> Binary(Phil)] /\ state_sema \in [Phil -> Phases]
      /\ \A k \in Phil : Left(k) \in Phil /\ Right(k) \in Phil
  BY Around DEF IInv, TypeOK
<1>1. CASE CanEat(j)
  <2>1. /\ state_sema' = [state_sema EXCEPT ![j] = "EATING"]
        /\ s' = [s EXCEPT ![j] = Up(s[j])] /\ state_sema[j] = "HUNGRY"
    BY <1>1 DEF Test, CanEat
  <2>2. j = i \/ pc[j] \in {"took", "forks", "eat"}
    <3>1. pc[i] \in InTable
      BY DEF InTable
    <3>2. pc[j] = "hungry" => j \in Active
      BY DEF Active, InTable, IInv, QueueInv
    <3>3. pc[j] = "hungry" => j = i
      BY <3>1, <3>2, Runner
    <3>4. pc[j] \in {"hungry", "took", "forks", "eat"}
      BY <2>1, ForkOf DEF Fork, Places
    <3>5. QED BY <3>3, <3>4
  <2>3. s[j].value = 0 /\ (s[j].queue # <<>> <=> pc[j] = "eat")
    BY <2>1, <2>2, ForkOf, ForkSem DEF Fork
  <2>4. Up(s[j]) = IF pc[j] = "eat" THEN [value |-> 0, queue |-> <<>>]
                   ELSE [value |-> 1, queue |-> <<>>]
    BY <2>3, ForkSem
  <2>5. Up(s[j]) \in Binary(Phil)
    BY <2>4, Binaries
  <2>6. s' \in [Phil -> Binary(Phil)] /\ state_sema' \in [Phil -> Phases]
    BY <1>0, <2>1, <2>5 DEF Phases
  <2>7. Fork(j)'
    <3>1. s'[j] = Up(s[j]) /\ state_sema'[j] = "EATING"
      BY <1>0, <2>1
    <3>2. pc'[j] = IF j = i THEN "took" ELSE pc[j]
      BY <2>2
    <3>3. s'[j] \in Binary(Phil) /\ state_sema'[j] \in Phases
      BY <2>6
    <3>4. QED BY <2>2, <2>4, <3>1, <3>2, <3>3 DEF Fork
  <2>8. \A k \in Phil : k # j => Fork(k)'
    <3> SUFFICES ASSUME NEW k \in Phil, k # j PROVE Fork(k)'
      OBVIOUS
    <3>1. s'[k] = s[k] /\ state_sema'[k] = state_sema[k] /\ Fork(k)
      BY <1>0, <2>1, ForkOf
    <3>2. CASE k = i
      BY <3>1, <3>2 DEF Fork
    <3>3. CASE k # i
      BY <3>1, <3>3 DEF Fork
    <3>4. QED BY <3>2, <3>3
  <2>9. ~CanEat(j)' /\ \A k \in Phil : CanEat(k)' => CanEat(k)
    BY <1>0, <2>1 DEF CanEat
  <2>10. QED BY <2>6, <2>7, <2>8, <2>9
<1>2. CASE ~CanEat(j)
  <2>1. UNCHANGED <<state_sema, s>>
    BY <1>2 DEF Test
  <2>2. \A k \in Phil : Fork(k)'
    <3> SUFFICES ASSUME NEW k \in Phil PROVE Fork(k)'
      OBVIOUS
    <3>1. CASE k = i
      BY <2>1, <3>1, ForkOf DEF Fork
    <3>2. CASE k # i
      BY <2>1, <3>2, ForkOf DEF Fork
    <3>3. QED BY <3>1, <3>2
  <2>3. QED BY <1>0, <1>2, <2>1, <2>2 DEF CanEat
<1>3. QED BY <1>1, <1>2

LEMMA ForkStep ==
  ASSUME IInv, NEW i \in Phil, Phi(i)
  PROVE  /\ \A k \in Phil : Fork(k)'
         /\ s' \in [Phil -> Binary(Phil)] /\ state_sema' \in [Phil -> Phases]
<1>0. /\ s \in [Phil -> Binary(Phil)] /\ state_sema \in [Phil -> Phases]
      /\ Left(i) \in Phil /\ Right(i) \in Phil /\ Left(i) # i /\ Right(i) # i
      /\ pc \in [Phil -> Places]
  BY Around DEF IInv, TypeOK
<1>1. ~Blocked(i) /\ pc' \in [Phil -> Places] /\ \A j \in Phil : j # i => pc'[j] = pc[j]
  BY Step
<1>2. CASE TestsItself(i) \/ TestsLeft(i) \/ TestsRight(i)
  BY <1>0, <1>1, <1>2, TestFacts DEF TestsItself, TestsLeft, TestsRight, Moves
<1>3. ASSUME /\ \A k \in Phil : k # i => s'[k] = s[k] /\ state_sema'[k] = state_sema[k]
      PROVE  \A k \in Phil : k # i => Fork(k)'
  BY <1>1, <1>3, ForkOf DEF Fork
<1>4. CASE Enters(i) \/ TakeLeaves(i) \/ PutLeaves(i)
  <2>1. UNCHANGED <<s, state_sema>>
    BY <1>4 DEF Enters, TakeLeaves, PutLeaves
  <2>2. \/ pc[i] = "think" /\ pc'[i] = "take"
        \/ pc[i] = "eat" /\ pc'[i] = "put" /\ s[i].queue = <<>>
        \/ pc[i] = "took" /\ pc'[i] = "forks"
        \/ pc[i] = "leave" /\ pc'[i] \in {"think", "done"}
    BY <1>0, <1>1, <1>4, BlockedAt DEF Enters, TakeLeaves, PutLeaves, Moves
  <2>3. Fork(i)'
    BY <2>1, <2>2, ForkOf DEF Fork
  <2>4. QED BY <1>0, <1>3, <2>1, <2>3
<1>5. CASE GetsHungry(i) \/ StopsEating(i)
  <2>1. /\ s' = s /\ \A k \in Phil : k # i => state_sema'[k] = state_sema[k]
        /\ state_sema' \in [Phil -> Phases]
    BY <1>0, <1>5 DEF GetsHungry, StopsEating, Phases
  <2>2. \/ pc[i] = "take" /\ pc'[i] = "hungry" /\ state_sema'[i] = "HUNGRY"
        \/ pc[i] = "put" /\ pc'[i] = "testL" /\ state_sema'[i] = "THINKING"
    BY <1>0, <1>5 DEF GetsHungry, StopsEating, Moves
  <2>3. Fork(i)'
    BY <2>1, <2>2, ForkOf DEF Fork
  <2>4. QED BY <1>0, <1>3, <2>1, <2>3
<1>6. CASE GetsForks(i)
  <2>1. /\ pc[i] = "forks" /\ pc'[i] = "eat" /\ s' = [s EXCEPT ![i] = Down(s[i], i)]
        /\ state_sema' = state_sema
    BY <1>0, <1>6 DEF GetsForks, Moves
  <2>2. s[i].queue = <<>> /\ (s[i].value = 1 <=> state_sema[i] = "EATING") /\ state_sema[i] # "THINKING"
    BY <2>1, ForkOf DEF Fork
  <2>3. Down(s[i], i) = IF s[i].value = 1 THEN [value |-> 0, queue |-> <<>>]
                        ELSE [value |-> 0, queue |-> <<i>>]
    BY <2>2, ForkSem
  <2>4. Down(s[i], i) \in Binary(Phil)
    BY <2>3, Binaries
  <2>5. s' \in [Phil -> Binary(Phil)] /\ s'[i] = Down(s[i], i) /\ \A k \in Phil : k # i => s'[k] = s[k]
    BY <1>0, <2>1, <2>4
  <2>6. Fork(i)'
    <3>1. <<i>> # <<>>
      OBVIOUS
    <3>2. state_sema'[i] \in Phases /\ state_sema[i] \in {"HUNGRY", "EATING"}
      BY <1>0, <2>1, <2>2 DEF Phases
    <3>3. CASE s[i].value = 1
      BY <2>1, <2>2, <2>3, <2>4, <2>5, <3>2, <3>3 DEF Fork
    <3>4. CASE s[i].value # 1
      BY <2>1, <2>2, <2>3, <2>4, <2>5, <3>1, <3>2, <3>4 DEF Fork
    <3>5. QED BY <3>3, <3>4
  <2>7. QED BY <1>0, <1>3, <2>1, <2>5, <2>6
<1>7. QED BY <1>2, <1>4, <1>5, <1>6 DEF Phi

LEMMA TestStep ==
  ASSUME IInv, NEW i \in Phil, Phi(i)
  PROVE  TestInv'
<1> SUFFICES ASSUME NEW m \in Phil, CanEat(m)' PROVE Tested(m)'
  BY DEF TestInv
<1>0. /\ state_sema \in [Phil -> Phases] /\ pc \in [Phil -> Places]
      /\ \A k \in Phil : /\ Left(k) \in Phil /\ Right(k) \in Phil
                         /\ Left(k) # k /\ Right(k) # k
                         /\ Left(Right(k)) = k /\ Right(Left(k)) = k
  BY Around DEF IInv, TypeOK
<1>1. ~Blocked(i) /\ pc' \in [Phil -> Places] /\ \A j \in Phil : j # i => pc'[j] = pc[j]
  BY Step
<1>2. CanEat(m) => Tested(m)
  BY DEF IInv, TestInv
<1>3. CASE Enters(i) \/ TakeLeaves(i) \/ PutLeaves(i) \/ GetsForks(i)
  <2>1. UNCHANGED state_sema /\ pc[i] \notin {"hungry", "testL", "testR"}
    BY <1>3 DEF Enters, TakeLeaves, PutLeaves, GetsForks, Moves
  <2>2. CanEat(m)
    BY <2>1 DEF CanEat
  <2>3. QED BY <1>1, <1>2, <2>1, <2>2 DEF Tested
<1>4. CASE GetsHungry(i)
  <2>1. /\ pc[i] = "take" /\ pc'[i] = "hungry"
        /\ state_sema' = [state_sema EXCEPT ![i] = "HUNGRY"] /\ state_sema[i] = "THINKING"
    BY <1>0, <1>4, ForkOf DEF GetsHungry, Moves, Fork
  <2>2. CASE m = i
    BY <2>1, <2>2 DEF Tested
  <2>3. CASE m # i
    <3>1. CanEat(m)
      BY <1>0, <2>1, <2>3 DEF CanEat
    <3>2. QED BY <1>1, <1>2, <2>1, <2>3, <3>1 DEF Tested
  <2>4. QED BY <2>2, <2>3
<1>5. CASE StopsEating(i)
  <2>1. /\ pc[i] = "put" /\ pc'[i] = "testL"
        /\ state_sema' = [state_sema EXCEPT ![i] = "THINKING"]
    BY <1>0, <1>5 DEF StopsEating, Moves
  <2>2. CASE m \in {Left(i), Right(i)}
    BY <2>1, <2>2 DEF Tested
  <2>3. CASE m \notin {Left(i), Right(i)}
    <3>1. i # Left(m) /\ i # Right(m)
      BY <1>0, <2>3
    <3>2. CanEat(m) /\ m # i
      BY <1>0, <2>1, <3>1 DEF CanEat
    <3>3. QED BY <1>1, <1>2, <2>1, <3>2 DEF Tested
  <2>4. QED BY <2>2, <2>3
<1>6. CASE TestsItself(i)
  <2>1. pc[i] = "hungry" /\ pc'[i] = "took" /\ Test(i)
    BY <1>0, <1>6 DEF TestsItself, Moves
  <2>2. ~CanEat(i)' /\ CanEat(m)
    BY <1>1, <2>1, TestFacts
  <2>3. m # i
    BY <2>2
  <2>4. QED BY <1>1, <1>2, <2>1, <2>2, <2>3 DEF Tested
<1>7. CASE TestsLeft(i)
  <2>1. pc[i] = "testL" /\ pc'[i] = "testR" /\ Test(Left(i))
    BY <1>0, <1>7 DEF TestsLeft, Moves
  <2>2. ~CanEat(Left(i))' /\ CanEat(m)
    BY <1>0, <1>1, <2>1, TestFacts
  <2>3. m # Left(i)
    BY <2>2
  <2>4. QED BY <1>1, <1>2, <2>1, <2>2, <2>3 DEF Tested
<1>8. CASE TestsRight(i)
  <2>1. pc[i] = "testR" /\ pc'[i] = "leave" /\ Test(Right(i))
    BY <1>0, <1>8 DEF TestsRight, Moves
  <2>2. ~CanEat(Right(i))' /\ CanEat(m)
    BY <1>0, <1>1, <2>1, TestFacts
  <2>3. m # Right(i)
    BY <2>2
  <2>4. QED BY <1>1, <1>2, <2>1, <2>2, <2>3 DEF Tested
<1>9. QED BY <1>3, <1>4, <1>5, <1>6, <1>7, <1>8 DEF Phi

-----------------------------------------------------------------------------
LEMMA Invariance == Spec => []IInv
<1>1. ASSUME IInv, NEW i \in Phil, Phi(i) PROVE IInv'
  <2>1. /\ TypeOK' /\ QueueInv' /\ PhaseInv'
    BY <1>1, Step, LockStep, ForkStep DEF TypeOK, QueueInv, PhaseInv, Fork
  <2>2. LockInv' /\ TestInv'
    BY <1>1, LockStep, TestStep
  <2>3. QED BY <2>1, <2>2 DEF IInv
<1>2. ASSUME IInv, UNCHANGED vars PROVE IInv'
  <2>1. TypeOK' /\ QueueInv' /\ LockInv' /\ PhaseInv'
    BY <1>2 DEF IInv, vars, TypeOK, QueueInv, LockInv, PhaseInv, Active
  <2>2. TestInv'
    BY <1>2 DEF IInv, vars, TestInv, CanEat, Tested
  <2>3. QED BY <2>1, <2>2 DEF IInv
<1>3. IInv /\ [Next]_vars => IInv'
  BY <1>1, <1>2 DEF Next, AllDone
<1>4. QED BY <1>3, InitIInv, PTL DEF Spec

\* One thread at a time works on state_sema, for the mutex of check_sync.c is handed
\* over to one waiter or given back, never both.
THEOREM MutualExclusion == Spec => [](TypeOK /\ OneInside)
<1>1. IInv => TypeOK /\ OneInside
  <2> SUFFICES ASSUME IInv PROVE OneInside
    BY DEF IInv
  <2>1. \A i \in Phil : pc[i] \in InTable /\ ~Blocked(i) => i \in Active
    BY DEF Active, Blocked
  <2>2. QED BY <2>1 DEF OneInside, IInv, LockInv
<1>2. QED BY <1>1, Invariance, PTL

\* The forks are handed over once: s[i] is up from the moment that i is set EATING,
\* by itself or by a neighbour, until i has passed it.
THEOREM HandedOverOnce == Spec => []ForksOnce
<1>1. IInv => ForksOnce
  <2> SUFFICES ASSUME IInv, NEW i \in Phil
               PROVE  /\ s[i].value = 1 <=> (state_sema[i] = "EATING" /\ pc[i] \in {"took", "forks"})
                      /\ pc[i] = "eat" => (state_sema[i] = "EATING" <=> ~Blocked(i))
    BY DEF ForksOnce
  <2>1. QED BY BlockedAt, ForkOf DEF Fork
<1>2. QED BY <1>1, Invariance, PTL

\* While nobody works on the table, whoever is hungry has a neighbour that eats: no
\* pair of forks lies idle that a philosopher waits for.
THEOREM NoIdleForks == Spec => []HungryBlocked
<1>1. IInv => HungryBlocked
  <2> SUFFICES ASSUME IInv, mutex.value = 1, NEW i \in Phil, CanEat(i)
               PROVE  FALSE
    BY DEF HungryBlocked
  <2>1. PICK k \in Phil : pc[k] \in {"hungry", "testL", "testR"}
    BY DEF IInv, TestInv, Tested
  <2>2. k \in Active
    BY <2>1 DEF Active, InTable, IInv, QueueInv
  <2>3. QED BY <2>2 DEF IInv, LockInv
<1>2. QED BY <1>1, Invariance, PTL

\* The program with semaphores is a dining table: nobody starts to eat beside a
\* neighbour who eats.
THEOREM TableRefinement == Spec => Implements
<1>1. Init => Table!Init
  BY DEF Init, Table!Init, Phil, Table!Phil
<1>2. ASSUME IInv, NEW i \in Phil, Phi(i)
      PROVE  [Table!Next]_state_sema
  <2> USE DEF Phil, Table!Phil, Left, Right, Table!Left, Table!Right
  <2>1. ASSUME NEW j \in Phil, Test(j)
        PROVE  [Table!Next]_state_sema
    <3>1. CASE CanEat(j)
      <4>1. Table!Eat(j)
        BY <2>1, <3>1 DEF Test, CanEat, Table!Eat
      <4>2. QED BY <4>1 DEF Table!Next
    <3>2. CASE ~CanEat(j)
      BY <2>1, <3>2 DEF Test
    <3>3. QED BY <3>1, <3>2
  <2>2. CASE GetsHungry(i)
    <3>1. Table!Hungry(i)
      BY <1>2, <2>2 DEF IInv, PhaseInv, GetsHungry, Moves, Table!Hungry
    <3>2. QED BY <3>1 DEF Table!Next
  <2>3. CASE StopsEating(i)
    <3>1. Table!Think(i)
      BY <1>2, <2>3 DEF IInv, PhaseInv, StopsEating, Moves, Table!Think
    <3>2. QED BY <3>1 DEF Table!Next
  <2>4. CASE TestsItself(i) \/ TestsLeft(i) \/ TestsRight(i)
    <3>1. Left(i) \in Phil /\ Right(i) \in Phil
      BY Around
    <3>2. QED BY <2>1, <2>4, <3>1 DEF TestsItself, TestsLeft, TestsRight
  <2>5. CASE Enters(i) \/ TakeLeaves(i) \/ GetsForks(i) \/ PutLeaves(i)
    BY <2>5 DEF Enters, TakeLeaves, GetsForks, PutLeaves
  <2>6. QED BY <1>2, <2>2, <2>3, <2>4, <2>5 DEF Phi
<1>3. IInv /\ [Next]_vars => [Table!Next]_state_sema
  BY <1>2 DEF Next, AllDone, vars
<1>4. QED BY <1>1, <1>3, Invariance, PTL DEF Spec, Implements, Table!Spec
=============================================================================
