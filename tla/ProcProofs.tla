----------------------------- MODULE ProcProofs -----------------------------
(***************************************************************************)
(* Safety of Proc for every set of processes and every limit.              *)
(*                                                                         *)
(* IInv is the inductive invariant: the checked properties lean on each    *)
(* other (a wakeup is correct only because wait_state tells the truth, the *)
(* queue is exact only because a wakeup is) and on Shape, which ties each  *)
(* place in the code to the state of the process that stands there.        *)
(***************************************************************************)
EXTENDS Proc, FiniteSetTheorems, TLAPS

InitPlaces == {"start", "check", "loop", "reaped", "again"}

\* the place of a process tells its state; only current is half way to sleep
Shape ==
  /\ state[idleproc] = "RUNNABLE"
  /\ parent[idleproc] = NULL
  /\ parent[initproc] = idleproc
  /\ target[initproc] = NULL
  /\ pc[initproc] \in InitPlaces \cup {"wait"}
  /\ state[current] = "RUNNABLE" \/ pc[current] = "armed"
  /\ \A p \in All :
       /\ pc[p] = "idle" <=> p = idleproc
       /\ pc[p] \in InitPlaces => p = initproc
       /\ state[p] = "UNINIT" <=> pc[p] = "none"
       /\ state[p] = "ZOMBIE" <=> pc[p] = "dead"
       /\ pc[p] = "armed" => p = current
       /\ parent[p] # p

IInv ==
  /\ TypeOK
  /\ Shape
  /\ RunQueueExact
  /\ WaitStateExact
  /\ TimerOwned
  /\ FamilyTree
  /\ ReschedOnlyCurrent
  /\ NoLostChildWakeup
  /\ CountExact
  /\ NoAssertFails

\* what schedule() may assume of the queue: all the others that are runnable
OthersQueued(st, rq) ==
  \A p \in All :
    rq[p] = IF st[p] = "RUNNABLE" /\ p # current /\ p # idleproc THEN 1 ELSE 0

USE DEF FamilyTree, All, States, Waits, Halts, Places, InitPlaces, procVars, cpuVars

-----------------------------------------------------------------------------
\* Wakeups keep the types, make exactly W runnable, and link each process they
\* make runnable, other than current, exactly once (wakeup_proc).
LEMMA WakeupLemma ==
  ASSUME IInv, NEW st \in [All -> States], NEW W \in SUBSET All,
         \A p \in W : st[p] \in {"SLEEPING", "RUNNABLE"},
         OthersQueued(st, runq)
  PROVE  /\ AwakeState(st, W) \in [All -> States]
         /\ AwakeWait(st, W) \in [All -> Waits]
         /\ AwakeQueue(st, W) \in [All -> Nat]
         /\ AwakeSlice(st, W) \in [All -> 0..MaxTimeSlice]
         /\ OthersQueued(AwakeState(st, W), AwakeQueue(st, W))
  BY ProcAssumption DEF IInv, TypeOK, OthersQueued, AwakeState, AwakeWait, AwakeQueue,
     AwakeSlice, Enqueue, Refill, Woken

\* schedule() keeps the queue exact, switches to a runnable process or idle,
\* and leaves no preemption request behind.
LEMMA ScheduleLemma ==
  ASSUME IInv, NEW st \in [All -> States], NEW rq \in [All -> Nat],
         NEW ts \in [All -> 0..MaxTimeSlice],
         st[idleproc] = "RUNNABLE", OthersQueued(st, rq),
         Schedule(st, rq, ts)
  PROVE  /\ current' \in All
         /\ st[current'] = "RUNNABLE"
         /\ runq' \in [All -> Nat]
         /\ time_slice' \in [All -> 0..MaxTimeSlice]
         /\ need_resched' \in [All -> BOOLEAN]
         /\ \A p \in All : ~need_resched'[p]
         /\ \A p \in All :
              runq'[p] = IF st[p] = "RUNNABLE" /\ p # current' /\ p # idleproc
                         THEN 1 ELSE 0
<1> DEFINE back == IF st[current] = "RUNNABLE" THEN {current} ELSE {}
           rq1  == Enqueue(rq, back)
<1>1. PICK next \in All :
        /\ IF Queued(rq1) = {} THEN next = idleproc ELSE next \in Queued(rq1)
        /\ current' = next
        /\ runq' = [rq1 EXCEPT ![next] = IF @ = 0 THEN 0 ELSE @ - 1]
        /\ time_slice' = Refill(ts, back)
        /\ need_resched' = ClearResched(next)
  BY DEF Schedule
<1>2. current \in All
  BY DEF IInv, TypeOK
<1>3. rq1 \in [All -> Nat]
  BY DEF Enqueue
<1>4. \A p \in All : rq1[p] = IF st[p] = "RUNNABLE" /\ p # idleproc THEN 1 ELSE 0
  BY <1>2 DEF Enqueue, OthersQueued
<1>5. st[next] = "RUNNABLE"
  BY <1>1, <1>4 DEF Queued
<1>6. \A p \in All :
        runq'[p] = IF st[p] = "RUNNABLE" /\ p # next /\ p # idleproc THEN 1 ELSE 0
  <2> HIDE DEF rq1
  <2>1. rq1[next] \in {0, 1}
    BY <1>4
  <2>2. (IF rq1[next] = 0 THEN 0 ELSE rq1[next] - 1) = 0
    BY <2>1
  <2>3. runq' = [rq1 EXCEPT ![next] = 0]
    BY <1>1, <2>2
  <2> QED
    BY <1>3, <1>4, <2>3
<1>7. runq' \in [All -> Nat]
  <2> HIDE DEF rq1
  <2> QED
    BY <1>1, <1>3
<1>8. time_slice' \in [All -> 0..MaxTimeSlice]
  BY <1>1, ProcAssumption DEF Refill
<1>9. need_resched' \in [All -> BOOLEAN] /\ \A p \in All : ~need_resched'[p]
  BY <1>1, <1>2 DEF ClearResched, IInv, TypeOK, ReschedOnlyCurrent
<1> QED
  BY <1>1, <1>5, <1>6, <1>7, <1>8, <1>9
\* The allocated structures are finitely many.
LEMMA AllocatedFinite == IsFiniteSet(Allocated)
<1>1. IsFiniteSet(All)
  <2>1. IsFiniteSet(Proc \cup {idleproc})
    BY ProcAssumption, FS_AddElement
  <2>2. IsFiniteSet((Proc \cup {idleproc}) \cup {initproc})
    BY <2>1, FS_AddElement
  <2> QED
    BY <2>2, (Proc \cup {idleproc}) \cup {initproc} = All
<1> QED
  BY <1>1, FS_Subset DEF Allocated

\* A step that allocates and frees nothing keeps the count.
LEMMA SameCount ==
  ASSUME IInv, nr_process' = nr_process,
         \A p \in All : state'[p] = "UNINIT" <=> state[p] = "UNINIT"
  PROVE  CountExact'
<1>1. Allocated' = Allocated
  BY DEF Allocated
<1> QED
  BY <1>1 DEF IInv, CountExact

-----------------------------------------------------------------------------
LEMMA InitInv == Init => IInv
<1> SUFFICES ASSUME Init PROVE IInv
  OBVIOUS
<1> USE ProcAssumption DEF Init
<1>1. TypeOK
  BY DEF TypeOK
<1>2. Shape
  BY DEF Shape
<1>3. RunQueueExact /\ WaitStateExact /\ TimerOwned
  BY DEF RunQueueExact, WaitStateExact, TimerOwned
<1>4. ReschedOnlyCurrent
  BY Zenon DEF ReschedOnlyCurrent
<1>5. ParentsAlive
  BY DEF ParentsAlive, Alive
<1>6. NoLostChildWakeup
  BY DEF NoLostChildWakeup
<1>7. CountExact
  <2>1. Allocated = {idleproc} \cup {initproc}
    BY DEF Allocated
  <2>2. IsFiniteSet({idleproc}) /\ Cardinality({idleproc}) = 1
    BY FS_Singleton
  <2>3. Cardinality({idleproc} \cup {initproc}) = Cardinality({idleproc}) + 1
    BY <2>2, FS_AddElement
  <2> QED
    BY <2>1, <2>2, <2>3 DEF CountExact
<1>21. Rooted /\ NoAssertFails
  BY DEF Rooted, NoAssertFails
<1> QED
  BY <1>1, <1>2, <1>3, <1>4, <1>5, <1>6, <1>7, <1>21 DEF IInv

\* A step that only moves current to another place of the same kind.
LEMMA MoveLemma ==
  ASSUME IInv, NEW place \in {"trap", "user", "check", "loop", "again", "reaped"},
         pc[current] \in Places \ {"armed", "dead", "none", "idle"},
         place \in {"trap", "user"} => current # initproc,
         place \notin {"trap", "user"} => current = initproc,
         wait_state[current] = "none", timer[current] = 0,
         Goto(current, place),
         UNCHANGED <<state, wait_state, exiting, parent, nr_process, current, runq,
                     need_resched, time_slice, timer, target>>,
         kthread' \in SUBSET All, halt' = halt
  PROVE  IInv'
<1> USE ProcAssumption DEF IInv, Goto
<1>1. TypeOK'
  BY DEF TypeOK
<1>2. Shape'
  BY DEF Shape, TypeOK
<1>3. (RunQueueExact /\ WaitStateExact /\ TimerOwned /\ ReschedOnlyCurrent)'
  BY DEF RunQueueExact, WaitStateExact, TimerOwned, ReschedOnlyCurrent, TypeOK
<1>4. (ParentsAlive /\ NoLostChildWakeup)'
  BY DEF ParentsAlive, Alive, NoLostChildWakeup, Candidates, Children
<1>20. CountExact'
  BY SameCount
<1>21. Rooted' /\ NoAssertFails'
  BY DEF Rooted, NoAssertFails
<1> QED
  BY <1>1, <1>2, <1>3, <1>4, <1>20, <1>21

\* A step that only calls schedule() from a place where the process is, or stays,
\* in a consistent state.
LEMMA SwitchLemma ==
  ASSUME IInv, NEW place \in {"resched", "again", "sleep", "idle"},
         pc[current] \in {"trap", "reaped", "armed", "idle"},
         place = "resched" => current \notin {initproc, idleproc} /\ pc[current] # "armed",
         place = "again" => current = initproc,
         place = "idle" <=> current = idleproc,
         place = "sleep" <=> pc[current] = "armed",
         Schedule(state, runq, time_slice),
         Goto(current, place),
         UNCHANGED <<state, wait_state, exiting, parent, nr_process, timer, target,
                     kthread, halt>>
  PROVE  IInv'
<1> USE ProcAssumption
<1>1. /\ state \in [All -> States] /\ runq \in [All -> Nat]
      /\ time_slice \in [All -> 0..MaxTimeSlice] /\ state[idleproc] = "RUNNABLE"
      /\ current \in All /\ pc \in [All -> Places]
  BY DEF IInv, TypeOK, Shape
<1>2. OthersQueued(state, runq)
  BY DEF IInv, RunQueueExact, OthersQueued
<1>3. /\ current' \in All
      /\ state[current'] = "RUNNABLE"
      /\ runq' \in [All -> Nat]
      /\ time_slice' \in [All -> 0..MaxTimeSlice]
      /\ need_resched' \in [All -> BOOLEAN]
      /\ \A p \in All : ~need_resched'[p]
      /\ \A p \in All :
           runq'[p] = IF state[p] = "RUNNABLE" /\ p # current' /\ p # idleproc
                      THEN 1 ELSE 0
  BY <1>1, <1>2, ScheduleLemma
<1>4. pc' = [pc EXCEPT ![current] = place]
  BY DEF Goto
<1>5. TypeOK'
  BY <1>1, <1>3, <1>4 DEF IInv, TypeOK
<1>6. Shape'
  BY <1>1, <1>3, <1>4 DEF IInv, Shape
<1>7. RunQueueExact' /\ ReschedOnlyCurrent'
  BY <1>3 DEF RunQueueExact, ReschedOnlyCurrent
<1>8. WaitStateExact' /\ TimerOwned'
  <2> SUFFICES ASSUME NEW p \in All
               PROVE  /\ (wait_state[p] # "none" <=> state[p] = "SLEEPING")
                      /\ wait_state[p] = "CHILD" => pc'[p] = "wait"
                      /\ wait_state[p] = "TIMER" => pc'[p] \in {"armed", "sleep"}
                      /\ timer[p] > 0 => pc'[p] \in {"armed", "sleep"} /\ state[p] # "ZOMBIE"
                      /\ wait_state[p] = "TIMER" => timer[p] > 0
    BY DEF WaitStateExact, TimerOwned
  <2>1. CASE p # current
    BY <2>1, <1>1, <1>4 DEF IInv, WaitStateExact, TimerOwned
  <2>2. CASE p = current /\ place = "sleep"
    BY <2>2, <1>1, <1>4 DEF IInv, WaitStateExact, TimerOwned, Shape
  <2>3. CASE p = current /\ place # "sleep"
    <3>1. wait_state[p] = "none" /\ state[p] = "RUNNABLE" /\ pc[p] # "armed"
      BY <2>3, <1>1 DEF IInv, WaitStateExact, Shape
    <3>2. timer[p] \in Nat /\ ~(timer[p] > 0)
      BY <3>1, <2>3, <1>1 DEF IInv, TypeOK, TimerOwned
    <3> QED
      BY <3>1, <3>2, <2>3, <1>1, <1>4
  <2> QED
    BY <2>1, <2>2, <2>3
<1>9. ParentsAlive' /\ NoLostChildWakeup'
  BY DEF IInv, ParentsAlive, Alive, NoLostChildWakeup, Candidates, Children
<1>20. CountExact'
  BY SameCount
<1>21. Rooted' /\ NoAssertFails'
  BY DEF IInv, Rooted, NoAssertFails
<1> QED
  BY <1>5, <1>6, <1>7, <1>8, <1>9, <1>20, <1>21 DEF IInv

\* do_fork by current.
LEMMA ForkLemma ==
  ASSUME IInv, NEW c \in Proc, NEW place \in {"user", "main", "phil"},
         NEW back \in {"trap", "check"},
         pc[current] \in {"user", "start", "check"},
         back = "check" <=> current = initproc,
         ForkOK(current, c, place),
         pc' = [pc EXCEPT ![current] = back, ![c] = place],
         kthread' \in SUBSET All
  PROVE  IInv'
<1> USE ProcAssumption DEF ForkOK
<1>1. /\ current \in All /\ current # c /\ state[current] = "RUNNABLE"
      /\ current # idleproc /\ pc[c] = "none" /\ c # initproc
  BY DEF IInv, TypeOK, Shape
<1>2. TypeOK'
  <2>1. state' \in [All -> States] /\ parent' \in [All -> All \cup {NULL}]
        /\ pc' \in [All -> Places]
    BY <1>1 DEF IInv, TypeOK
  <2>2. runq' \in [All -> Nat]
    BY DEF IInv, TypeOK, Enqueue
  <2>3. [time_slice EXCEPT ![c] = 0] \in [All -> 0..MaxTimeSlice]
    BY DEF IInv, TypeOK
  <2>4. time_slice' \in [All -> 0..MaxTimeSlice]
    BY <2>3 DEF Refill
  <2>5. nr_process' \in Nat /\ halt' \in Halts
    BY DEF IInv, TypeOK
  <2>6. UNCHANGED <<wait_state, exiting, need_resched, current, timer, target>>
    OBVIOUS
  <2> HIDE DEF ForkOK
  <2> QED
    BY <2>1, <2>2, <2>4, <2>5, <2>6 DEF IInv, TypeOK
<1>3. Shape'
  BY <1>1 DEF IInv, TypeOK, Shape
<1>4. RunQueueExact'
  BY <1>1 DEF IInv, TypeOK, RunQueueExact, Enqueue
<1>5. WaitStateExact' /\ TimerOwned'
  BY <1>1 DEF IInv, TypeOK, WaitStateExact, TimerOwned
<1>6. ParentsAlive'
  BY <1>1 DEF IInv, TypeOK, ParentsAlive, Alive
<1>7. ReschedOnlyCurrent'
  BY DEF IInv, ReschedOnlyCurrent
<1>8. NoLostChildWakeup'
  <2>1. wait_state[current] = "none"
    BY <1>1 DEF IInv, WaitStateExact, TypeOK
  <2> SUFFICES ASSUME NEW p \in All, wait_state'[p] = "CHILD"
               PROVE  /\ Candidates(p, target[p])' # {}
                      /\ \A d \in Candidates(p, target[p])' : state'[d] # "ZOMBIE"
    BY DEF NoLostChildWakeup
  <2>2. p # current /\ wait_state[p] = "CHILD"
    BY <2>1
  <2>3. parent[c] = NULL
    BY <1>1 DEF IInv, ParentsAlive
  <2>5. \A d \in All : parent'[d] = p <=> parent[d] = p
    BY <2>2, <2>3, <1>1 DEF IInv, TypeOK
  <2>4. Candidates(p, target[p])' = Candidates(p, target[p])
    BY <2>5 DEF Candidates, Children
  <2> QED
    BY <2>2, <2>4, <1>1 DEF IInv, TypeOK, NoLostChildWakeup
<1>20. CountExact'
  <2>1. Allocated' = Allocated \cup {c} /\ c \notin Allocated
    BY <1>1 DEF Allocated, IInv, TypeOK
  <2> QED
    BY <2>1, AllocatedFinite, FS_AddElement DEF CountExact, IInv
<1>21. Rooted'
  <2> SUFFICES ASSUME NEW S \in SUBSET Proc, S # {}, \A p \in S : parent'[p] \in S
               PROVE  FALSE
    BY DEF Rooted
  <2>1. parent' = [parent EXCEPT ![c] = current]
    OBVIOUS
  <2>2. \A p \in S \ {c} : parent[p] \in S \ {c}
    <3>1. \A p \in All : parent[p] # c
      BY <1>1 DEF IInv, ParentsAlive, Alive, Shape
    <3> QED
      BY <3>1, <2>1 DEF IInv, TypeOK
  <2>3. S \ {c} # {}
    BY <2>1, <1>1 DEF IInv, TypeOK
  <2> QED
    BY <2>2, <2>3 DEF IInv, Rooted
<1>22. NoAssertFails'
  BY <1>1 DEF IInv, NoAssertFails, WaitStateExact
<1> QED
  BY <1>2, <1>3, <1>4, <1>5, <1>6, <1>7, <1>8, <1>20, <1>21, <1>22 DEF IInv

\* The hand-over to init: every process but p keeps or gains a live parent, and
\* only init gains children.
LEMMA HandOverLemma ==
  ASSUME IInv, NEW p \in Proc
  PROVE  /\ HandOver(p) \in [All -> All \cup {NULL}]
         /\ \A q \in All : HandOver(p)[q] # p
         /\ \A q \in All : parent[q] # p => HandOver(p)[q] = parent[q]
         /\ \A q \in All : parent[q] = p => HandOver(p)[q] = initproc
         /\ \A q \in All : parent[q] = p => q \notin {initproc, idleproc}
  BY ProcAssumption DEF HandOver, IInv, TypeOK, Shape

\* do_exit by current.
LEMMA ExitLemma ==
  ASSUME IInv, current \in Proc, state[current] = "RUNNABLE", timer[current] = 0,
         DoExit(current)
  PROVE  IInv'
<1> USE ProcAssumption
<1> DEFINE p == current
           st == [state EXCEPT ![p] = "ZOMBIE"]
           W  == ExitWakes(p)
<1>1. /\ state' = AwakeState(st, W)
      /\ wait_state' = AwakeWait(st, W)
      /\ AssertAwake(st, W)
      /\ parent' = HandOver(p)
      /\ Schedule(AwakeState(st, W), AwakeQueue(st, W), AwakeSlice(st, W))
      /\ pc' = [pc EXCEPT ![p] = "dead"]
      /\ UNCHANGED <<exiting, nr_process, timer, target, kthread>>
  BY DEF DoExit, Goto
<1>2. /\ p \in All /\ p # initproc /\ p # idleproc /\ pc \in [All -> Places]
      /\ state \in [All -> States] /\ st \in [All -> States]
      /\ wait_state \in [All -> Waits] /\ wait_state[p] = "none"
  BY DEF IInv, TypeOK, WaitStateExact
<1>3. /\ W \in SUBSET All /\ p \notin W
      /\ \A q \in W : st[q] = "SLEEPING" /\ pc[q] = "wait" /\ wait_state[q] = "CHILD"
  <2>1. parent[p] \in All
    BY <1>2 DEF IInv, ParentsAlive, Alive
  <2> QED
    BY <1>2, <2>1 DEF ExitWakes, IInv, WaitStateExact
<1>4. OthersQueued(st, runq)
  BY <1>2 DEF IInv, RunQueueExact, OthersQueued
<1>5. /\ AwakeState(st, W) \in [All -> States]
      /\ AwakeWait(st, W) \in [All -> Waits]
      /\ AwakeQueue(st, W) \in [All -> Nat]
      /\ AwakeSlice(st, W) \in [All -> 0..MaxTimeSlice]
      /\ OthersQueued(AwakeState(st, W), AwakeQueue(st, W))
  <2> HIDE DEF st, W
  <2> QED
    BY <1>2, <1>3, <1>4, WakeupLemma
<1>6. /\ \A q \in W : state'[q] = "RUNNABLE" /\ wait_state'[q] = "none"
      /\ \A q \in All \ W : state'[q] = st[q] /\ wait_state'[q] = wait_state[q]
  BY <1>1, <1>3 DEF AwakeState, AwakeWait, Woken
<1>7. /\ state'[p] = "ZOMBIE" /\ pc'[p] = "dead" /\ wait_state'[p] = "none"
      /\ \A q \in All \ {p} : pc'[q] = pc[q]
      /\ \A q \in All \ ({p} \cup W) : state'[q] = state[q]
  BY <1>1, <1>2, <1>3, <1>6
<1>8. state'[idleproc] = "RUNNABLE"
  BY <1>2, <1>6, <1>7 DEF IInv, Shape
<1>9. /\ current' \in All
      /\ state'[current'] = "RUNNABLE"
      /\ runq' \in [All -> Nat]
      /\ time_slice' \in [All -> 0..MaxTimeSlice]
      /\ need_resched' \in [All -> BOOLEAN]
      /\ \A q \in All : ~need_resched'[q]
      /\ \A q \in All :
           runq'[q] = IF state'[q] = "RUNNABLE" /\ q # current' /\ q # idleproc
                      THEN 1 ELSE 0
  <2> HIDE DEF st, W
  <2> QED
    BY <1>1, <1>5, <1>8, ScheduleLemma
<1> HIDE DEF st, W
<1>10. TypeOK'
  <2>1. halt' \in Halts
    BY <1>1 DEF AssertAwake, IInv, TypeOK
  <2>2. parent' \in [All -> All \cup {NULL}]
    BY <1>1, HandOverLemma
  <2>3. pc' \in [All -> Places]
    BY <1>1, <1>2
  <2> QED
    BY <1>1, <1>5, <1>9, <2>1, <2>2, <2>3 DEF IInv, TypeOK
<1>11. \A q \in All : /\ pc[q] = "armed" => q = p
                      /\ q \in W => pc[q] = "wait"
                      /\ q \in W => state[q] = "SLEEPING"
  BY <1>2, <1>3 DEF IInv, Shape, st
<1>12. Shape'
  <2>1. target'[initproc] = NULL /\ pc'[initproc] \in InitPlaces \cup {"wait"}
    BY <1>1, <1>2, <1>7 DEF IInv, Shape
  <2>2. parent'[idleproc] = NULL /\ parent'[initproc] = idleproc
    BY <1>1, <1>2, HandOverLemma DEF IInv, Shape
  <2>3. ASSUME NEW q \in All
        PROVE  /\ pc'[q] = "idle" <=> q = idleproc
               /\ pc'[q] \in InitPlaces => q = initproc
               /\ state'[q] = "UNINIT" <=> pc'[q] = "none"
               /\ state'[q] = "ZOMBIE" <=> pc'[q] = "dead"
               /\ pc'[q] = "armed" => q = current'
               /\ parent'[q] # q
    <3>1. parent'[q] # q
      BY <1>1, HandOverLemma DEF IInv, Shape
    <3>2. CASE q = p
      BY <3>1, <3>2, <1>2, <1>7
    <3>3. CASE q # p /\ q \in W
      BY <3>1, <3>3, <1>6, <1>7, <1>11 DEF IInv, Shape
    <3>4. CASE q # p /\ q \notin W
      BY <3>1, <3>4, <1>7, <1>11 DEF IInv, Shape
    <3> QED
      BY <3>2, <3>3, <3>4
  <2> QED
    BY <1>8, <1>9, <2>1, <2>2, <2>3 DEF Shape
<1>13. RunQueueExact' /\ ReschedOnlyCurrent'
  BY <1>9 DEF RunQueueExact, ReschedOnlyCurrent
<1>14. WaitStateExact'
  <2> SUFFICES ASSUME NEW q \in All
               PROVE  /\ (wait_state'[q] # "none" <=> state'[q] = "SLEEPING")
                      /\ wait_state'[q] = "CHILD" => pc'[q] = "wait"
                      /\ wait_state'[q] = "TIMER" => pc'[q] \in {"armed", "sleep"}
    BY DEF WaitStateExact
  <2>1. CASE q = p
    BY <2>1, <1>7
  <2>2. CASE q # p /\ q \in W
    BY <2>2, <1>6
  <2>3. CASE q # p /\ q \notin W
    BY <2>3, <1>6, <1>7 DEF IInv, WaitStateExact
  <2> QED
    BY <2>1, <2>2, <2>3
<1>15. TimerOwned'
  <2>1. timer'[p] = 0 /\ ~(timer'[p] > 0)
    BY <1>1
  <2>2. ASSUME NEW q \in All
        PROVE  /\ timer'[q] > 0 => pc'[q] \in {"armed", "sleep"} /\ state'[q] # "ZOMBIE"
               /\ wait_state'[q] = "TIMER" => timer'[q] > 0
    <3>1. CASE q = p
      BY <3>1, <2>1, <1>7
    <3>2. CASE q # p /\ q \in W
      BY <3>2, <1>1, <1>6, <1>7 DEF IInv, TimerOwned
    <3>3. CASE q # p /\ q \notin W
      BY <3>3, <1>1, <1>6, <1>7 DEF IInv, TimerOwned
    <3> QED
      BY <3>1, <3>2, <3>3
  <2> QED
    BY <2>2 DEF TimerOwned
<1>16. ParentsAlive'
  <2> SUFFICES ASSUME NEW q \in All, q # idleproc
               PROVE  IF state'[q] = "UNINIT" THEN parent'[q] = NULL
                      ELSE parent'[q] \in Alive' /\ (q # initproc => parent'[q] # idleproc)
    BY DEF ParentsAlive
  <2>1. initproc \in Alive' /\ \A r \in Alive : r # p => r \in Alive'
    <3>1. \A r \in All : state[r] \in {"SLEEPING", "RUNNABLE"} /\ r # p
                           => state'[r] \in {"SLEEPING", "RUNNABLE"}
      BY <1>6, <1>7
    <3>2. state[initproc] \in {"SLEEPING", "RUNNABLE"}
      BY DEF IInv, Shape, TypeOK
    <3> QED
      BY <1>2, <3>1, <3>2 DEF Alive
  <2>2. state'[q] = "UNINIT" <=> state[q] = "UNINIT"
    BY <1>2, <1>6, <1>7, <1>11
  <2>3. CASE parent[q] = p
    <3>1. parent'[q] = initproc /\ state[q] # "UNINIT"
      BY <2>3, <1>1, <1>2, HandOverLemma DEF IInv, ParentsAlive
    <3> QED
      BY <3>1, <2>1, <2>2
  <2>4. CASE parent[q] # p
    BY <2>4, <2>1, <2>2, <1>1, HandOverLemma DEF IInv, ParentsAlive
  <2> QED
    BY <2>3, <2>4
<1>17. NoLostChildWakeup'
  <2> SUFFICES ASSUME NEW q \in All, wait_state'[q] = "CHILD"
               PROVE  /\ Candidates(q, target[q])' # {}
                      /\ \A c \in Candidates(q, target[q])' : state'[c] # "ZOMBIE"
    BY DEF NoLostChildWakeup
  <2>1. q # p /\ q \notin W /\ wait_state[q] = "CHILD"
    BY <1>6, <1>7
  <2>2. q # parent[p]
    BY <2>1, <1>2 DEF ExitWakes, W
  <2>3. \A c \in All : c # p /\ state[c] # "ZOMBIE" => state'[c] # "ZOMBIE"
    BY <1>6, <1>7
  <2>4. CASE q # initproc
    <3>1. \A c \in All : parent'[c] = q <=> parent[c] = q
      BY <2>1, <2>4, <1>1, HandOverLemma
    <3>2. Candidates(q, target[q])' = Candidates(q, target[q])
      BY <3>1, <1>1 DEF Candidates, Children
    <3>3. p \notin Candidates(q, target[q])
      BY <2>2 DEF Candidates, Children
    <3> QED
      BY <2>1, <2>3, <3>2, <3>3 DEF IInv, NoLostChildWakeup, Candidates, Children
  <2>5. CASE q = initproc
    <3>1. Candidates(q, target[q]) = Children(q) /\ Candidates(q, target[q])' = Children(q)'
      BY <2>5, <1>1 DEF Candidates, IInv, Shape
    <3>2. \A c \in All : parent'[c] = q <=> parent[c] \in {p, q}
      BY <2>1, <2>5, <1>1, <1>2, HandOverLemma
    <3>3. \A c \in All : parent[c] = p => state[c] # "ZOMBIE"
      BY <2>1, <2>5 DEF ExitWakes, W, Children
    <3>4. parent[p] # p /\ parent[p] # q
      BY <1>2, <2>2, <2>5 DEF IInv, Shape
    <3> QED
      BY <2>1, <2>3, <3>1, <3>2, <3>3, <3>4 DEF IInv, NoLostChildWakeup, Children
  <2> QED
    BY <2>4, <2>5
<1>20. CountExact'
  BY <1>1, <1>2, <1>6, <1>7, <1>11, SameCount
<1>21. Rooted'
  <2> SUFFICES ASSUME NEW S \in SUBSET Proc, S # {}, \A q \in S : parent'[q] \in S
               PROVE  FALSE
    BY DEF Rooted
  <2>1. \A q \in S : parent[q] \in S
    BY <1>1, HandOverLemma
  <2> QED
    BY <2>1 DEF IInv, Rooted
<1>22. NoAssertFails'
  BY <1>1, <1>3 DEF AssertAwake, IInv, NoAssertFails
<1> QED
  BY <1>10, <1>12, <1>13, <1>14, <1>15, <1>16, <1>17, <1>20, <1>21, <1>22 DEF IInv

\* do_wait finds a zombie child and frees it.
LEMMA ReapLemma ==
  ASSUME IInv, NEW z \in Children(current), state[z] = "ZOMBIE",
         pc[current] \in {"user", "wait", "loop"}, state[current] = "RUNNABLE",
         timer[current] = 0,
         current = initproc \/ pc[current] # "loop",
         current # initproc \/ pc[current] # "user",
         Reap(current, z)
  PROVE  IInv'
<1> USE ProcAssumption DEF Reap
<1>1. /\ current \in All /\ z \in All /\ z # current /\ parent[z] = current
      /\ z # initproc /\ z # idleproc /\ pc[z] = "dead" /\ current # idleproc
      /\ wait_state[z] = "none" /\ wait_state[current] = "none"
      /\ pc \in [All -> Places] /\ state \in [All -> States]
      /\ parent \in [All -> All \cup {NULL}]
  BY DEF IInv, TypeOK, Shape, Children, WaitStateExact
<1>2. TypeOK'
  <2>1. /\ state' \in [All -> States] /\ parent' \in [All -> All \cup {NULL}]
        /\ pc' \in [All -> Places] /\ target' \in [All -> All \cup {NULL}]
        /\ kthread' \in SUBSET All
    BY <1>1 DEF IInv, TypeOK
  <2>2. exiting' \in [All -> BOOLEAN] /\ time_slice' \in [All -> 0..MaxTimeSlice]
    BY <1>1 DEF IInv, TypeOK
  <2>3. nr_process' \in Nat
    <3>1. Cardinality(Allocated \ {z}) = nr_process - 1
      BY <1>1, AllocatedFinite, FS_RemoveElement DEF CountExact, IInv, Allocated
    <3>2. Cardinality(Allocated \ {z}) \in Nat
      BY AllocatedFinite, FS_RemoveElement, FS_CardinalityType
    <3> QED
      BY <3>1, <3>2
  <2> QED
    BY <2>1, <2>2, <2>3 DEF IInv, TypeOK
<1>3. Shape'
  BY <1>1 DEF IInv, TypeOK, Shape
<1>4. RunQueueExact' /\ ReschedOnlyCurrent'
  BY <1>1 DEF IInv, TypeOK, RunQueueExact, ReschedOnlyCurrent
<1>5. WaitStateExact' /\ TimerOwned'
  BY <1>1 DEF IInv, TypeOK, WaitStateExact, TimerOwned
<1>6. ParentsAlive'
  BY <1>1 DEF IInv, TypeOK, ParentsAlive, Alive
<1>7. NoLostChildWakeup'
  <2> SUFFICES ASSUME NEW q \in All, wait_state'[q] = "CHILD"
               PROVE  /\ Candidates(q, target[q])' # {}
                      /\ \A c \in Candidates(q, target[q])' : state'[c] # "ZOMBIE"
    BY DEF NoLostChildWakeup
  <2>1. q # current /\ q # z /\ wait_state[q] = "CHILD" /\ q # NULL
    BY <1>1
  <2>2. \A c \in All : parent'[c] = q <=> parent[c] = q
    BY <1>1, <2>1
  <2>3. target'[q] = target[q]
    BY <2>1 DEF IInv, TypeOK
  <2>4. \A c \in All : state[c] # "ZOMBIE" => state'[c] # "ZOMBIE"
    BY <1>1
  <2>5. Candidates(q, target[q])' = Candidates(q, target[q])
    BY <2>2, <2>3 DEF Candidates, Children
  <2> HIDE DEF Reap
  <2> QED
    BY <2>1, <2>5, <2>4 DEF IInv, NoLostChildWakeup, Candidates, Children
<1>20. CountExact'
  <2>1. Allocated' = Allocated \ {z} /\ z \in Allocated
    BY <1>1 DEF Allocated, IInv, TypeOK
  <2> QED
    BY <2>1, AllocatedFinite, FS_RemoveElement DEF CountExact, IInv
<1>21. Rooted'
  <2> SUFFICES ASSUME NEW S \in SUBSET Proc, S # {}, \A p \in S : parent'[p] \in S
               PROVE  FALSE
    BY DEF Rooted
  <2>1. parent' = [parent EXCEPT ![z] = NULL]
    OBVIOUS
  <2>2. \A p \in S : parent[p] \in S
    BY <2>1, <1>1
  <2> QED
    BY <2>2 DEF IInv, Rooted
<1>22. NoAssertFails'
  BY DEF IInv, NoAssertFails
<1> QED
  BY <1>2, <1>3, <1>4, <1>5, <1>6, <1>7, <1>20, <1>21, <1>22 DEF IInv

\* do_wait finds children but no zombie: the sleep.
LEMMA WaitSleepLemma ==
  ASSUME IInv, NEW t \in All \cup {NULL}, current = initproc => t = NULL,
         pc[current] \in {"user", "wait", "loop"}, state[current] = "RUNNABLE",
         timer[current] = 0,
         Candidates(current, t) # {},
         \A z \in Candidates(current, t) : state[z] # "ZOMBIE",
         state' = [state EXCEPT ![current] = "SLEEPING"],
         wait_state' = [wait_state EXCEPT ![current] = "CHILD"],
         Schedule([state EXCEPT ![current] = "SLEEPING"], runq, time_slice),
         Goto(current, "wait"),
         target' = [target EXCEPT ![current] = t],
         UNCHANGED <<exiting, parent, nr_process, timer, kthread, halt>>
  PROVE  IInv'
<1> USE ProcAssumption
<1>1. /\ current \in All /\ current # idleproc /\ pc \in [All -> Places]
      /\ state \in [All -> States] /\ state' \in [All -> States]
      /\ wait_state \in [All -> Waits] /\ target \in [All -> All \cup {NULL}]
      /\ runq \in [All -> Nat] /\ time_slice \in [All -> 0..MaxTimeSlice]
      /\ pc' = [pc EXCEPT ![current] = "wait"]
  BY DEF IInv, TypeOK, Shape, Goto
<1>2. OthersQueued(state', runq) /\ state'[idleproc] = "RUNNABLE"
  BY <1>1 DEF IInv, Shape, RunQueueExact, OthersQueued
<1>3. /\ current' \in All
      /\ state'[current'] = "RUNNABLE"
      /\ runq' \in [All -> Nat]
      /\ time_slice' \in [All -> 0..MaxTimeSlice]
      /\ need_resched' \in [All -> BOOLEAN]
      /\ \A q \in All : ~need_resched'[q]
      /\ \A q \in All :
           runq'[q] = IF state'[q] = "RUNNABLE" /\ q # current' /\ q # idleproc
                      THEN 1 ELSE 0
  BY <1>1, <1>2, ScheduleLemma
<1>4. TypeOK'
  BY <1>1, <1>3 DEF IInv, TypeOK
<1>5. Shape'
  BY <1>1, <1>3 DEF IInv, Shape
<1>6. RunQueueExact' /\ ReschedOnlyCurrent'
  BY <1>3 DEF RunQueueExact, ReschedOnlyCurrent
<1>7. WaitStateExact'
  BY <1>1 DEF IInv, WaitStateExact
<1>8. TimerOwned'
  <2>1. ~(timer[current] > 0)
    OBVIOUS
  <2> QED
    BY <1>1, <2>1 DEF IInv, TimerOwned
<1>9. ParentsAlive'
  BY <1>1 DEF IInv, ParentsAlive, Alive
<1>10. NoLostChildWakeup'
  <2> SUFFICES ASSUME NEW q \in All, wait_state'[q] = "CHILD"
               PROVE  /\ Candidates(q, target[q])' # {}
                      /\ \A c \in Candidates(q, target[q])' : state'[c] # "ZOMBIE"
    BY DEF NoLostChildWakeup
  <2>1. \A c \in All : state[c] # "ZOMBIE" => state'[c] # "ZOMBIE"
    BY <1>1
  <2>2. CASE q = current
    <3>0. target'[q] = t /\ parent' = parent
      BY <2>2, <1>1
    <3>1. Candidates(q, target[q])' = Candidates(current, t)
      BY <3>0, <2>2 DEF Candidates, Children
    <3> QED
      BY <3>1, <2>1 DEF Candidates, Children
  <2>3. CASE q # current
    <3>1. Candidates(q, target[q])' = Candidates(q, target[q])
      BY <2>3, <1>1 DEF Candidates, Children
    <3> QED
      BY <3>1, <2>1, <2>3, <1>1 DEF IInv, NoLostChildWakeup, Candidates, Children
  <2> QED
    BY <2>2, <2>3
<1>20. CountExact'
  BY <1>1, SameCount
<1>21. Rooted' /\ NoAssertFails'
  BY DEF IInv, Rooted, NoAssertFails
<1> QED
  BY <1>4, <1>5, <1>6, <1>7, <1>8, <1>9, <1>10, <1>20, <1>21 DEF IInv

\* do_sleep arms its timer.
LEMMA SleepArmsLemma ==
  ASSUME IInv, state[current] = "RUNNABLE", SleepArms(current)
  PROVE  IInv'
<1> USE ProcAssumption DEF SleepArms, Goto
<1>1. PICK time \in 1..MaxSleep : timer' = [timer EXCEPT ![current] = time]
  OBVIOUS
<1>2. /\ current \in All /\ current \in Proc /\ pc \in [All -> Places]
      /\ state \in [All -> States] /\ wait_state \in [All -> Waits]
      /\ timer \in [All -> 0..MaxSleep]
  BY DEF IInv, TypeOK, Shape
<1>3. timer' \in [All -> 0..MaxSleep] /\ timer'[current] > 0
  BY <1>1, <1>2
<1>4. TypeOK'
  BY <1>2, <1>3 DEF IInv, TypeOK
<1>5. Shape'
  BY <1>2 DEF IInv, Shape
<1>6. RunQueueExact' /\ ReschedOnlyCurrent'
  BY <1>2 DEF IInv, RunQueueExact, ReschedOnlyCurrent
<1>7. WaitStateExact' /\ TimerOwned'
  BY <1>1, <1>2, <1>3 DEF IInv, WaitStateExact, TimerOwned
<1>8. ParentsAlive'
  BY <1>2 DEF IInv, ParentsAlive, Alive
<1>9. NoLostChildWakeup'
  BY <1>2 DEF IInv, NoLostChildWakeup, Candidates, Children
<1>20. CountExact'
  BY <1>2, SameCount
<1>21. Rooted' /\ NoAssertFails'
  BY DEF IInv, Rooted, NoAssertFails
<1> QED
  BY <1>4, <1>5, <1>6, <1>7, <1>8, <1>9, <1>20, <1>21 DEF IInv

\* do_sleep deletes its timer.
LEMMA SleepResumesLemma ==
  ASSUME IInv, state[current] = "RUNNABLE", SleepResumes(current)
  PROVE  IInv'
<1> USE ProcAssumption DEF SleepResumes, Goto
<1>1. /\ current \in All /\ current \in Proc /\ pc \in [All -> Places]
      /\ state \in [All -> States] /\ wait_state[current] = "none"
      /\ timer \in [All -> 0..MaxSleep] /\ Return(current) \in {"phil", "trap"}
  BY DEF IInv, TypeOK, Shape, WaitStateExact, Return
<1>2. TypeOK'
  BY <1>1 DEF IInv, TypeOK
<1>3. Shape'
  BY <1>1 DEF IInv, Shape
<1>4. RunQueueExact' /\ ReschedOnlyCurrent'
  BY <1>1 DEF IInv, RunQueueExact, ReschedOnlyCurrent
<1>5. WaitStateExact' /\ TimerOwned'
  BY <1>1 DEF IInv, WaitStateExact, TimerOwned
<1>6. ParentsAlive' /\ NoLostChildWakeup'
  BY <1>1 DEF IInv, ParentsAlive, Alive, NoLostChildWakeup, Candidates, Children
<1>20. CountExact'
  BY SameCount
<1>21. Rooted' /\ NoAssertFails'
  BY DEF IInv, Rooted, NoAssertFails
<1> QED
  BY <1>2, <1>3, <1>4, <1>5, <1>6, <1>20, <1>21 DEF IInv

\* The wakeups of do_kill and of the tick, which do not switch.
LEMMA WakeStepLemma ==
  ASSUME IInv, NEW W \in SUBSET All,
         \A q \in W : state[q] \in {"SLEEPING", "RUNNABLE"},
         pc[current] \notin {"none", "dead", "idle"} \/ current = idleproc,
         state' = AwakeState(state, W),
         wait_state' = AwakeWait(state, W),
         runq' = AwakeQueue(state, W),
         AssertAwake(state, W),
         exiting' \in [All -> BOOLEAN],
         time_slice' \in [All -> 0..MaxTimeSlice],
         need_resched' \in [All -> BOOLEAN],
         \A q \in All \ {current} : need_resched'[q] = need_resched[q],
         pc' = pc \/ (pc[current] = "user" /\ pc' = [pc EXCEPT ![current] = "trap"]),
         timer' \in [All -> 0..MaxSleep],
         \A q \in All : timer'[q] > 0 => timer[q] > 0,
         \A q \in All \ W : timer[q] > 0 => timer'[q] > 0,
         UNCHANGED <<parent, nr_process, current, target, kthread>>
  PROVE  IInv'
<1> USE ProcAssumption
<1>1. /\ state \in [All -> States] /\ wait_state \in [All -> Waits]
      /\ pc \in [All -> Places] /\ current \in All /\ runq \in [All -> Nat]
      /\ OthersQueued(state, runq)
  BY DEF IInv, TypeOK, RunQueueExact, OthersQueued
<1>2. /\ state' \in [All -> States] /\ wait_state' \in [All -> Waits]
      /\ runq' \in [All -> Nat] /\ OthersQueued(state', runq')
  BY <1>1, WakeupLemma
<1>3. \A q \in All :
        /\ q \in W => state'[q] = "RUNNABLE" /\ wait_state'[q] = "none"
        /\ q \notin W => state'[q] = state[q] /\ wait_state'[q] = wait_state[q]
  <2>1. \A q \in All : state[q] = "RUNNABLE" => wait_state[q] = "none"
    BY <1>1 DEF IInv, WaitStateExact
  <2> QED
    BY <1>1, <2>1 DEF AwakeState, AwakeWait, Woken
<1>4. \A q \in All : pc'[q] = pc[q] \/ (q = current /\ pc[q] = "user" /\ pc'[q] = "trap")
  BY <1>1
<1>5. pc' \in [All -> Places] /\ halt' = halt
  BY <1>1 DEF AssertAwake
<1>6. TypeOK'
  BY <1>2, <1>5 DEF IInv, TypeOK
<1>7. Shape'
  <2>1. state'[idleproc] = "RUNNABLE" /\ (state'[current] = "RUNNABLE" \/ pc'[current] = "armed")
    BY <1>1, <1>3, <1>4 DEF IInv, Shape
  <2>2. pc'[initproc] \in InitPlaces \cup {"wait"}
    BY <1>4 DEF IInv, Shape
  <2>3. \A q \in All : (state'[q] = "UNINIT" <=> state[q] = "UNINIT")
                    /\ (state'[q] = "ZOMBIE" <=> state[q] = "ZOMBIE")
    BY <1>3
  <2> QED
    BY <1>4, <2>1, <2>2, <2>3 DEF IInv, Shape
<1>8. RunQueueExact'
  BY <1>2 DEF OthersQueued, RunQueueExact
<1>9. ReschedOnlyCurrent'
  BY <1>1 DEF IInv, ReschedOnlyCurrent
<1>10. WaitStateExact'
  BY <1>3, <1>4 DEF IInv, WaitStateExact
<1>11. TimerOwned'
  BY <1>3, <1>4 DEF IInv, TimerOwned
<1>12. ParentsAlive'
  <2>1. \A q \in All : (state'[q] = "UNINIT" <=> state[q] = "UNINIT")
                    /\ (state[q] \in {"SLEEPING", "RUNNABLE"}
                          => state'[q] \in {"SLEEPING", "RUNNABLE"})
    BY <1>3
  <2> QED
    BY <2>1 DEF IInv, ParentsAlive, Alive
<1>13. NoLostChildWakeup'
  <2>1. \A q \in All : Candidates(q, target[q])' = Candidates(q, target[q])
    BY DEF Candidates, Children
  <2>2. \A q \in All : state[q] # "ZOMBIE" => state'[q] # "ZOMBIE"
    BY <1>3
  <2>3. \A q \in All : wait_state'[q] = "CHILD" => wait_state[q] = "CHILD"
    BY <1>3
  <2> QED
    BY <2>1, <2>2, <2>3 DEF IInv, NoLostChildWakeup, Candidates, Children
<1>14. CountExact'
  BY <1>3, SameCount
<1>15. Rooted' /\ NoAssertFails'
  BY <1>5 DEF IInv, Rooted, NoAssertFails
<1> QED
  BY <1>6, <1>7, <1>8, <1>9, <1>10, <1>11, <1>12, <1>13, <1>14, <1>15 DEF IInv

\* The timer interrupt.
LEMMA TickLemma == IInv /\ Tick => IInv'
<1> SUFFICES ASSUME IInv, Tick PROVE IInv'
  OBVIOUS
<1> USE ProcAssumption
<1> DEFINE fired == {p \in All : timer[p] = 1}
           ts    == AwakeSlice(state, fired)
           left  == IF ts[current] > 0 THEN ts[current] - 1 ELSE 0
<1>1. /\ timer' = [p \in All |-> IF timer[p] > 0 THEN timer[p] - 1 ELSE 0]
      /\ state' = AwakeState(state, fired)
      /\ wait_state' = AwakeWait(state, fired)
      /\ runq' = AwakeQueue(state, fired)
      /\ AssertAwake(state, fired)
      /\ IF current = idleproc
         THEN /\ time_slice' = ts
              /\ need_resched' = [need_resched EXCEPT ![idleproc] = TRUE]
         ELSE /\ time_slice' = [ts EXCEPT ![current] = left]
              /\ need_resched' = [need_resched EXCEPT ![current] = @ \/ left = 0]
      /\ pc' = IF pc[current] = "user" THEN [pc EXCEPT ![current] = "trap"] ELSE pc
      /\ UNCHANGED <<exiting, parent, nr_process, current, target, kthread>>
  BY Zenon DEF Tick
<1>2. /\ current \in All /\ timer \in [All -> 0..MaxSleep] /\ pc \in [All -> Places]
      /\ need_resched \in [All -> BOOLEAN] /\ exiting \in [All -> BOOLEAN]
      /\ state \in [All -> States]
  BY DEF IInv, TypeOK
<1>3. \A q \in fired : state[q] \in {"SLEEPING", "RUNNABLE"}
  <2>1. \A q \in fired : timer[q] > 0
    OBVIOUS
  <2>2. \A q \in fired : state[q] # "UNINIT" /\ state[q] # "ZOMBIE"
    BY <2>1 DEF IInv, TimerOwned, Shape
  <2> QED
    BY <2>2, <1>2
<1>4. ts \in [All -> 0..MaxTimeSlice]
  <2> HIDE DEF fired
  <2> QED
    BY DEF IInv, TypeOK, AwakeSlice, Refill
<1>5. time_slice' \in [All -> 0..MaxTimeSlice]
  <2> HIDE DEF ts
  <2>1. left \in 0..MaxTimeSlice
    BY <1>2, <1>4
  <2> HIDE DEF left
  <2> QED
    BY <1>1, <1>4, <2>1
<1>6. /\ need_resched' \in [All -> BOOLEAN]
      /\ \A q \in All \ {current} : need_resched'[q] = need_resched[q]
  <2>1. PICK b \in BOOLEAN : need_resched' = [need_resched EXCEPT ![current] = b]
    <3> HIDE DEF fired, ts, left
    <3>1. CASE current = idleproc
      BY <3>1, <1>1, Zenon
    <3>2. CASE current # idleproc
      <4>1. need_resched' = [need_resched EXCEPT ![current] = need_resched[current] \/ left = 0]
        BY <3>2, <1>1, Zenon
      <4>2. (need_resched[current] \/ left = 0) \in BOOLEAN
        OBVIOUS
      <4> QED
        BY <4>1, <4>2, Zenon
    <3> QED
      BY <3>1, <3>2
  <2> QED
    BY <2>1, <1>2
<1>7. /\ timer' \in [All -> 0..MaxSleep]
      /\ \A q \in All : timer'[q] > 0 => timer[q] > 0
      /\ \A q \in All \ fired : timer[q] > 0 => timer'[q] > 0
  BY <1>1, <1>2
<1>8. pc[current] \notin {"none", "dead", "idle"} \/ current = idleproc
  BY <1>2 DEF IInv, Shape
<1> HIDE DEF fired, ts, left
<1>9. fired \in SUBSET All
  BY DEF fired
<1> QED
  BY <1>1, <1>2, <1>3, <1>5, <1>6, <1>7, <1>8, <1>9, WakeStepLemma

\* SYS_kill.
LEMMA KillLemma ==
  ASSUME IInv, state[current] = "RUNNABLE", Kill(current)
  PROVE  IInv'
<1> USE ProcAssumption
<1>1. PICK q \in Proc \cup {initproc} :
       IF state[q] # "UNINIT" /\ ~exiting[q]
       THEN LET W == {r \in {q} : wait_state[r] # "none"}
            IN  /\ exiting' = [exiting EXCEPT ![q] = TRUE]
                /\ state' = AwakeState(state, W)
                /\ wait_state' = AwakeWait(state, W)
                /\ runq' = AwakeQueue(state, W)
                /\ time_slice' = AwakeSlice(state, W)
                /\ AssertAwake(state, W)
                /\ UNCHANGED <<parent, nr_process, current, need_resched>>
       ELSE UNCHANGED <<procVars, cpuVars, halt>>
  BY Zenon DEF Kill
<1>2. /\ pc[current] = "user" /\ pc' = [pc EXCEPT ![current] = "trap"]
      /\ UNCHANGED <<timer, target, kthread>> /\ current \in Proc
  BY DEF Kill, Goto, IInv, Shape, TypeOK
<1>3. CASE state[q] # "UNINIT" /\ ~exiting[q]
  <2> DEFINE W == {r \in {q} : wait_state[r] # "none"}
  <2>1. /\ exiting' = [exiting EXCEPT ![q] = TRUE]
        /\ state' = AwakeState(state, W)
        /\ wait_state' = AwakeWait(state, W)
        /\ runq' = AwakeQueue(state, W)
        /\ time_slice' = AwakeSlice(state, W)
        /\ AssertAwake(state, W)
        /\ UNCHANGED <<parent, nr_process, current, need_resched>>
    BY <1>1, <1>3, Zenon
  <2>2. W \in SUBSET All /\ \A r \in W : state[r] = "SLEEPING"
    BY DEF IInv, WaitStateExact
  <2>3. \A r \in W : wait_state[r] # "none"
    OBVIOUS
  <2> HIDE DEF W
  <2>4. time_slice' \in [All -> 0..MaxTimeSlice]
    BY <2>1 DEF AwakeSlice, Refill, IInv, TypeOK
  <2>5. exiting' \in [All -> BOOLEAN] /\ need_resched' \in [All -> BOOLEAN]
    BY <2>1 DEF IInv, TypeOK
  <2>6. timer' \in [All -> 0..MaxSleep]
    BY <1>2 DEF IInv, TypeOK
  <2> QED
    BY <1>2, <2>1, <2>2, <2>4, <2>5, <2>6, WakeStepLemma
<1>4. CASE ~(state[q] # "UNINIT" /\ ~exiting[q])
  <2>1. UNCHANGED <<procVars, cpuVars, halt>>
    BY <1>1, <1>4, Zenon
  <2>2. wait_state[current] = "none" /\ timer[current] = 0 /\ kthread' \in SUBSET All
    BY <1>2 DEF IInv, WaitStateExact, TimerOwned, TypeOK
  <2>3. Goto(current, "trap")
    BY <1>2 DEF Goto
  <2> QED
    BY <1>2, <2>1, <2>2, <2>3, MoveLemma
<1> QED
  BY <1>3, <1>4

\* A panic leaves everything as it is.
LEMMA StopLemma ==
  ASSUME IInv, NEW why \in {"panic", "done"}, Stop(why)
  PROVE  IInv'
<1> USE DEF Stop
<1>1. TypeOK' /\ Shape' /\ NoAssertFails'
  BY DEF IInv, TypeOK, Shape, NoAssertFails
<1>2. RunQueueExact' /\ WaitStateExact' /\ TimerOwned' /\ ReschedOnlyCurrent'
  BY DEF IInv, RunQueueExact, WaitStateExact, TimerOwned, ReschedOnlyCurrent
<1>3. ParentsAlive' /\ Rooted' /\ NoLostChildWakeup'
  BY DEF IInv, ParentsAlive, Rooted, Alive, NoLostChildWakeup, Candidates, Children
<1>4. CountExact'
  BY SameCount
<1> QED
  BY <1>1, <1>2, <1>3, <1>4 DEF IInv

\* When init has no child left, nothing is left: its final assertions hold.
LEMMA FinishLemma ==
  ASSUME IInv, Children(initproc) = {}, InitFinishes
  PROVE  IInv'
<1> USE ProcAssumption
<1> DEFINE S == {p \in Proc : state[p] # "UNINIT"}
<1>1. \A p \in S : parent[p] \in S
  <2> TAKE p \in S
  <2>1. parent[p] \in Alive /\ parent[p] # idleproc
    BY DEF IInv, ParentsAlive
  <2>2. parent[p] # initproc
    BY DEF Children
  <2> QED
    BY <2>1, <2>2 DEF Alive
<1>2. \A p \in Proc : state[p] = "UNINIT"
  BY <1>1 DEF IInv, Rooted
<1>3. nr_process = 2
  <2>1. state[idleproc] # "UNINIT" /\ state[initproc] # "UNINIT"
    BY DEF IInv, Shape
  <2>2. Allocated = {idleproc} \cup {initproc}
    BY <1>2, <2>1 DEF Allocated
  <2>3. IsFiniteSet({idleproc}) /\ Cardinality({idleproc}) = 1
    BY FS_Singleton
  <2>4. Cardinality({idleproc} \cup {initproc}) = Cardinality({idleproc}) + 1
    BY <2>3, FS_AddElement
  <2> QED
    BY <2>2, <2>3, <2>4 DEF IInv, CountExact
<1>4. Stop("done")
  BY <1>2, <1>3 DEF InitFinishes
<1> QED
  BY <1>4, StopLemma

\* do_wait, from a system call, from init_main or after a sleep in it.
LEMMA WaitLemma ==
  ASSUME IInv, NEW t \in All \cup {NULL}, current = initproc => t = NULL,
         current = initproc => pc[current] \in {"wait", "loop"},
         current # initproc => pc[current] \in {"user", "wait"},
         state[current] = "RUNNABLE",
         DoWait(current, t)
  PROVE  IInv'
<1> USE ProcAssumption
<1>1. /\ current \in All /\ pc \in [All -> Places] /\ wait_state[current] = "none"
      /\ timer[current] = 0 /\ target \in [All -> All \cup {NULL}]
      /\ kthread \in SUBSET All
  BY DEF IInv, TypeOK, WaitStateExact, TimerOwned
<1>2. CASE \E z \in Candidates(current, t) : state[z] = "ZOMBIE" /\ Reap(current, z)
  BY <1>1, <1>2, ReapLemma DEF Candidates
<1>3. CASE /\ Candidates(current, t) # {}
           /\ \A z \in Candidates(current, t) : state[z] # "ZOMBIE"
           /\ state' = [state EXCEPT ![current] = "SLEEPING"]
           /\ wait_state' = [wait_state EXCEPT ![current] = "CHILD"]
           /\ Schedule([state EXCEPT ![current] = "SLEEPING"], runq, time_slice)
           /\ Goto(current, "wait")
           /\ target' = [target EXCEPT ![current] = t]
           /\ UNCHANGED <<exiting, parent, nr_process, timer, kthread, halt>>
  BY <1>1, <1>3, WaitSleepLemma
<1>4. CASE Candidates(current, t) = {} /\ current = initproc /\ InitFinishes
  BY <1>4, FinishLemma DEF Candidates
<1>5. CASE /\ current # initproc
           /\ Goto(current, "trap")
           /\ target' = [target EXCEPT ![current] = NULL]
           /\ UNCHANGED <<procVars, cpuVars, timer, kthread, halt>>
  <2>1. TypeOK'
    BY <1>1, <1>5 DEF IInv, TypeOK, Goto
  <2>2. Shape'
    BY <1>1, <1>5 DEF IInv, Shape, Goto
  <2>3. RunQueueExact' /\ WaitStateExact' /\ TimerOwned' /\ ReschedOnlyCurrent'
    BY <1>1, <1>5 DEF IInv, RunQueueExact, WaitStateExact, TimerOwned,
       ReschedOnlyCurrent, Goto
  <2>4. ParentsAlive' /\ Rooted' /\ NoAssertFails'
    BY <1>5 DEF IInv, ParentsAlive, Rooted, Alive, NoAssertFails
  <2>5. NoLostChildWakeup'
    BY <1>1, <1>5 DEF IInv, NoLostChildWakeup, Candidates, Children
  <2>6. CountExact'
    BY <1>5, SameCount
  <2> QED
    BY <2>1, <2>2, <2>3, <2>4, <2>5, <2>6 DEF IInv
<1> QED
  BY <1>2, <1>3, <1>4, <1>5 DEF DoWait

\* do_exit of init stops the machine, of any other process it is ExitLemma.
LEMMA DoExitLemma ==
  ASSUME IInv, state[current] = "RUNNABLE",
         pc[current] \in {"user", "main", "phil", "wait", "trap"}, DoExit(current)
  PROVE  IInv'
<1>1. CASE current = initproc
  <2>1. Stop("panic")
    BY <1>1 DEF DoExit
  <2> QED
    BY <2>1, StopLemma
<1>2. CASE current # initproc
  <2>1. current \in Proc
    BY <1>2 DEF IInv, TypeOK, Shape
  <2>2. timer[current] = 0
    BY DEF IInv, TypeOK, TimerOwned
  <2> QED
    BY <2>1, <2>2, ExitLemma
<1> QED
  BY <1>1, <1>2

-----------------------------------------------------------------------------
\* The steps of the running process.
LEMMA StepLemma ==
  ASSUME IInv, Step(current)
  PROVE  IInv'
<1> USE ProcAssumption
<1>1. /\ current \in All /\ pc \in [All -> Places] /\ state \in [All -> States]
      /\ pc[current] # "armed" => state[current] = "RUNNABLE" /\ wait_state[current] = "none"
      /\ pc[current] \notin {"armed", "sleep"} => timer[current] = 0
      /\ kthread \in SUBSET All
      /\ pc[initproc] \in InitPlaces \cup {"wait"} /\ pc[idleproc] = "idle"
  BY DEF IInv, TypeOK, Shape, WaitStateExact, TimerOwned
<1>2. CASE Fork(current)
  <2>1. PICK c \in Proc : /\ ForkOK(current, c, "user")
                          /\ pc' = [pc EXCEPT ![current] = "trap", ![c] = "user"]
    BY <1>2 DEF Fork
  <2>2. pc[current] = "user" /\ current # initproc /\ kthread' \in SUBSET All
    BY <1>1, <1>2 DEF Fork
  <2> QED
    BY <2>1, <2>2, ForkLemma
<1>3. CASE ForkFails(current)
  <2>1. pc[current] = "user" /\ current # initproc
    BY <1>1, <1>3 DEF ForkFails
  <2> QED
    BY <1>1, <1>3, <2>1, MoveLemma DEF ForkFails
<1>4. CASE Exec(current)
  <2>1. pc[current] = "main" /\ current # initproc /\ kthread' \in SUBSET All
    BY <1>1, <1>4 DEF Exec
  <2> QED
    BY <1>1, <1>4, <2>1, MoveLemma DEF Exec
<1>5. CASE Exit(current)
  BY <1>1, <1>5, DoExitLemma DEF Exit
<1>6. CASE Wait(current)
  <2>1. pc[current] = "user" /\ current # initproc
    BY <1>1, <1>6 DEF Wait
  <2>2. PICK t \in Proc \cup {initproc, NULL} : DoWait(current, t)
    BY <1>6 DEF Wait
  <2> QED
    BY <1>1, <2>1, <2>2, WaitLemma
<1>7. CASE WaitResumes(current)
  <2>1. pc[current] = "wait"
    BY <1>7 DEF WaitResumes
  <2>2. CASE exiting[current]
    BY <1>1, <1>7, <2>1, <2>2, DoExitLemma DEF WaitResumes
  <2>3. CASE ~exiting[current]
    <3>1. target[current] \in All \cup {NULL} /\ target[initproc] = NULL
      BY DEF IInv, TypeOK, Shape
    <3>2. DoWait(current, target[current])
      BY <1>7, <2>3 DEF WaitResumes
    <3> QED
      BY <1>1, <2>1, <3>1, <3>2, WaitLemma
  <2> QED
    BY <2>2, <2>3
<1>8. CASE Kill(current)
  BY <1>1, <1>8, KillLemma DEF Kill
<1>9. CASE Yield(current)
  <2>1. pc[current] = "user" /\ current \in Proc /\ pc' = [pc EXCEPT ![current] = "trap"]
    BY <1>1, <1>9 DEF Yield, Goto
  <2>2. /\ need_resched' = [need_resched EXCEPT ![current] = TRUE]
        /\ UNCHANGED <<procVars, current, runq, time_slice, timer, target, kthread, halt>>
    BY <1>9 DEF Yield
  <2>3. TypeOK'
    BY <2>1, <2>2 DEF IInv, TypeOK
  <2>4. Shape'
    BY <1>1, <2>1, <2>2 DEF IInv, Shape
  <2>5. RunQueueExact' /\ WaitStateExact' /\ TimerOwned'
    BY <1>1, <2>1, <2>2 DEF IInv, RunQueueExact, WaitStateExact, TimerOwned
  <2>6. ReschedOnlyCurrent'
    BY <2>1, <2>2 DEF IInv, TypeOK, ReschedOnlyCurrent
  <2>7. ParentsAlive' /\ Rooted' /\ NoAssertFails' /\ NoLostChildWakeup'
    BY <2>2 DEF IInv, ParentsAlive, Rooted, Alive, NoAssertFails, NoLostChildWakeup,
       Candidates, Children
  <2>8. CountExact'
    BY <2>2, SameCount
  <2> QED
    BY <2>3, <2>4, <2>5, <2>6, <2>7, <2>8 DEF IInv
<1>10. CASE SleepArms(current)
  BY <1>1, <1>10, SleepArmsLemma DEF SleepArms
<1>11. CASE SleepSchedules(current)
  <2>1. pc[current] = "armed" /\ current \notin {initproc, idleproc}
    BY <1>1, <1>11 DEF SleepSchedules
  <2> QED
    BY <1>11, <2>1, SwitchLemma DEF SleepSchedules
<1>12. CASE SleepResumes(current)
  BY <1>1, <1>12, SleepResumesLemma DEF SleepResumes
<1>13. CASE TrapExits(current)
  BY <1>1, <1>13, DoExitLemma DEF TrapExits
<1>14. CASE TrapReschedules(current)
  <2>1. pc[current] = "trap" /\ current \notin {initproc, idleproc}
    BY <1>1, <1>14 DEF TrapReschedules
  <2> QED
    BY <1>14, <2>1, SwitchLemma DEF TrapReschedules
<1>15. CASE TrapReturns(current)
  <2>1. pc[current] \in {"trap", "resched"} /\ current # initproc
    BY <1>1, <1>15 DEF TrapReturns
  <2>2. Goto(current, "user")
        /\ UNCHANGED <<procVars, cpuVars, timer, target, kthread, halt>>
    BY <1>15 DEF TrapReturns
  <2> QED
    BY <1>1, <2>1, <2>2, MoveLemma
<1> QED
  BY <1>2, <1>3, <1>4, <1>5, <1>6, <1>7, <1>8, <1>9, <1>10, <1>11, <1>12, <1>13, <1>14,
     <1>15 DEF Step

\* The steps of init_main.
LEMMA InitStepLemma ==
  ASSUME IInv, current = initproc, InitStep
  PROVE  IInv'
<1> USE ProcAssumption
<1>1. /\ current \in All /\ pc \in [All -> Places] /\ state[current] = "RUNNABLE"
      /\ wait_state[current] = "none" /\ kthread \in SUBSET All
      /\ pc[current] \in InitPlaces \cup {"wait"} /\ pc[current] # "sleep"
      /\ timer[current] = 0
  BY DEF IInv, TypeOK, Shape, WaitStateExact, TimerOwned
<1>2. CASE InitCreates
  <2> DEFINE place == IF pc[initproc] = "start" THEN "main" ELSE "phil"
  <2>1. PICK c \in Proc : /\ ForkOK(current, c, place)
                          /\ pc' = [pc EXCEPT ![current] = "check", ![c] = place]
                          /\ kthread' = kthread \cup {c}
    BY <1>2 DEF InitCreates
  <2>2. pc[current] \in {"start", "check"} /\ kthread' \in SUBSET All
    BY <1>1, <1>2, <2>1 DEF InitCreates
  <2>3. place \in {"user", "main", "phil"}
    OBVIOUS
  <2> HIDE DEF place
  <2> QED
    BY <2>1, <2>2, <2>3, ForkLemma
<1>3. CASE InitCreateFails
  BY <1>3, StopLemma DEF InitCreateFails
<1>4. CASE InitStartsLoop
  <2>1. pc[current] = "check" /\ Goto(current, "loop")
        /\ UNCHANGED <<procVars, cpuVars, timer, target, kthread, halt>>
    BY <1>4 DEF InitStartsLoop
  <2> QED
    BY <1>1, <2>1, MoveLemma
<1>5. CASE InitWait
  <2>1. pc[current] = "loop" /\ DoWait(current, NULL)
    BY <1>5 DEF InitWait
  <2> QED
    BY <1>1, <2>1, WaitLemma
<1>6. CASE InitYields
  <2>1. pc[current] = "reaped" /\ Goto(current, "again") /\ current # idleproc
        /\ Schedule(state, runq, time_slice)
        /\ UNCHANGED <<procVars, timer, target, kthread, halt>>
    BY <1>6 DEF InitYields
  <2> QED
    BY <1>1, <2>1, SwitchLemma
<1>7. CASE InitLoops
  <2>1. pc[current] = "again" /\ Goto(current, "loop")
        /\ UNCHANGED <<procVars, cpuVars, timer, target, kthread, halt>>
    BY <1>7 DEF InitLoops
  <2> QED
    BY <1>1, <2>1, MoveLemma
<1> QED
  BY <1>2, <1>3, <1>4, <1>5, <1>6, <1>7 DEF InitStep

LEMMA NextInv == IInv /\ [Next]_vars => IInv'
<1> SUFFICES ASSUME IInv, [Next]_vars PROVE IInv'
  OBVIOUS
<1>1. CASE \E p \in All : p = current /\ Step(p)
  BY <1>1, StepLemma
<1>2. CASE current = initproc /\ InitStep
  BY <1>2, InitStepLemma
<1>3. CASE current = idleproc /\ IdleSchedules
  <2>1. pc[current] = "idle" /\ pc \in [All -> Places]
    BY <1>3 DEF IInv, Shape, TypeOK
  <2>2. Goto(current, "idle")
    BY <1>3, <2>1 DEF IdleSchedules, Goto
  <2> QED
    BY <1>3, <2>1, <2>2, ProcAssumption, SwitchLemma DEF IdleSchedules
<1>4. CASE Tick
  BY <1>4, TickLemma
<1>5. CASE UNCHANGED vars
  <2> USE <1>5 DEF vars
  <2>1. TypeOK' /\ Shape' /\ NoAssertFails' /\ CountExact'
    BY SameCount DEF IInv, TypeOK, Shape, NoAssertFails
  <2>2. RunQueueExact' /\ WaitStateExact' /\ TimerOwned' /\ ReschedOnlyCurrent'
    BY DEF IInv, RunQueueExact, WaitStateExact, TimerOwned, ReschedOnlyCurrent
  <2>3. ParentsAlive' /\ Rooted' /\ NoLostChildWakeup'
    BY DEF IInv, ParentsAlive, Rooted, Alive, NoLostChildWakeup, Candidates, Children
  <2> QED
    BY <2>1, <2>2, <2>3 DEF IInv
<1> QED
  BY <1>1, <1>2, <1>3, <1>4, <1>5 DEF Next, Halted

\* IInv is an invariant of the kernel.
THEOREM Invariance == Spec => []IInv
  BY InitInv, NextInv, PTL DEF Spec

\* Type correctness: every variable keeps its type.
THEOREM TypeCorrect == Spec => []TypeOK
  BY Invariance, PTL DEF IInv

\* The run queue holds each runnable process once, and never the running one:
\* wakeup_proc and schedule() keep it exact in every interleaving of ticks,
\* kills, exits and waits.
THEOREM RunQueueCorrect == Spec => []RunQueueExact
  BY Invariance, PTL DEF IInv

\* wait_state tells the truth about every process, so do_kill, do_exit and the tick
\* wake whom they should.
THEOREM WaitStateCorrect == Spec => []WaitStateExact
  BY Invariance, PTL DEF IInv

\* A timer is armed exactly for a process inside do_sleep: none fires for a process
\* that has gone on, and none is left behind on a stack that is in use again.
THEOREM TimerCorrect == Spec => []TimerOwned
  BY Invariance, PTL DEF IInv

\* A parent that sleeps in do_wait never misses the exit of a child, its own or
\* one handed over to init.
THEOREM NoLostWakeup == Spec => []NoLostChildWakeup
  BY Invariance, PTL DEF IInv

\* Every process has a live parent and descends from init.
THEOREM FamilyCorrect == Spec => []FamilyTree
  BY Invariance, PTL DEF IInv

\* A preemption request never outlives the run it was made for.
THEOREM ReschedCorrect == Spec => []ReschedOnlyCurrent
  BY Invariance, PTL DEF IInv

\* nr_process is the number of allocated structures.
THEOREM CountCorrect == Spec => []CountExact
  BY Invariance, PTL DEF IInv

\* The assertions of wakeup_proc, do_fork and init_main never fail: init's loop
\* ends only when idle and init are alone.
THEOREM AssertionsHold == Spec => []NoAssertFails
  BY Invariance, PTL DEF IInv

=============================================================================
