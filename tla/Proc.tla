-------------------------------- MODULE Proc --------------------------------
(***************************************************************************)
(* The process life cycle and the scheduler core of the Week15 kernel      *)
(* (kern/process/proc.c, kern/schedule/sched.c, kern/trap/trap.c): fork,   *)
(* exit, wait, kill, yield, sleep, the timer interrupt, the trap epilogue, *)
(* the idle loop and init_main.                                            *)
(*                                                                         *)
(* One hart, and the kernel is not preemptible: a switch happens only when *)
(* the running process calls schedule().  A system call runs with          *)
(* interrupts off, so one action is one handler up to the schedule() it    *)
(* ends in; kernel threads run with interrupts on, so their handlers are   *)
(* cut where a tick makes a difference.  The policy (which queued process  *)
(* is picked) is left open here.  The philosophers of check_sync are       *)
(* kernel threads that init_main may or may not start: its call of         *)
(* check_sync is a line that the laboratory comments in and out.           *)
(***************************************************************************)
EXTENDS Naturals, FiniteSets

CONSTANTS
  Proc,           \* the process structures other than idle and init
  idleproc, initproc,
  NULL,           \* no process; as an argument of wait, pid 0 (any child)
  MaxProcess,     \* MAX_PROCESS
  MaxTimeSlice,   \* MAX_TIME_SLICE
  MaxSleep        \* longest argument of sleep that is explored

All == Proc \cup {idleproc, initproc}

ASSUME ProcAssumption ==
  /\ IsFiniteSet(Proc)
  /\ idleproc # initproc
  /\ {idleproc, initproc, NULL} \cap Proc = {}
  /\ NULL \notin {idleproc, initproc}
  /\ MaxProcess \in Nat
  /\ MaxTimeSlice \in Nat \ {0}
  /\ MaxSleep \in Nat \ {0}

VARIABLES
  state,          \* proc->state; UNINIT stands for a structure not allocated
  wait_state,     \* proc->wait_state
  exiting,        \* PF_EXITING in proc->flags
  parent,         \* proc->parent
  need_resched,   \* proc->need_resched
  time_slice,     \* proc->time_slice
  nr_process,
  current,
  runq,           \* how many times each process is linked into rq
  timer,          \* ticks left before the timer of do_sleep fires, 0 if none
  pc,             \* where the process is, or where it will resume
  target,         \* the pid argument of the do_wait in progress
  kthread,        \* processes that run kernel code with interrupts enabled
  halt            \* why the kernel stopped, "run" while it has not

procVars == <<state, wait_state, exiting, parent, nr_process>>
cpuVars  == <<current, runq, need_resched, time_slice>>
vars == <<state, wait_state, exiting, parent, need_resched, time_slice,
          nr_process, current, runq, timer, pc, target, kthread, halt>>

States  == {"UNINIT", "SLEEPING", "RUNNABLE", "ZOMBIE"}
Waits   == {"none", "CHILD", "TIMER"}      \* both kinds are WT_INTERRUPTED
Halts   == {"run", "assert", "panic", "done"}
Places  == {"none",      \* structure not allocated
            "idle",      \* cpu_idle's loop
            "start", "check", "loop", "reaped", "again", \* init_main
            "main",      \* user_main before its exec
            "phil",      \* a philosopher thread of check_sync
            "user",      \* user mode
            "trap",      \* in trap(), after the handler and before the epilogue
            "resched",   \* in the schedule() of trap()'s epilogue
            "wait",      \* in the schedule() of do_wait
            "armed",     \* in do_sleep, timer added, schedule() not yet called
            "sleep",     \* in the schedule() of do_sleep
            "dead"}      \* in the schedule() of do_exit

Alive == {p \in All : state[p] \in {"SLEEPING", "RUNNABLE"}}
Children(p) == {c \in All : parent[c] = p}

(***************************************************************************)
(* sched.c                                                                 *)
(***************************************************************************)

\* sched_class_enqueue: the idle process is never queued
Enqueue(rq, W) == [p \in All |-> IF p \in W \ {idleproc} THEN rq[p] + 1 ELSE rq[p]]

\* the slice an enqueue hands out to a process that has used its own up
Refill(ts, W) ==
  [p \in All |-> IF p \in W \ {idleproc} /\ ts[p] = 0 THEN MaxTimeSlice ELSE ts[p]]

Queued(rq) == {p \in All : rq[p] > 0}

ClearResched(next) == [need_resched EXCEPT ![current] = FALSE]

\* schedule(), called by current once the states are st and the queue is rq
Schedule(st, rq, ts) ==
  LET back == IF st[current] = "RUNNABLE" THEN {current} ELSE {}
      rq1  == Enqueue(rq, back)
  IN  \E next \in All :
        /\ IF Queued(rq1) = {} THEN next = idleproc ELSE next \in Queued(rq1)
        /\ current' = next
        /\ runq' = [rq1 EXCEPT ![next] = IF @ = 0 THEN 0 ELSE @ - 1]
        /\ time_slice' = Refill(ts, back)
        /\ need_resched' = ClearResched(next)

\* mutant: without the test for PROC_RUNNABLE
WokenAny(st, W)  == W

\* wakeup_proc of every process of W, when the states are st
Woken(st, W)     == {p \in W : st[p] # "RUNNABLE"}
AwakeState(st, W) == [p \in All |-> IF p \in W THEN "RUNNABLE" ELSE st[p]]
\* mutant: wait_state is not reset
AwakeWaitKeeps(st, W) == wait_state
AwakeWait(st, W) == [p \in All |-> IF p \in Woken(st, W) THEN "none" ELSE wait_state[p]]
AwakeQueue(st, W) == Enqueue(runq, Woken(st, W) \ {current})
AwakeSlice(st, W) == Refill(time_slice, Woken(st, W) \ {current})

\* assert(proc->state != PROC_ZOMBIE)
AssertAwake(st, W) ==
  halt' = IF \E p \in W : st[p] = "ZOMBIE" THEN "assert" ELSE halt

Stop(why) ==
  /\ halt' = why
  /\ UNCHANGED <<procVars, cpuVars, timer, pc, target, kthread>>

Goto(p, place) == pc' = [pc EXCEPT ![p] = place]

\* where a system call, or a kernel thread's call, returns to
Return(p) == IF p = initproc THEN "loop" ELSE IF p \in kthread THEN "phil" ELSE "trap"

(***************************************************************************)
(* proc.c: fork                                                            *)
(***************************************************************************)

\* do_fork when every allocation succeeds; place is where the child starts
ForkOK(p, c, place) ==
  /\ nr_process < MaxProcess
  /\ state[c] = "UNINIT"
  /\ state' = [state EXCEPT ![c] = "RUNNABLE"]
  /\ parent' = [parent EXCEPT ![c] = p]
  /\ nr_process' = nr_process + 1
  /\ runq' = Enqueue(runq, {c})
  /\ time_slice' = Refill([time_slice EXCEPT ![c] = 0], {c})
  /\ halt' = IF wait_state[p] # "none" THEN "assert" ELSE halt
  /\ UNCHANGED <<wait_state, exiting, need_resched, current, timer, target>>

\* SYS_fork
Fork(p) ==
  /\ pc[p] = "user"
  /\ \E c \in Proc :
       /\ ForkOK(p, c, "user")
       /\ pc' = [pc EXCEPT ![p] = "trap", ![c] = "user"]
  /\ UNCHANGED kthread

\* do_fork out of processes or of memory, whose cleanup undoes every step
ForkFails(p) ==
  /\ pc[p] = "user"
  /\ Goto(p, "trap")
  /\ UNCHANGED <<procVars, cpuVars, timer, target, kthread, halt>>

\* init_main creates user_main, then check_sync's philosophers; either panics
\* when kernel_thread fails
InitCreates ==
  /\ pc[initproc] \in {"start", "check"}
  /\ LET place == IF pc[initproc] = "start" THEN "main" ELSE "phil"
     IN  \E c \in Proc :
           /\ ForkOK(initproc, c, place)
           /\ pc' = [pc EXCEPT ![initproc] = "check", ![c] = place]
           /\ kthread' = kthread \cup {c}

InitCreateFails ==
  /\ pc[initproc] \in {"start", "check"}
  /\ Stop("panic")

InitStartsLoop ==
  /\ pc[initproc] = "check"
  /\ Goto(initproc, "loop")
  /\ UNCHANGED <<procVars, cpuVars, timer, target, kthread, halt>>

(***************************************************************************)
(* proc.c: exec and exit                                                   *)
(***************************************************************************)

\* user_main's exec succeeds: the thread leaves for user mode
Exec(p) ==
  /\ pc[p] = "main"
  /\ Goto(p, "user")
  /\ kthread' = kthread \ {p}
  /\ UNCHANGED <<procVars, cpuVars, timer, target, halt>>

\* mutant: init is not told of the zombies handed over to it
ExitWakesParent(p) == {q \in {parent[p]} : wait_state[q] = "CHILD"}

\* mutant: only the hand-over of a zombie wakes anybody
ExitWakesInit(p) ==
  {q \in {initproc} : wait_state[q] = "CHILD" /\ \E c \in Children(p) : state[c] = "ZOMBIE"}

\* whom do_exit wakes: a waiting parent, and a waiting init that is handed a zombie
ExitWakes(p) ==
  {q \in {parent[p], initproc} :
     /\ wait_state[q] = "CHILD"
     /\ q = parent[p] \/ \E c \in Children(p) : state[c] = "ZOMBIE"}

\* mutant: zombie children stay with the parent that exits
HandOverLiving(p) ==
  [q \in All |-> IF parent[q] = p /\ state[q] # "ZOMBIE" THEN initproc ELSE parent[q]]

HandOver(p) == [q \in All |-> IF parent[q] = p THEN initproc ELSE parent[q]]

\* do_exit
DoExit(p) ==
  IF p = initproc THEN Stop("panic") ELSE
  LET st == [state EXCEPT ![p] = "ZOMBIE"]
      W  == ExitWakes(p)
  IN  /\ state' = AwakeState(st, W)
      /\ wait_state' = AwakeWait(st, W)
      /\ AssertAwake(st, W)
      /\ parent' = HandOver(p)
      /\ Schedule(AwakeState(st, W), AwakeQueue(st, W), AwakeSlice(st, W))
      /\ Goto(p, "dead")
      /\ UNCHANGED <<exiting, nr_process, timer, target, kthread>>

\* SYS_exit, a failed exec, or a kernel thread whose function returns
Exit(p) ==
  /\ pc[p] \in {"user", "main", "phil"}
  /\ DoExit(p)

(***************************************************************************)
(* proc.c: wait                                                            *)
(***************************************************************************)

Candidates(p, t) == IF t = NULL THEN Children(p) ELSE Children(p) \cap {t}

\* "found": unhash, unlink and free the zombie z
Reap(p, z) ==
  /\ state' = [state EXCEPT ![z] = "UNINIT"]
  /\ parent' = [parent EXCEPT ![z] = NULL]
  /\ exiting' = [exiting EXCEPT ![z] = FALSE]
  /\ time_slice' = [time_slice EXCEPT ![z] = 0]
  /\ nr_process' = nr_process - 1
  /\ kthread' = kthread \ {z}
  /\ pc' = [pc EXCEPT ![z] = "none",
                      ![p] = IF p = initproc THEN "reaped" ELSE "trap"]
  /\ target' = [target EXCEPT ![p] = NULL, ![z] = NULL]
  /\ UNCHANGED <<wait_state, need_resched, current, runq, timer, halt>>

\* init_main after do_wait failed: its final assertions, then the panic that
\* stops the machine ("initproc exit") is the normal end of the system
InitFinishes ==
  Stop(IF Children(initproc) = {} /\ nr_process = 2 /\ \A q \in Proc : state[q] = "UNINIT"
       THEN "done" ELSE "assert")

\* do_wait from its "repeat" label
DoWait(p, t) ==
  \/ \E z \in Candidates(p, t) : state[z] = "ZOMBIE" /\ Reap(p, z)
  \/ /\ Candidates(p, t) # {}
     /\ \A z \in Candidates(p, t) : state[z] # "ZOMBIE"
     /\ state' = [state EXCEPT ![p] = "SLEEPING"]
     /\ wait_state' = [wait_state EXCEPT ![p] = "CHILD"]
     /\ Schedule([state EXCEPT ![p] = "SLEEPING"], runq, time_slice)
     /\ Goto(p, "wait")
     /\ target' = [target EXCEPT ![p] = t]
     /\ UNCHANGED <<exiting, parent, nr_process, timer, kthread, halt>>
  \/ /\ Candidates(p, t) = {}
     /\ IF p = initproc
        THEN InitFinishes
        ELSE /\ Goto(p, "trap")
             /\ target' = [target EXCEPT ![p] = NULL]
             /\ UNCHANGED <<procVars, cpuVars, timer, kthread, halt>>

\* SYS_wait, for any child or for a given pid
Wait(p) ==
  /\ pc[p] = "user"
  /\ \E t \in Proc \cup {initproc, NULL} : DoWait(p, t)

InitWait ==
  /\ pc[initproc] = "loop"
  /\ DoWait(initproc, NULL)

\* mutant: PF_EXITING is not tested
WaitResumesUnchecked(p) ==
  /\ pc[p] = "wait"
  /\ DoWait(p, target[p])

\* back from the schedule() of do_wait
WaitResumes(p) ==
  /\ pc[p] = "wait"
  /\ IF exiting[p] THEN DoExit(p) ELSE DoWait(p, target[p])

\* the explicit schedule() in init_main's loop
InitYields ==
  /\ pc[initproc] = "reaped"
  /\ Schedule(state, runq, time_slice)
  /\ Goto(initproc, "again")
  /\ UNCHANGED <<procVars, timer, target, kthread, halt>>

InitLoops ==
  /\ pc[initproc] = "again"
  /\ Goto(initproc, "loop")
  /\ UNCHANGED <<procVars, cpuVars, timer, target, kthread, halt>>

(***************************************************************************)
(* proc.c: kill, yield, sleep                                              *)
(***************************************************************************)

\* SYS_kill; a pid that is not found, or is already exiting, changes nothing
Kill(p) ==
  /\ pc[p] = "user"
  /\ \E q \in Proc \cup {initproc} :
       IF state[q] # "UNINIT" /\ ~exiting[q]
       THEN LET W == {r \in {q} : wait_state[r] # "none"}
            IN  /\ exiting' = [exiting EXCEPT ![q] = TRUE]
                /\ state' = AwakeState(state, W)
                /\ wait_state' = AwakeWait(state, W)
                /\ runq' = AwakeQueue(state, W)
                /\ time_slice' = AwakeSlice(state, W)
                /\ AssertAwake(state, W)
                /\ UNCHANGED <<parent, nr_process, current, need_resched>>
       ELSE UNCHANGED <<procVars, cpuVars, halt>>
  /\ Goto(p, "trap")
  /\ UNCHANGED <<timer, target, kthread>>

\* SYS_yield
Yield(p) ==
  /\ pc[p] = "user"
  /\ need_resched' = [need_resched EXCEPT ![p] = TRUE]
  /\ Goto(p, "trap")
  /\ UNCHANGED <<procVars, current, runq, time_slice, timer, target, kthread, halt>>

\* do_sleep up to the end of its critical section, by SYS_sleep or a philosopher
SleepArms(p) ==
  /\ pc[p] \in {"user", "phil"}
  /\ \E time \in 1..MaxSleep : timer' = [timer EXCEPT ![p] = time]
  /\ state' = [state EXCEPT ![p] = "SLEEPING"]
  /\ wait_state' = [wait_state EXCEPT ![p] = "TIMER"]
  /\ Goto(p, "armed")
  /\ UNCHANGED <<exiting, parent, nr_process, cpuVars, target, kthread, halt>>

\* mutant: the state is set after the critical section that adds the timer
SleepSchedulesLate(p) ==
  /\ pc[p] = "armed"
  /\ state' = [state EXCEPT ![p] = "SLEEPING"]
  /\ Schedule([state EXCEPT ![p] = "SLEEPING"], runq, time_slice)
  /\ Goto(p, "sleep")
  /\ UNCHANGED <<wait_state, exiting, parent, nr_process, timer, target, kthread, halt>>

SleepSchedules(p) ==
  /\ pc[p] = "armed"
  /\ Schedule(state, runq, time_slice)
  /\ Goto(p, "sleep")
  /\ UNCHANGED <<procVars, timer, target, kthread, halt>>

\* mutant: no del_timer
SleepResumesKeepsTimer(p) ==
  /\ pc[p] = "sleep"
  /\ Goto(p, Return(p))
  /\ UNCHANGED <<procVars, cpuVars, timer, target, kthread, halt>>

\* back from the schedule() of do_sleep: del_timer and return
SleepResumes(p) ==
  /\ pc[p] = "sleep"
  /\ timer' = [timer EXCEPT ![p] = 0]
  /\ Goto(p, Return(p))
  /\ UNCHANGED <<procVars, cpuVars, target, kthread, halt>>

(***************************************************************************)
(* trap.c: the epilogue of a trap taken in user mode                       *)
(***************************************************************************)

TrapExits(p) ==
  /\ pc[p] = "trap"
  /\ exiting[p]
  /\ DoExit(p)

TrapReschedules(p) ==
  /\ pc[p] = "trap"
  /\ ~exiting[p]
  /\ need_resched[p]
  /\ Schedule(state, runq, time_slice)
  /\ Goto(p, "resched")
  /\ UNCHANGED <<procVars, timer, target, kthread, halt>>

\* nothing to do, or back from that schedule(): the flags are not read again
TrapReturns(p) ==
  /\ \/ pc[p] = "trap" /\ ~exiting[p] /\ ~need_resched[p]
     \/ pc[p] = "resched"
  /\ Goto(p, "user")
  /\ UNCHANGED <<procVars, cpuVars, timer, target, kthread, halt>>

(***************************************************************************)
(* the timer interrupt, idle, and the whole machine                        *)
(***************************************************************************)

\* run_timer_list, taken from user mode or from a kernel thread
Tick ==
  /\ pc[current] = "user" \/ current \in kthread
  /\ LET fired == {p \in All : timer[p] = 1}
         ts    == AwakeSlice(state, fired)
         left  == IF ts[current] > 0 THEN ts[current] - 1 ELSE 0
     IN  /\ timer' = [p \in All |-> IF timer[p] > 0 THEN timer[p] - 1 ELSE 0]
         /\ state' = AwakeState(state, fired)
         /\ wait_state' = AwakeWait(state, fired)
         /\ runq' = AwakeQueue(state, fired)
         /\ AssertAwake(state, fired)
         /\ IF current = idleproc
            THEN /\ time_slice' = ts
                 /\ need_resched' = [need_resched EXCEPT ![idleproc] = TRUE]
            ELSE /\ time_slice' = [ts EXCEPT ![current] = left]
                 /\ need_resched' = [need_resched EXCEPT ![current] = @ \/ left = 0]
  /\ pc' = IF pc[current] = "user" THEN [pc EXCEPT ![current] = "trap"] ELSE pc
  /\ UNCHANGED <<exiting, parent, nr_process, current, target, kthread>>

IdleSchedules ==
  /\ need_resched[idleproc]
  /\ Schedule(state, runq, time_slice)
  /\ UNCHANGED <<procVars, timer, pc, target, kthread, halt>>

\* the steps of the running process p other than the interrupt
Step(p) ==
  \/ Fork(p) \/ ForkFails(p) \/ Exec(p) \/ Exit(p)
  \/ Wait(p) \/ WaitResumes(p)
  \/ Kill(p) \/ Yield(p)
  \/ SleepArms(p) \/ SleepSchedules(p) \/ SleepResumes(p)
  \/ TrapExits(p) \/ TrapReschedules(p) \/ TrapReturns(p)

InitStep ==
  \/ InitCreates \/ InitCreateFails \/ InitStartsLoop
  \/ InitWait \/ InitYields \/ InitLoops

\* the machine has stopped in a panic
Halted == halt # "run" /\ UNCHANGED vars

Next ==
  \/ /\ halt = "run"
     /\ \/ \E p \in All : p = current /\ Step(p)
        \/ current = initproc /\ InitStep
        \/ current = idleproc /\ IdleSchedules
        \/ Tick
  \/ Halted

\* the state proc_init leaves: idle runs, init is queued
Init ==
  /\ state = [p \in All |-> IF p \in Proc THEN "UNINIT" ELSE "RUNNABLE"]
  /\ wait_state = [p \in All |-> "none"]
  /\ exiting = [p \in All |-> FALSE]
  /\ parent = [p \in All |-> IF p = initproc THEN idleproc ELSE NULL]
  /\ need_resched = [p \in All |-> p = idleproc]
  /\ time_slice = [p \in All |-> IF p = initproc THEN MaxTimeSlice ELSE 0]
  /\ nr_process = 2
  /\ current = idleproc
  /\ runq = [p \in All |-> IF p = initproc THEN 1 ELSE 0]
  /\ timer = [p \in All |-> 0]
  /\ pc = [p \in All |-> IF p = idleproc THEN "idle"
                         ELSE IF p = initproc THEN "start" ELSE "none"]
  /\ target = [p \in All |-> NULL]
  /\ kthread = {idleproc, initproc}
  /\ halt = "run"

Spec == Init /\ [][Next]_vars
-----------------------------------------------------------------------------
(***************************************************************************)
(* Safety                                                                  *)
(***************************************************************************)

\* Every variable keeps its type.
TypeOK ==
  /\ state \in [All -> States]
  /\ wait_state \in [All -> Waits]
  /\ exiting \in [All -> BOOLEAN]
  /\ parent \in [All -> All \cup {NULL}]
  /\ need_resched \in [All -> BOOLEAN]
  /\ time_slice \in [All -> 0..MaxTimeSlice]
  /\ nr_process \in Nat
  /\ current \in All
  /\ runq \in [All -> Nat]
  /\ timer \in [All -> 0..MaxSleep]
  /\ pc \in [All -> Places]
  /\ target \in [All -> All \cup {NULL}]
  /\ kthread \in SUBSET All
  /\ halt \in Halts

\* The queue holds each runnable process exactly once, and never the running
\* one, idle or a process that is not runnable: wakeup_proc, do_exit, do_wait
\* and the tick all link and unlink it, and neither the skew heap nor the
\* process notices a second link or a missing one (sched.c:58-100).
RunQueueExact ==
  \A p \in All :
    runq[p] = IF state[p] = "RUNNABLE" /\ p # current /\ p # idleproc THEN 1 ELSE 0

\* A process has a wait reason exactly while it sleeps, and the reason is the
\* call it sleeps in: do_kill and do_exit decide to wake a process by its
\* wait_state alone (proc.c:543, 557, 940).
WaitStateExact ==
  \A p \in All :
    /\ wait_state[p] # "none" <=> state[p] = "SLEEPING"
    /\ wait_state[p] = "CHILD" => pc[p] = "wait"
    /\ wait_state[p] = "TIMER" => pc[p] \in {"armed", "sleep"}

\* No lost wakeup of a parent: a process sleeps in do_wait only while some
\* child it waits for exists and none of them is a zombie, also when children
\* are handed over to init while it sleeps (do_exit, proc.c:542-561).
NoLostChildWakeup ==
  \A p \in All : wait_state[p] = "CHILD" =>
    /\ Candidates(p, target[p]) # {}
    /\ \A c \in Candidates(p, target[p]) : state[c] # "ZOMBIE"

\* A timer is armed exactly while its owner is inside do_sleep and has not been
\* woken by it: the timer lives on the owner's kernel stack (proc.c:1104), so one
\* that outlives the call is a dangling pointer, and a sleeper without one never
\* wakes.
TimerOwned ==
  \A p \in All :
    /\ timer[p] > 0 => pc[p] \in {"armed", "sleep"} /\ state[p] # "ZOMBIE"
    /\ wait_state[p] = "TIMER" => timer[p] > 0

ParentsAlive ==
  \A p \in All \ {idleproc} :
    IF state[p] = "UNINIT" THEN parent[p] = NULL
    ELSE parent[p] \in Alive /\ (p # initproc => parent[p] # idleproc)

\* no set of processes holds the parents of all its members
Rooted == \A S \in SUBSET Proc : S # {} => \E p \in S : parent[p] \notin S

\* Processes form a tree under init: every process has a live parent, and init
\* is the ancestor of all of them, so the exit of a parent with running and dead
\* children leaves no child that nobody will reap (do_exit's hand-over,
\* proc.c:546-561).
FamilyTree == ParentsAlive /\ Rooted

\* A preemption request is only ever pending for the running process: schedule()
\* clears it for the process that leaves (sched.c:84), so none is left over to
\* preempt a later run.
ReschedOnlyCurrent == \A p \in All : need_resched[p] => p = current

\* nr_process counts the allocated structures, across failed forks, exits and
\* reaping by a parent or by init (the limit do_fork tests, proc.c:433).
Allocated == {p \in All : state[p] # "UNINIT"}
CountExact == nr_process = Cardinality(Allocated)

\* None of the assertions fails: wakeup_proc is never called on a zombie
\* (sched.c:60), do_fork never by a process that waits (proc.c:476), and init
\* ends its loop only when it and idle are all that is left (proc.c:1025-1028).
NoAssertFails == halt # "assert"

(***************************************************************************)
(* Fairness and liveness                                                   *)
(***************************************************************************)

\* a schedule() switches to p, which is queued
SwitchTo(p) == halt = "run" /\ runq[p] > 0 /\ Next /\ current' = p

\* code that is not a user program goes on: no handler loops on its own, and
\* user_main, the philosophers and init_main are fixed programs
KernelStep ==
  /\ halt = "run"
  /\ pc[current] # "user"
  /\ \/ Step(current)
     \/ current = initproc /\ InitStep
     \/ current = idleproc /\ IdleSchedules

\* The clock interrupts again and again, kernel code continues, and the policy
\* picks every queued process again and again.  User programs owe nothing: they
\* may compute for ever.
Fairness ==
  /\ SF_vars(halt = "run" /\ Tick)
  /\ WF_vars(KernelStep)
  /\ \A p \in All : SF_vars(SwitchTo(p))

FairSpec == Spec /\ Fairness

Gone(p) == state[p] \in {"ZOMBIE", "UNINIT"} \/ halt # "run"

\* init reaps every zombie that is, or becomes, its child, whichever child it
\* happened to be waiting for when the orphan died (init_main, proc.c:1018).
OrphansReaped ==
  \A p \in Proc :
    state[p] = "ZOMBIE" /\ parent[p] = initproc
      ~> state[p] = "UNINIT" \/ halt # "run"

\* A sleeper gets out of do_sleep, whatever is killed or exits meanwhile.
SleepersReturn ==
  \A p \in Proc : pc[p] = "sleep" ~> pc[p] # "sleep" \/ halt # "run"

\* A kill that interrupts a wait or a sleep is final: the process exits without
\* running user code again (do_wait's and trap()'s tests of PF_EXITING).
InterruptedExit ==
  \A p \in Proc :
    exiting[p] /\ p \notin kthread /\ state[p] = "RUNNABLE" /\ pc[p] \in {"wait", "sleep"}
      ~> Gone(p)

\* What the description of SYS_kill says (proc.c:58-59): a process that is
\* killed is woken and exits.
KilledExit == \A p \in Proc : exiting[p] ~> Gone(p)
=============================================================================
