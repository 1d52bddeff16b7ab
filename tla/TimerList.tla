------------------------------ MODULE TimerList ------------------------------
(* The timer list of kern/schedule/sched.c:103-176.  It is ordered by expiry  *)
(* and holds differences: a timer's expires counts the ticks after the timer  *)
(* in front of it.  One timer per process, as do_sleep keeps it on its stack  *)
(* (proc.c:1097-1114); Proc.tla says when the three operations are called.    *)
(* Each runs with interrupts off, so each is one action.                      *)
EXTENDS Integers, Sequences, SequencesExt

CONSTANTS Proc, MaxSleep  \* MaxSleep bounds the argument of sleep

TimerListAssumption == MaxSleep \in Nat \ {0}

VARIABLES
  timer_list,  \* a sequence of timers
  woken        \* the processes the last tick passed to wakeup_proc

vars == <<timer_list, woken>>

Timer == [proc : Proc, expires : 0..MaxSleep]
Armed == {timer_list[i].proc : i \in DOMAIN timer_list}

\* the ticks until the timers of a list expire, and the i-th one of timer_list
Ticks(l) ==
  LET due[i \in 0..Len(l)] == IF i = 0 THEN 0 ELSE due[i - 1] + l[i].expires IN due
Due(i) == Ticks(timer_list)[i]

\* how many timers the loop of add_timer passes: those due after n ticks or before
Passed(n) == Max({i \in 0..Len(timer_list) : Due(i) <= n})

\* the timer that the new one is put in front of counts from the new one
Shorten(l, i, n) == IF i \in DOMAIN l THEN [l EXCEPT ![i].expires = @ - n] ELSE l

\* add_timer
Add(p, n) ==
  /\ p \notin Armed
  /\ LET i == Passed(n)
         rest == n - Due(i)
     IN timer_list' = InsertAt(Shorten(timer_list, i + 1, rest), i + 1,
                               [proc |-> p, expires |-> rest])
  /\ woken' = {}

\* the timer that follows the i-th counts from the one in front of it
Lengthen(l, i) ==
  IF i + 1 \in DOMAIN l THEN [l EXCEPT ![i + 1].expires = @ + l[i].expires] ELSE l

\* del_timer of a timer that is in the list
Del(p) ==
  /\ \E i \in DOMAIN timer_list :
       /\ timer_list[i].proc = p
       /\ timer_list' = RemoveAt(Lengthen(timer_list, i), i)
  /\ woken' = {}

\* mutant: one timer per tick
ExpiredOne(l) == IF l[1].expires = 0 THEN 1 ELSE 0

\* how many timers at the front of l have expired
Expired(l) == Max({i \in 0..Len(l) : \A j \in 1..i : l[j].expires = 0})

\* run_timer_list.  An expired timer has expires = 0, so del_timer only unlinks it.
Tick ==
  IF timer_list = <<>> THEN woken' = {} /\ UNCHANGED timer_list
  ELSE /\ timer_list[1].expires # 0
       /\ LET l == [timer_list EXCEPT ![1].expires = @ - 1]
              k == Expired(l)
          IN /\ woken' = {l[i].proc : i \in 1..k}
             /\ timer_list' = SubSeq(l, k + 1, Len(l))

Init == timer_list = <<>> /\ woken = {}

Next == \/ \E p \in Proc : Del(p) \/ \E n \in 1..MaxSleep : Add(p, n)
        \/ Tick

Spec == Init /\ [][Next]_vars

------------------------------------------------------------------------------
TypeOK ==
  /\ timer_list \in Seq(Timer)
  /\ \A i, j \in DOMAIN timer_list :
       timer_list[i].proc = timer_list[j].proc => i = j
  /\ woken \subseteq Proc

\* "assert(timer->expires != 0)" (sched.c:153) at every tick: whatever timers were
\* added at the same instant or taken back since, the first one is in the future.
HeadInFuture == timer_list # <<>> => timer_list[1].expires # 0

\* Every process is woken by exactly the tick it asked for, however many timers
\* were put in front of its own or taken away from there in the meantime.
Left(p) == IF p \in Armed
           THEN Due(CHOOSE i \in DOMAIN timer_list : timer_list[i].proc = p) ELSE 0
Abstract == INSTANCE Timers WITH left <- [p \in Proc |-> Left(p)]
Implements == Abstract!Spec
=============================================================================
