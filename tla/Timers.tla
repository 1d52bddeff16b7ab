------------------------------- MODULE Timers -------------------------------
(* What the kernel timers promise: a process that armed one for n ticks is   *)
(* woken by the n-th tick after that, unless it takes the timer back first.  *)
EXTENDS Integers

CONSTANTS Proc, MaxSleep

VARIABLES
  left,   \* the ticks each process still has to wait, 0 without a timer
  woken   \* the processes woken by the last tick

vars == <<left, woken>>

Add(p, n) ==
  /\ left[p] = 0
  /\ left' = [left EXCEPT ![p] = n]
  /\ woken' = {}

Del(p) ==
  /\ left[p] # 0
  /\ left' = [left EXCEPT ![p] = 0]
  /\ woken' = {}

Tick ==
  /\ left' = [p \in Proc |-> IF left[p] = 0 THEN 0 ELSE left[p] - 1]
  /\ woken' = {p \in Proc : left[p] = 1}

Init == left = [p \in Proc |-> 0] /\ woken = {}

Next == \/ \E p \in Proc : Del(p) \/ \E n \in 1..MaxSleep : Add(p, n)
        \/ Tick

Spec == Init /\ [][Next]_vars
=============================================================================
