----------------------------- MODULE Philosophers -----------------------------
(***************************************************************************)
(* What the two dining-philosopher programs of kern/sync/check_sync.c      *)
(* promise: a philosopher gets hungry, starts to eat only while neither    *)
(* neighbour eats, and puts both forks back.                               *)
(***************************************************************************)
EXTENDS Ring

VARIABLE phase

Hungry(i) == phase[i] = "THINKING" /\ phase' = [phase EXCEPT ![i] = "HUNGRY"]
Eat(i) ==
  /\ phase[i] = "HUNGRY"
  /\ phase[Left(i)] # "EATING" /\ phase[Right(i)] # "EATING"
  /\ phase' = [phase EXCEPT ![i] = "EATING"]
Think(i) == phase[i] = "EATING" /\ phase' = [phase EXCEPT ![i] = "THINKING"]

Init == phase = [i \in Phil |-> "THINKING"]
Next == \E i \in Phil : Hungry(i) \/ Eat(i) \/ Think(i)
Spec == Init /\ [][Next]_phase
=============================================================================
