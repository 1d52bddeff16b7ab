-------------------------------- MODULE Ring --------------------------------
(***************************************************************************)
(* The table of kern/sync/check_sync.c: N philosophers in a ring.          *)
(***************************************************************************)
EXTENDS Naturals

CONSTANTS
  N,        \* N
  TIMES     \* TIMES

ASSUME RingAssumption == N \in Nat /\ N > 1 /\ TIMES \in Nat /\ TIMES > 0

Phil == 0..(N - 1)
Left(i)  == (i + N - 1) % N
Right(i) == (i + 1) % N

\* states of one philosopher
Phases == {"THINKING", "HUNGRY", "EATING"}
=============================================================================
