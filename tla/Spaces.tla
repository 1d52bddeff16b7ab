-------------------------------- MODULE Spaces --------------------------------
(* What virtual memory promises: every process has pages of its own, a fork      *)
(* gives the child copies of them, and nobody else's step changes them.          *)
EXTENDS Integers

CONSTANTS Proc, VPage, Byte

VARIABLE val  \* the bytes of the pages that each process has in memory

Contents == UNION {[V -> Byte] : V \in SUBSET VPage}
Nothing == [v \in {} |-> 0]
Has(p) == DOMAIN val[p] # {}

Exec(p) == \E c \in Contents : val' = [val EXCEPT ![p] = c]
Exit(p) == Has(p) /\ val' = [val EXCEPT ![p] = Nothing]

\* the first access of a page finds anything
Write(p, v, b) ==
  /\ Has(p)
  /\ LET had == val[p] IN
     val' = [val EXCEPT ![p] = [w \in DOMAIN had \cup {v} |-> IF w = v THEN b ELSE had[w]]]

Fork(p, q) == Has(p) /\ ~Has(q) /\ val' = [val EXCEPT ![q] = val[p]]

Init == val = [p \in Proc |-> Nothing]

Next == \E p \in Proc :
          \/ Exec(p) \/ Exit(p)
          \/ \E v \in VPage, b \in Byte : Write(p, v, b)
          \/ \E q \in Proc : Fork(p, q)

Spec == Init /\ [][Next]_val
=============================================================================
