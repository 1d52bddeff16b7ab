----------------------------- MODULE Competitors -----------------------------
(* The processes that kern/schedule/default_sched_stride.c schedules, and the  *)
(* constants of the policy.                                                    *)
EXTENDS Integers, FiniteSets

CONSTANTS
  Proc, idleproc,
  BigStride,   \* BIG_STRIDE
  Priorities,  \* the arguments of lab6_set_priority
  MaxGap,      \* how far the stride of a process that starts or comes back may
               \* lie from the strides of those that did not leave
  MaxStride    \* bounds the strides

StrideAssumption ==
  /\ IsFiniteSet(Proc) /\ idleproc \notin Proc
  /\ BigStride \in Nat \ {0}
  /\ Priorities \subseteq Nat
  /\ MaxGap \in Nat /\ MaxGap >= BigStride
  /\ MaxStride \in Nat

ASSUME StrideAssumption
==============================================================================
