------------------------------- MODULE Frames -------------------------------
(* What a first-fit allocator of pages       promises its callers, whatever  *)
(* list it keeps: alloc_pages(n) takes the lowest run of n free pages, and   *)
(* fails only when there is none; free_pages gives such a block back.        *)
EXTENDS Integers, FiniteSetsExt

CONSTANTS
  NPages,
  MaxRequest,  \* the largest n
  NULL         \* no page

Page == 0..NPages-1

\* the frames of alloc_pages(n) when it returns b
Block(b, n) == b..b+n-1

VARIABLES
  held,  \* the blocks callers hold: <<first page, number of pages>>
  got    \* what the last call of alloc_pages returned

vars == <<held, got>>

\* the first pages of the runs of n pages that no caller holds
Runs(n) == {b \in Page : /\ Block(b, n) \subseteq Page
                         /\ \A h \in held : Block(b, n) \cap Block(h[1], h[2]) = {}}

Alloc(n) ==
  /\ Runs(n) # {}
  /\ got' = Min(Runs(n))
  /\ held' = held \cup {<<got', n>>}

AllocFails(n) ==
  /\ Runs(n) = {}
  /\ got' = NULL
  /\ UNCHANGED held

Free(b, n) ==
  /\ <<b, n>> \in held
  /\ held' = held \ {<<b, n>>}
  /\ got' = NULL

Init == held = {} /\ got = NULL

Next == \E n \in 1..MaxRequest :
          Alloc(n) \/ AllocFails(n) \/ \E b \in Page : Free(b, n)

Spec == Init /\ [][Next]_vars
=============================================================================
