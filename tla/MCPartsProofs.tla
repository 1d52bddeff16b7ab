----------------------------- MODULE MCPartsProofs -----------------------------
(* What the parts of the kernel keep, in the sum that run parts checks, for every *)
(* value of its constants.                                                        *)
EXTENDS MCParts, Lemmas, FiniteSetTheorems

------------------------------------------------------------------------------
(* The numbers of processes.  What makes the search of get_pid right is PidBounds: *)
(* no process that it has passed has a number between last_pid and next_safe, nor  *)
(* has any process between two calls.                                              *)

Number == 1..(MAX_PID - 1)

PidTypes ==
  /\ last_pid \in Nat /\ next_safe \in Nat /\ next_safe <= MAX_PID
  /\ proc_list \in Seq(Number)
  /\ le \in Nat /\ le <= Len(proc_list) + 1

PidsApart == \A i, j \in 1..Len(proc_list) : proc_list[i] = proc_list[j] => i = j

\* while a search is on, last_pid is a number and free as far as it has come
PidBounds ==
  IF le = 0
  THEN /\ last_pid >= 1
       /\ \A i \in 1..Len(proc_list) : proc_list[i] <= last_pid \/ proc_list[i] >= next_safe
  ELSE /\ last_pid \in Number /\ last_pid < next_safe
       /\ \A i \in 1..le - 1 : proc_list[i] < last_pid \/ proc_list[i] >= next_safe

PidInv == PidTypes /\ PidsApart /\ PidBounds

\* What set_links makes of the list.
LEMMA LinksAt ==
  ASSUME NEW S, NEW s \in Seq(S), NEW x \in S
  PROVE  /\ <<x>> \o s \in Seq(S)
         /\ Len(<<x>> \o s) = Len(s) + 1
         /\ \A k \in 1..Len(s) + 1 : (<<x>> \o s)[k] = IF k = 1 THEN x ELSE s[k - 1]
OBVIOUS

\* A number that no process has can be linked, when the bounds allow for it.
LEMMA NewNumber ==
  ASSUME PidTypes, PidsApart, NEW x \in Number, Links(x),
         \A i \in 1..Len(proc_list) : proc_list[i] # x,
         last_pid' = x, next_safe' = next_safe, le' = 0,
         \A i \in 1..Len(proc_list) : proc_list[i] <= x \/ proc_list[i] >= next_safe
  PROVE  PidInv'
<1> DEFINE new == <<x>> \o proc_list
<1>1. /\ new \in Seq(Number) /\ Len(new) = Len(proc_list) + 1
      /\ \A k \in 1..Len(proc_list) + 1 : new[k] = IF k = 1 THEN x ELSE proc_list[k - 1]
  BY LinksAt DEF PidTypes
<1>2. proc_list' = new
  BY DEF Links
<1>3. Len(proc_list) \in Nat
  BY LenProperties DEF PidTypes
<1> HIDE DEF new
<1>4. PidTypes'
  BY <1>1, <1>2, <1>3 DEF PidTypes, Number
<1>5. ASSUME NEW i \in 1..Len(new), NEW j \in 1..Len(new), new[i] = new[j] PROVE i = j
  <2>1. \A k \in 2..Len(new) : k - 1 \in 1..Len(proc_list) /\ new[k] = proc_list[k - 1]
    BY <1>1, <1>3
  <2>2. CASE i = 1 \/ j = 1
    BY <1>1, <1>3, <1>5, <2>1, <2>2
  <2>3. CASE i # 1 /\ j # 1
    <3>1. i - 1 = j - 1
      BY <1>1, <1>3, <1>5, <2>1, <2>3 DEF PidsApart
    <3>2. QED BY <1>1, <1>3, <3>1
  <2>4. QED BY <2>2, <2>3
<1>6. PidsApart'
  BY <1>2, <1>5 DEF PidsApart
<1>7. \A k \in 1..Len(new) : new[k] <= x \/ new[k] >= next_safe
  <2> SUFFICES ASSUME NEW k \in 1..Len(new) PROVE new[k] <= x \/ new[k] >= next_safe
    OBVIOUS
  <2>1. CASE k = 1
    BY <1>1, <1>3, <2>1 DEF Number
  <2>2. CASE k # 1
    <3>1. k - 1 \in 1..Len(proc_list) /\ new[k] = proc_list[k - 1]
      BY <1>1, <1>3, <2>2
    <3>2. QED BY <3>1
  <2>3. QED BY <2>1, <2>2
<1>8. QED BY <1>2, <1>4, <1>6, <1>7 DEF PidInv, PidBounds, Number

\* Searches begins and goes on without a process that has last_pid.
LEMMA StepKeepsPids ==
  ASSUME PidsAssumption, PidInv, Next
  PROVE  PidInv'
<1> USE DEF PidInv
<1>0. /\ MAX_PID \in Nat /\ MAX_PID >= 2
      /\ Len(proc_list) \in Nat /\ DOMAIN proc_list = 1..Len(proc_list)
      /\ \A i \in 1..Len(proc_list) : proc_list[i] \in Number
      /\ \A i \in 1..Len(proc_list) : proc_list[i] \in Int
  BY LenProperties, ElementOfSeq DEF PidsAssumption, PidTypes, Number
<1>w. ASSUME NEW n \in Nat, n >= 1 PROVE Wrap(n) \in Number /\ Wrap(n) < MAX_PID
  BY <1>0, <1>w DEF Wrap, Number
<1>1. CASE Gives
  <2>1. last_pid + 1 \in Number /\ le = 0
    BY <1>0, <1>1 DEF Gives, MayFork, KnownFree, PidTypes, Number
  <2>2. \A i \in 1..Len(proc_list) : proc_list[i] <= last_pid \/ proc_list[i] >= next_safe
    BY <2>1 DEF PidBounds
  <2>3. \A i \in 1..Len(proc_list) :
          /\ proc_list[i] # last_pid + 1
          /\ proc_list[i] <= last_pid + 1 \/ proc_list[i] >= next_safe
    BY <1>0, <1>1, <2>2 DEF Gives, KnownFree, PidTypes
  <2>4. QED BY <1>1, <2>1, <2>3, NewNumber DEF Gives
<1>2. CASE Searches
  <2>1. last_pid' \in Number /\ next_safe' = MAX_PID /\ le' = 1 /\ proc_list' = proc_list
    BY <1>2, <1>w DEF Searches, PidTypes
  <2>2. QED BY <1>0, <2>1 DEF PidTypes, PidsApart, PidBounds, Number
<1>3. CASE Advances
  <2>0. le \in 1..Len(proc_list) /\ le' = le + 1 /\ proc_list' = proc_list
    BY <1>0, <1>3 DEF Advances, Searching
  <2>1. last_pid' \in Number /\ last_pid' = last_pid + 1 /\ last_pid' < next_safe'
        /\ next_safe' = next_safe
    BY <1>0, <1>3 DEF Advances, PidTypes, Number
  <2>2. ASSUME NEW i \in 1..le PROVE proc_list[i] < last_pid + 1 \/ proc_list[i] >= next_safe
    <3>1. CASE i = le
      BY <1>0, <1>3, <3>1 DEF Advances, PidTypes
    <3>2. CASE i # le
      <4>1. i \in 1..le - 1 /\ i \in 1..Len(proc_list)
        BY <1>0, <2>0, <3>2
      <4>2. proc_list[i] < last_pid \/ proc_list[i] >= next_safe
        BY <2>0, <4>1 DEF PidBounds
      <4>3. QED BY <1>0, <4>1, <4>2 DEF PidTypes
    <3>3. QED BY <3>1, <3>2
  <2>3. PidBounds'
    BY <2>0, <2>1, <2>2 DEF PidBounds
  <2>4. QED BY <1>0, <2>0, <2>1, <2>3 DEF PidTypes, PidsApart, Number
<1>4. CASE Repeats
  <2>1. last_pid' \in Number /\ next_safe' = MAX_PID /\ le' = 1 /\ proc_list' = proc_list
    BY <1>4, <1>w DEF Repeats, PidTypes
  <2>2. QED BY <1>0, <2>1 DEF PidTypes, PidsApart, PidBounds, Number
<1>5. CASE Passes
  <2>0. le \in 1..Len(proc_list) /\ le' = le + 1 /\ proc_list' = proc_list
        /\ last_pid' = last_pid
    BY <1>0, <1>5 DEF Passes, Searching
  <2>1. last_pid \in Number /\ last_pid < next_safe
    BY <2>0 DEF PidBounds
  <2>2. /\ next_safe' \in Nat /\ next_safe' <= next_safe /\ last_pid < next_safe'
        /\ proc_list[le] < last_pid \/ proc_list[le] >= next_safe'
    BY <1>0, <1>5, <2>0, <2>1 DEF Passes, PidTypes, Number
  <2>3. ASSUME NEW i \in 1..le PROVE proc_list[i] < last_pid \/ proc_list[i] >= next_safe'
    <3>1. CASE i = le
      BY <2>2, <3>1
    <3>2. CASE i # le
      <4>1. i \in 1..le - 1 /\ i \in 1..Len(proc_list)
        BY <1>0, <2>0, <3>2
      <4>2. proc_list[i] < last_pid \/ proc_list[i] >= next_safe
        BY <2>0, <4>1 DEF PidBounds
      <4>3. QED BY <1>0, <2>2, <4>1, <4>2 DEF PidTypes
    <3>3. QED BY <3>1, <3>2
  <2>4. PidBounds'
    BY <2>0, <2>1, <2>2, <2>3 DEF PidBounds
  <2>5. QED BY <1>0, <2>0, <2>2, <2>4 DEF PidTypes, PidsApart
<1>6. CASE Finds
  <2>1. le = Len(proc_list) + 1 /\ last_pid \in Number
    BY <1>0, <1>6 DEF Finds, PidBounds
  <2>2. \A i \in 1..Len(proc_list) : proc_list[i] < last_pid \/ proc_list[i] >= next_safe
    BY <1>0, <2>1 DEF PidBounds
  <2>3. last_pid < next_safe
    BY <1>0, <2>1 DEF PidBounds
  <2>4. \A i \in 1..Len(proc_list) :
          /\ proc_list[i] # last_pid
          /\ proc_list[i] <= last_pid \/ proc_list[i] >= next_safe
    BY <1>0, <2>2, <2>3 DEF PidTypes
  <2>5. QED BY <1>6, <2>1, <2>4, NewNumber DEF Finds
<1>7. CASE Reaps
  <2>1. PICK i \in 1..Len(proc_list) : proc_list' = RemoveAt(proc_list, i)
    BY <1>0, <1>7 DEF Reaps
  <2>2. /\ proc_list' \in Seq(Number) /\ Len(proc_list') = Len(proc_list) - 1
        /\ \A k \in 1..Len(proc_list) - 1 : proc_list'[k] = proc_list[IF k < i THEN k ELSE k + 1]
    BY <2>1, RemoveAtAt DEF PidTypes
  <2>3. le = 0 /\ le' = 0 /\ last_pid' = last_pid /\ next_safe' = next_safe
    BY <1>7 DEF Reaps
  <2>4. PidTypes'
    BY <1>0, <2>2, <2>3 DEF PidTypes
  <2>5. PidsApart'
    BY <1>0, <2>2 DEF PidsApart
  <2>6. PidBounds'
    BY <1>0, <2>2, <2>3 DEF PidBounds
  <2>7. QED BY <2>4, <2>5, <2>6
<1>8. QED BY <1>1, <1>2, <1>3, <1>4, <1>5, <1>6, <1>7 DEF Next, GetPid

\* The invariant holds whenever the constants are as static_assert(MAX_PID >
\* MAX_PROCESS) says.
LEMMA PidInvHolds == PartsSpec => []PidInv
<1>1. PartsInit => PidInv
  BY PartsAssumption DEF PartsInit, Init, PidInv, PidTypes, PidsApart, PidBounds, PidsAssumption
<1>2. PidInv /\ [PartsNext]_partsVars => PidInv'
  <2>1. PidInv /\ Next => PidInv'
    BY PartsAssumption, StepKeepsPids
  <2>2. PidInv /\ UNCHANGED pids => PidInv'
    BY DEF pids, PidInv, PidTypes, PidsApart, PidBounds
  <2>3. [PartsNext]_partsVars => Next \/ UNCHANGED pids
    BY DEF PartsNext, partsVars, Numbers
  <2>4. QED BY <2>1, <2>2, <2>3
<1>3. QED BY <1>1, <1>2, PTL DEF PartsSpec

\* get_pid never gives a number that a process still has, and never MAX_PID or 0.
THEOREM PidsUnique == PartsSpec => []Unique
<1>1. PidInv => Unique
  <2> SUFFICES ASSUME PidInv PROVE Unique
    OBVIOUS
  <2>1. DOMAIN proc_list = 1..Len(proc_list) /\ \A i \in 1..Len(proc_list) : proc_list[i] \in Number
    BY LenProperties, ElementOfSeq DEF PidInv, PidTypes
  <2>2. QED BY <2>1 DEF PidInv, PidsApart, Unique, Number
<1>2. QED BY <1>1, PidInvHolds, PTL

------------------------------------------------------------------------------
(* Page replacement.  Good says that the table and the list of a manager fit, and *)
(* every call keeps the contents of all pages, Keeps; the managers only differ in *)
(* the page that they find.                                                       *)

\* the contents of a page, in memory or on the disk
Cont(m, v) == IF m.pte[v].kind = "page" THEN m.frame[m.pte[v].frame] ELSE m.disk[v]

SwapTypes(m) ==
  /\ m = [pte |-> m.pte, frame |-> m.frame, disk |-> m.disk, ring |-> m.ring]
  /\ m.pte \in [W!VPage -> [kind : {"none", "page", "swap"}, frame : Nat, A : BOOLEAN, D : BOOLEAN]]
  /\ m.frame \in [W!Frame -> Nat] /\ m.disk \in [W!VPage -> Nat]
  /\ m.ring \in Seq(W!VPage)

\* every page in memory has a frame of its own and is in the ring once
SwapPlaces(m) ==
  /\ \A v \in W!Resident(m) : m.pte[v].frame \in W!Frame
  /\ \A v, w \in W!Resident(m) : m.pte[v].frame = m.pte[w].frame => v = w
  /\ \A i \in 1..Len(m.ring) : m.ring[i] \in W!Resident(m)
  /\ Once(m.ring)
  /\ \A v \in W!Resident(m) : \E i \in 1..Len(m.ring) : m.ring[i] = v

Good(m) == SwapTypes(m) /\ SwapPlaces(m)

SwapInv ==
  /\ Good(s_mm) /\ sm \in W!Managers
  /\ last \in [W!VPage -> Nat \cup {-1}]
  /\ \A v \in W!VPage : last[v] # -1 => s_mm.pte[v].kind # "none" /\ Cont(s_mm, v) = last[v]

\* What swap_out leaves of the list, for every manager.
LEMMA RingAfterLoses ==
  ASSUME NEW S, NEW l \in Seq(S), NEW i \in 1..Len(l), Once(l)
  PROVE  Loses(W!RingAfter(l, i), l, i, S)
<1>1. CASE sm # "clock"
  <2>1. W!RingAfter(l, i) = RemoveAt(l, i)
    BY <1>1 DEF W!RingAfter, W!RemoveAt, RemoveAt
  <2>2. QED BY <2>1, RemoveAtKeeps
<1>2. CASE sm = "clock"
  <2>1. W!RingAfter(l, i) = SubSeq(l, i + 1, Len(l)) \o SubSeq(l, 1, i - 1)
    BY <1>2 DEF W!RingAfter
  <2>2. QED BY <2>1, RotateKeeps
<1>3. QED BY <1>1, <1>2

\* the first page of a set of pages in memory
LEMMA FirstOfIn ==
  ASSUME NEW m, Good(m), NEW S \in SUBSET W!Resident(m), S # {}
  PROVE  W!FirstOf(m, S) \in 1..Len(m.ring) /\ m.ring[W!FirstOf(m, S)] \in S
<1> DEFINE I == {i \in DOMAIN m.ring : m.ring[i] \in S}
<1>1. DOMAIN m.ring = 1..Len(m.ring) /\ Len(m.ring) \in Nat
  BY DEF Good, SwapTypes
<1>2. I \subseteq Nat /\ I # {}
  BY <1>1 DEF Good, SwapPlaces
<1>3. W!FirstOf(m, S) = Min(I)
  BY DEF W!FirstOf, W!Min, Min
<1> HIDE DEF I
<1>4. Min(I) \in I
  BY <1>2, MinIn
<1>5. QED BY <1>1, <1>3, <1>4 DEF I

\* how much the clock thinks of a page, Used of Swap.tla
UsedOf(m, v) == 2 * (IF m.pte[v].A THEN 1 ELSE 0) + (IF m.pte[v].D THEN 1 ELSE 0)

ClassOf(m, a, d) == {v \in W!Resident(m) : m.pte[v].A = a /\ m.pte[v].D = d}

\* The clock finds a page, one of the least used.
LEMMA ClockFinds ==
  ASSUME NEW m, Good(m), W!Resident(m) # {}
  PROVE  /\ W!Clock(m).at \in 1..Len(m.ring)
         /\ m.ring[W!Clock(m).at] \in W!Resident(m)
         /\ \A v \in W!Resident(m) : UsedOf(m, m.ring[W!Clock(m).at]) <= UsedOf(m, v)
<1> DEFINE x == W!Clock(m)
           c0 == ClassOf(m, FALSE, FALSE)
           c1 == ClassOf(m, FALSE, TRUE)
           c2 == ClassOf(m, TRUE, FALSE)
           c3 == ClassOf(m, TRUE, TRUE)
<1>1. \A v \in W!Resident(m) : m.pte[v].A \in BOOLEAN /\ m.pte[v].D \in BOOLEAN
  BY DEF Good, SwapTypes, W!Resident
<1>2. \A v \in W!Resident(m) : v \in c0 \/ v \in c1 \/ v \in c2 \/ v \in c3
  BY <1>1, Zenon DEF ClassOf
<1>3. /\ \A v \in c0 : UsedOf(m, v) = 0
      /\ \A v \in c1 : UsedOf(m, v) = 1
      /\ \A v \in c2 : UsedOf(m, v) = 2
      /\ \A v \in c3 : UsedOf(m, v) = 3
  BY DEF ClassOf, UsedOf
<1>4. /\ c0 # {} => x.at = W!FirstOf(m, c0)
      /\ c0 = {} /\ c1 # {} => x.at = W!FirstOf(m, c1)
      /\ c0 = {} /\ c1 = {} /\ c2 # {} => x.at = W!FirstOf(m, c2)
      /\ c0 = {} /\ c1 = {} /\ c2 = {} => x.at = W!FirstOf(m, c3)
  BY DEF W!Clock, ClassOf
<1>5. c0 \subseteq W!Resident(m) /\ c1 \subseteq W!Resident(m) /\ c2 \subseteq W!Resident(m)
      /\ c3 \subseteq W!Resident(m)
  BY DEF ClassOf
<1> HIDE DEF x, c0, c1, c2, c3
<1>6. PICK c \in SUBSET W!Resident(m), u \in 0..3 :
        /\ c # {} /\ x.at = W!FirstOf(m, c) /\ \A v \in c : UsedOf(m, v) = u
        /\ \A v \in W!Resident(m) : u <= UsedOf(m, v)
  <2>1. CASE c0 # {}
    BY <1>2, <1>3, <1>4, <1>5, <2>1
  <2>2. CASE c0 = {} /\ c1 # {}
    BY <1>2, <1>3, <1>4, <1>5, <2>2
  <2>3. CASE c0 = {} /\ c1 = {} /\ c2 # {}
    BY <1>2, <1>3, <1>4, <1>5, <2>3
  <2>4. CASE c0 = {} /\ c1 = {} /\ c2 = {}
    BY <1>2, <1>3, <1>4, <1>5, <2>4
  <2>5. QED BY <2>1, <2>2, <2>3, <2>4
<1>7. x.at \in 1..Len(m.ring) /\ m.ring[x.at] \in c
  BY <1>6, FirstOfIn
<1>8. QED BY <1>6, <1>7 DEF x

\* Every manager finds a page in memory; the clock one of the least used.
LEMMA VictimIn ==
  ASSUME NEW m, Good(m), W!Resident(m) # {}, sm \in W!Managers
  PROVE  /\ W!Victim(m).at \in 1..Len(m.ring)
         /\ m.ring[W!Victim(m).at] \in W!Resident(m)
         /\ sm = "clock" => \A v \in W!Resident(m) : UsedOf(m, m.ring[W!Victim(m).at]) <= UsedOf(m, v)
<1>0. Len(m.ring) \in Nat /\ \A i \in 1..Len(m.ring) : m.ring[i] \in W!Resident(m)
  BY DEF Good, SwapTypes, SwapPlaces
<1>1. CASE sm = "fifo"
  <2>1. W!Victim(m).at = 1
    BY <1>1 DEF W!Victim
  <2>2. 1 \in 1..Len(m.ring)
    BY <1>0 DEF Good, SwapPlaces
  <2>3. QED BY <1>0, <1>1, <2>1, <2>2
<1>2. CASE sm = "lru"
  <2> DEFINE first(v) == m.frame[m.pte[v].frame]
             I == {first(v) : v \in W!Resident(m)}
             S == {v \in W!Resident(m) : \A w \in W!Resident(m) : first(v) <= first(w)}
  <2>1. W!Victim(m).at = W!FirstOf(m, S)
    BY <1>2 DEF W!Victim, W!Lru
  <2>2. \A v \in W!Resident(m) : first(v) \in Nat
    BY DEF Good, SwapTypes, SwapPlaces
  <2>3. I \subseteq Nat /\ I # {}
    BY <2>2
  <2>4. Min(I) \in I /\ \A b \in I : Min(I) <= b
    BY <2>3, MinIn
  <2>5. PICK v \in W!Resident(m) : first(v) = Min(I)
    BY <2>4
  <2>6. v \in S
    BY <2>4, <2>5
  <2>7. S \in SUBSET W!Resident(m) /\ S # {}
    BY <2>6
  <2> HIDE DEF S, I
  <2>8. W!FirstOf(m, S) \in 1..Len(m.ring) /\ m.ring[W!FirstOf(m, S)] \in S
    BY <2>7, FirstOfIn
  <2>9. QED BY <1>2, <2>1, <2>7, <2>8
<1>3. CASE sm = "clock"
  <2>1. W!Victim(m) = W!Clock(m)
    BY <1>3 DEF W!Victim
  <2>2. QED BY <2>1, ClockFinds
<1>4. QED BY <1>1, <1>2, <1>3 DEF W!Managers

\* n has the contents of m, and no page less
Keeps(m, n) ==
  \A w \in W!VPage : m.pte[w].kind # "none" => n.pte[w].kind # "none" /\ Cont(n, w) = Cont(m, w)

\* swap_out moves one page to the disk and makes its frame free.
LEMMA SwapOutGood ==
  ASSUME NEW m, Good(m), W!Resident(m) # {}, sm \in W!Managers
  PROVE  LET n == W!SwapOut(m)
             v == m.ring[W!Victim(m).at]
         IN /\ Good(n) /\ Keeps(m, n)
            /\ v \in W!Resident(m) /\ W!Resident(n) = W!Resident(m) \ {v}
            /\ \A w \in W!VPage : n.pte[w].kind = "none" <=> m.pte[w].kind = "none"
            /\ m.pte[v].frame \in W!FreeFrames(n)
<1> DEFINE n == W!SwapOut(m)
           i == W!Victim(m).at
           v == m.ring[i]
           Pte == [kind : {"none", "page", "swap"}, frame : Nat, A : BOOLEAN, D : BOOLEAN]
           p == [w \in W!VPage |-> IF w = v THEN W!Swapped
                                   ELSE [m.pte[w] EXCEPT !.A = @ /\ w \notin W!Victim(m).passed]]
           d == [m.disk EXCEPT ![v] = m.frame[m.pte[v].frame]]
           r == W!RingAfter(m.ring, i)
<1>0. SwapTypes(m) /\ SwapPlaces(m)
  BY DEF Good
<1>1. i \in 1..Len(m.ring) /\ v \in W!Resident(m) /\ v \in W!VPage
  BY VictimIn DEF W!Resident
<1>2. n = [pte |-> p, frame |-> m.frame, disk |-> d, ring |-> r]
  <2>1. n = [m EXCEPT !.disk[v] = m.frame[m.pte[v].frame], !.pte = p, !.ring = r]
    BY Zenon DEF W!SwapOut
  <2> HIDE DEF n, p, r, v
  <2>2. m = [pte |-> m.pte, frame |-> m.frame, disk |-> m.disk, ring |-> m.ring]
    BY <1>0 DEF SwapTypes
  <2>3. QED BY <2>1, <2>2
<1>3. /\ p \in [W!VPage -> Pte]
      /\ p[v].kind = "swap"
      /\ \A w \in W!VPage : w # v => p[w].kind = m.pte[w].kind /\ p[w].frame = m.pte[w].frame
  <2>1. p[v] = W!Swapped /\ W!Swapped \in Pte /\ W!Swapped.kind = "swap"
    BY <1>1 DEF W!Swapped, W!Unmapped
  <2>2. ASSUME NEW w \in W!VPage, w # v
        PROVE  p[w] \in Pte /\ p[w].kind = m.pte[w].kind /\ p[w].frame = m.pte[w].frame
    <3>1. m.pte[w] \in Pte
      BY <1>0 DEF SwapTypes
    <3>2. PICK b \in BOOLEAN : b = (m.pte[w].A /\ w \notin W!Victim(m).passed)
      BY Zenon
    <3>3. p[w] = [m.pte[w] EXCEPT !.A = b]
      BY <2>2, <3>2, Zenon
    <3> HIDE DEF p
    <3>4. QED BY <3>1, <3>3
  <2> HIDE DEF Pte
  <2>3. \A w \in W!VPage : p[w] \in Pte
    BY <2>1, <2>2
  <2>4. QED BY <2>1, <2>2, <2>3
<1>4. Loses(r, m.ring, i, W!VPage)
  BY <1>0, <1>1, RingAfterLoses DEF SwapTypes, SwapPlaces
<1>5. d \in [W!VPage -> Nat] /\ d[v] = m.frame[m.pte[v].frame] /\ \A w \in W!VPage : w # v => d[w] = m.disk[w]
  <2>1. m.frame[m.pte[v].frame] \in Nat
    BY <1>0, <1>1 DEF SwapTypes, SwapPlaces
  <2>2. QED BY <1>0, <1>1, <2>1 DEF SwapTypes
<1> HIDE DEF p, d, r, n, i, v
<1>6. W!Resident(n) = W!Resident(m) \ {v}
  BY <1>1, <1>2, <1>3 DEF W!Resident
<1>7. SwapTypes(n)
  BY <1>0, <1>2, <1>3, <1>4, <1>5 DEF SwapTypes, Loses
<1>8. SwapPlaces(n)
  <2>1. \A w \in W!Resident(n) : w \in W!Resident(m) /\ w \in W!VPage /\ w # v /\ n.pte[w].frame = m.pte[w].frame
    BY <1>2, <1>3, <1>6 DEF W!Resident
  <2>2. \A x : (\E j \in 1..Len(r) : r[j] = x) <=> (x # v /\ \E j \in 1..Len(m.ring) : m.ring[j] = x)
    BY <1>4, Zenon DEF Loses, v
  <2>3. /\ \A j \in 1..Len(m.ring) : m.ring[j] \in W!Resident(m)
        /\ \A w \in W!Resident(m) : \E j \in 1..Len(m.ring) : m.ring[j] = w
    BY <1>0 DEF SwapPlaces
  <2>4. \A j \in 1..Len(r) : r[j] \in W!Resident(n)
    <3> SUFFICES ASSUME NEW j \in 1..Len(r) PROVE r[j] \in W!Resident(n)
      OBVIOUS
    <3>1. r[j] # v /\ \E k \in 1..Len(m.ring) : m.ring[k] = r[j]
      BY <2>2
    <3>2. QED BY <1>6, <2>3, <3>1
  <2>5. \A w \in W!Resident(n) : \E j \in 1..Len(r) : r[j] = w
    BY <2>1, <2>2, <2>3
  <2>6. n.ring = r /\ Once(r)
    BY <1>2, <1>4 DEF Loses
  <2>7. QED BY <1>0, <2>1, <2>4, <2>5, <2>6 DEF SwapPlaces
<1>9. Keeps(m, n)
  <2> SUFFICES ASSUME NEW w \in W!VPage, m.pte[w].kind # "none"
               PROVE  n.pte[w].kind # "none" /\ Cont(n, w) = Cont(m, w)
    BY DEF Keeps
  <2>1. n.pte = p /\ n.disk = d /\ n.frame = m.frame
    BY <1>2
  <2>2. m.pte[v].kind = "page"
    BY <1>1 DEF W!Resident
  <2>3. CASE w = v
    BY <1>3, <1>5, <2>1, <2>2, <2>3 DEF Cont
  <2>4. CASE w # v
    BY <1>3, <1>5, <2>1, <2>4 DEF Cont
  <2>5. QED BY <2>3, <2>4
<1>10. \A w \in W!VPage : n.pte[w].kind = "none" <=> m.pte[w].kind = "none"
  BY <1>1, <1>2, <1>3 DEF W!Resident
<1>11. m.pte[v].frame \in W!FreeFrames(n)
  <2>1. \A w \in W!Resident(n) : n.pte[w].frame # m.pte[v].frame
    BY <1>0, <1>1, <1>2, <1>3, <1>6 DEF SwapPlaces, W!Resident
  <2>2. QED BY <1>0, <1>1, <2>1 DEF SwapPlaces, W!FreeFrames
<1>12. QED BY <1>1, <1>6, <1>7, <1>8, <1>9, <1>10, <1>11 DEF Good, n, v, i

\* do_pgfault brings a page into a free frame, with what it had on the disk.
LEMMA LoadGood ==
  ASSUME NEW m, Good(m), NEW v \in W!VPage, v \notin W!Resident(m), NEW f \in W!FreeFrames(m)
  PROVE  LET n == W!Load(m, v, f)
         IN /\ Good(n) /\ Keeps(m, n) /\ W!Resident(n) = W!Resident(m) \cup {v}
<1> DEFINE n == W!Load(m, v, f)
           Pte == [kind : {"none", "page", "swap"}, frame : Nat, A : BOOLEAN, D : BOOLEAN]
           e == [kind |-> "page", frame |-> f, A |-> FALSE, D |-> FALSE]
           p == [m.pte EXCEPT ![v] = e]
           d == [m.disk EXCEPT ![v] = 0]
           b == IF m.pte[v].kind = "swap" THEN m.disk[v] ELSE m.frame[f]
           g == [m.frame EXCEPT ![f] = b]
           r == Append(m.ring, v)
<1>0. SwapTypes(m) /\ SwapPlaces(m)
  BY DEF Good
<1>1. f \in W!Frame /\ f \in Nat /\ \A w \in W!Resident(m) : m.pte[w].frame # f
  BY DEF W!FreeFrames, W!Frame
<1>2. n = [pte |-> p, frame |-> g, disk |-> d, ring |-> r]
  <2>1. n = [m EXCEPT !.frame[f] = b, !.disk[v] = 0, !.pte[v] = e, !.ring = r]
    BY Zenon DEF W!Load
  <2> HIDE DEF n, b, e, r
  <2>2. m = [pte |-> m.pte, frame |-> m.frame, disk |-> m.disk, ring |-> m.ring]
    BY <1>0 DEF SwapTypes
  <2>3. QED BY <2>1, <2>2
<1>3. /\ e \in Pte /\ p \in [W!VPage -> Pte] /\ p[v] = e /\ e.kind = "page" /\ e.frame = f
      /\ \A w \in W!VPage : w # v => p[w] = m.pte[w]
  <2>1. e \in Pte /\ e.kind = "page" /\ e.frame = f
    BY <1>1
  <2>2. m.pte \in [W!VPage -> Pte]
    BY <1>0 DEF SwapTypes
  <2> HIDE DEF e, Pte
  <2>3. QED BY <2>1, <2>2
<1>4. /\ g \in [W!Frame -> Nat] /\ g[f] = b /\ \A h \in W!Frame : h # f => g[h] = m.frame[h]
      /\ d \in [W!VPage -> Nat] /\ \A w \in W!VPage : w # v => d[w] = m.disk[w]
  <2>1. b \in Nat
    BY <1>0, <1>1 DEF SwapTypes
  <2> HIDE DEF b
  <2>2. QED BY <1>0, <1>1, <2>1 DEF SwapTypes
<1>5. /\ r \in Seq(W!VPage) /\ Len(r) = Len(m.ring) + 1 /\ Len(m.ring) \in Nat
      /\ \A j \in 1..Len(m.ring) : r[j] = m.ring[j]
      /\ r[Len(m.ring) + 1] = v
  BY <1>0 DEF SwapTypes
<1> HIDE DEF p, d, g, r, n, e, Pte
<1>6. W!Resident(n) = W!Resident(m) \cup {v}
  BY <1>2, <1>3 DEF W!Resident
<1>7. SwapTypes(n)
  BY <1>0, <1>2, <1>3, <1>4, <1>5 DEF SwapTypes, Pte
<1>8. /\ \A w \in W!Resident(m) : w \in W!VPage /\ w # v /\ n.pte[w].frame = m.pte[w].frame
      /\ n.pte[v].frame = f
  BY <1>2, <1>3 DEF W!Resident
<1>9. SwapPlaces(n)
  <2>1. n.ring = r
    BY <1>2
  <2>2. \A w \in W!Resident(n) : n.pte[w].frame \in W!Frame
    BY <1>0, <1>1, <1>6, <1>8 DEF SwapPlaces
  <2>3. \A w, u \in W!Resident(n) : n.pte[w].frame = n.pte[u].frame => w = u
    BY <1>0, <1>1, <1>6, <1>8 DEF SwapPlaces
  <2>4. /\ \A j \in 1..Len(m.ring) : m.ring[j] \in W!Resident(m)
        /\ \A w \in W!Resident(m) : \E j \in 1..Len(m.ring) : m.ring[j] = w
        /\ Once(m.ring)
    BY <1>0 DEF SwapPlaces
  <2>5. \A j \in 1..Len(r) : r[j] \in W!Resident(n)
    BY <1>5, <1>6, <2>4
  <2>6. \A w \in W!Resident(n) : \E j \in 1..Len(r) : r[j] = w
    <3>1. Len(m.ring) + 1 \in 1..Len(r) /\ \A j \in 1..Len(m.ring) : j \in 1..Len(r)
      BY <1>5
    <3>2. QED BY <1>5, <1>6, <2>4, <3>1
  <2>7. Once(r)
    <3>1. \A j \in 1..Len(m.ring) : r[j] # v
      BY <1>5, <2>4
    <3>2. \A j, k \in 1..Len(m.ring) : r[j] = r[k] => j = k
      BY <1>5, <2>4 DEF Once
    <3>3. \A j \in 1..Len(r) : j \in 1..Len(m.ring) \/ j = Len(m.ring) + 1
      BY <1>5
    <3>4. QED BY <1>5, <3>1, <3>2, <3>3 DEF Once
  <2>8. QED BY <2>1, <2>2, <2>3, <2>5, <2>6, <2>7 DEF SwapPlaces
<1>10. Keeps(m, n)
  <2> SUFFICES ASSUME NEW w \in W!VPage, m.pte[w].kind # "none"
               PROVE  n.pte[w].kind # "none" /\ Cont(n, w) = Cont(m, w)
    BY DEF Keeps
  <2>1. n.pte = p /\ n.disk = d /\ n.frame = g
    BY <1>2
  <2>2. m.pte[w].kind \in {"none", "page", "swap"}
    BY <1>0 DEF SwapTypes
  <2>3. CASE w = v
    <3>1. m.pte[v].kind = "swap"
      BY <2>2, <2>3 DEF W!Resident
    <3>2. b = m.disk[v]
      BY <3>1
    <3>3. QED BY <1>3, <1>4, <2>1, <2>3, <3>1, <3>2 DEF Cont
  <2>4. CASE w # v /\ m.pte[w].kind = "page"
    <3>1. w \in W!Resident(m) /\ m.pte[w].frame \in W!Frame /\ m.pte[w].frame # f
      BY <1>0, <1>1, <2>4 DEF W!Resident, SwapPlaces
    <3>2. QED BY <1>3, <1>4, <2>1, <2>4, <3>1 DEF Cont
  <2>5. CASE w # v /\ m.pte[w].kind # "page"
    BY <1>3, <1>4, <2>1, <2>5 DEF Cont
  <2>6. QED BY <2>3, <2>4, <2>5
<1>11. QED BY <1>6, <1>7, <1>9, <1>10 DEF Good, n

\* An access finds the page in memory, the contents of all pages are as before, and
\* only a victim of the manager is gone.
LEMMA FaultedGood ==
  ASSUME Good(s_mm), sm \in W!Managers, NEW v \in W!VPage
  PROVE  LET n == W!Faulted(v)
         IN /\ Good(n) /\ Keeps(s_mm, n) /\ v \in W!Resident(n)
            /\ W!Resident(s_mm) \subseteq W!Resident(n)
               \/ /\ W!Resident(s_mm) # {}
                  /\ W!Resident(s_mm) \ {s_mm.ring[W!Victim(s_mm).at]} \subseteq W!Resident(n)
<1> DEFINE n == W!Faulted(v)
<1>1. CASE v \in W!Resident(s_mm)
  <2>1. n = s_mm
    BY <1>1 DEF W!Faulted
  <2>2. QED BY <1>1, <2>1 DEF Keeps
<1>2. CASE v \notin W!Resident(s_mm)
  <2> DEFINE m == W!WithFrame(s_mm)
             f == W!Min(W!FreeFrames(m))
  <2>1. n = W!Load(m, v, f)
    BY <1>2 DEF W!Faulted
  <2>2. /\ Good(m) /\ Keeps(s_mm, m) /\ v \notin W!Resident(m) /\ W!FreeFrames(m) # {}
        /\ W!Resident(s_mm) \subseteq W!Resident(m)
           \/ /\ W!Resident(s_mm) # {}
              /\ W!Resident(s_mm) \ {s_mm.ring[W!Victim(s_mm).at]} \subseteq W!Resident(m)
    <3>1. CASE W!FreeFrames(s_mm) # {}
      <4>1. m = s_mm
        BY <3>1 DEF W!WithFrame
      <4>2. QED BY <1>2, <3>1, <4>1 DEF Keeps
    <3>2. CASE W!FreeFrames(s_mm) = {}
      <4>1. m = W!SwapOut(s_mm)
        BY <3>2 DEF W!WithFrame
      <4>2. 1 \in W!Frame
        BY PartsAssumption DEF W!SwapAssumption, W!Frame
      <4>3. W!Resident(s_mm) # {}
        BY <3>2, <4>2 DEF W!FreeFrames
      <4> HIDE DEF m
      <4>4. QED BY <1>2, <4>1, <4>3, SwapOutGood
    <3>3. QED BY <3>1, <3>2
  <2> HIDE DEF m
  <2>3. f \in W!FreeFrames(m)
    <3>1. W!FreeFrames(m) \subseteq Nat
      BY DEF W!FreeFrames, W!Frame
    <3>2. f = Min(W!FreeFrames(m))
      BY DEF W!Min, Min
    <3>3. QED BY <2>2, <3>1, <3>2, MinIn
  <2> HIDE DEF f, n
  <2>4. Good(n) /\ Keeps(m, n) /\ W!Resident(n) = W!Resident(m) \cup {v}
    BY <2>1, <2>2, <2>3, LoadGood
  <2>5. Keeps(s_mm, n)
    BY <2>2, <2>4 DEF Keeps
  <2>6. QED BY <2>2, <2>4, <2>5 DEF n
<1>3. QED BY <1>1, <1>2

PteType == [kind : {"none", "page", "swap"}, frame : Nat, A : BOOLEAN, D : BOOLEAN]

\* The bits of a page and the bytes of a frame move nothing.
LEMMA TouchGood ==
  ASSUME NEW m, Good(m), NEW p \in [W!VPage -> PteType], NEW g \in [W!Frame -> Nat],
         \A w \in W!VPage : p[w].kind = m.pte[w].kind /\ p[w].frame = m.pte[w].frame
  PROVE  LET n == [pte |-> p, frame |-> g, disk |-> m.disk, ring |-> m.ring]
         IN Good(n) /\ W!Resident(n) = W!Resident(m)
<1> DEFINE n == [pte |-> p, frame |-> g, disk |-> m.disk, ring |-> m.ring]
<1>1. n.pte = p /\ n.frame = g /\ n.disk = m.disk /\ n.ring = m.ring
  OBVIOUS
<1>2. SwapTypes(n)
  BY DEF Good, SwapTypes, PteType
<1> HIDE DEF n
<1>3. W!Resident(n) = W!Resident(m)
  BY <1>1 DEF W!Resident
<1>4. \A w \in W!Resident(n) : w \in W!VPage
  BY DEF W!Resident
<1>5. SwapPlaces(n)
  BY <1>1, <1>3, <1>4 DEF Good, SwapPlaces
<1>6. QED BY <1>2, <1>3, <1>5 DEF Good, n

\* An access of page v that leaves b in it.
LEMMA ReadKeeps ==
  ASSUME SwapInv, NEW v \in W!VPage, W!Read(v)
  PROVE  SwapInv' /\ W!Resident(s_mm') = W!Resident(W!Faulted(v))
<1> DEFINE m == W!Faulted(v)
           p == [m.pte EXCEPT ![v].A = TRUE]
           n == [pte |-> p, frame |-> m.frame, disk |-> m.disk, ring |-> m.ring]
<1>1. Good(m) /\ Keeps(s_mm, m) /\ v \in W!Resident(m)
  BY FaultedGood DEF SwapInv
<1>2. s_mm' = [m EXCEPT !.pte[v].A = TRUE] /\ UNCHANGED <<sm, last>>
  BY DEF W!Read
<1> HIDE DEF m
<1>3. /\ m = [pte |-> m.pte, frame |-> m.frame, disk |-> m.disk, ring |-> m.ring]
      /\ m.pte \in [W!VPage -> PteType] /\ m.frame \in [W!Frame -> Nat]
  BY <1>1 DEF Good, SwapTypes, PteType
<1>4. s_mm' = n
  BY <1>2, <1>3
<1>5. /\ p \in [W!VPage -> PteType]
      /\ \A w \in W!VPage : p[w].kind = m.pte[w].kind /\ p[w].frame = m.pte[w].frame
  BY <1>3 DEF PteType
<1>6. n.pte = p /\ n.frame = m.frame /\ n.disk = m.disk
  OBVIOUS
<1> HIDE DEF p
<1>7. Good(n) /\ W!Resident(n) = W!Resident(m)
  BY <1>1, <1>3, <1>5, TouchGood
<1> HIDE DEF n
<1>8. Keeps(m, n)
  BY <1>5, <1>6 DEF Keeps, Cont
<1>9. \A w \in W!VPage : last'[w] # -1 => n.pte[w].kind # "none" /\ Cont(n, w) = last'[w]
  BY <1>1, <1>2, <1>8 DEF Keeps, SwapInv
<1>10. SwapInv'
  BY <1>2, <1>4, <1>7, <1>9 DEF SwapInv
<1>11. QED BY <1>4, <1>7, <1>10 DEF m

LEMMA WriteKeeps ==
  ASSUME SwapInv, NEW v \in W!VPage, NEW b \in Byte, W!Write(v, b)
  PROVE  SwapInv' /\ W!Resident(s_mm') = W!Resident(W!Faulted(v))
<1> DEFINE m == W!Faulted(v)
           f == m.pte[v].frame
           p == [m.pte EXCEPT ![v] = [m.pte[v] EXCEPT !.A = TRUE, !.D = TRUE]]
           g == [m.frame EXCEPT ![f] = b]
           n == [pte |-> p, frame |-> g, disk |-> m.disk, ring |-> m.ring]
<1>1. Good(m) /\ Keeps(s_mm, m) /\ v \in W!Resident(m)
  BY FaultedGood DEF SwapInv
<1>2. /\ s_mm' = [m EXCEPT !.pte[v].A = TRUE, !.pte[v].D = TRUE, !.frame[f] = b]
      /\ last' = [last EXCEPT ![v] = b] /\ UNCHANGED sm
  BY DEF W!Write
<1>b. b \in Nat
  BY PartsAssumption DEF W!SwapAssumption
<1> HIDE DEF m
<1>3. /\ m = [pte |-> m.pte, frame |-> m.frame, disk |-> m.disk, ring |-> m.ring]
      /\ m.pte \in [W!VPage -> PteType] /\ m.frame \in [W!Frame -> Nat]
  BY <1>1 DEF Good, SwapTypes, PteType
<1>4. s_mm' = n
  BY <1>2, <1>3 DEF PteType
<1>5. /\ p \in [W!VPage -> PteType]
      /\ \A w \in W!VPage : p[w].kind = m.pte[w].kind /\ p[w].frame = m.pte[w].frame
  BY <1>3 DEF PteType
<1>6. n.pte = p /\ n.frame = g /\ n.disk = m.disk
  OBVIOUS
<1>7. f \in W!Frame /\ g \in [W!Frame -> Nat] /\ g[f] = b /\ \A h \in W!Frame : h # f => g[h] = m.frame[h]
  BY <1>b, <1>1, <1>3 DEF Good, SwapPlaces
<1> HIDE DEF p, g
<1>8. Good(n) /\ W!Resident(n) = W!Resident(m)
  BY <1>1, <1>5, <1>7, TouchGood
<1> HIDE DEF n
<1>9. Cont(n, v) = b /\ n.pte[v].kind # "none"
  BY <1>1, <1>5, <1>6, <1>7 DEF Cont, W!Resident
<1>10. ASSUME NEW w \in W!VPage, w # v, m.pte[w].kind # "none"
       PROVE  n.pte[w].kind # "none" /\ Cont(n, w) = Cont(m, w)
  <2>1. CASE m.pte[w].kind = "page"
    <3>1. m.pte[w].frame \in W!Frame /\ m.pte[w].frame # f
      BY <1>1, <1>10, <2>1 DEF Good, SwapPlaces, W!Resident
    <3>2. QED BY <1>5, <1>6, <1>7, <2>1, <3>1 DEF Cont
  <2>2. CASE m.pte[w].kind # "page"
    BY <1>5, <1>6, <1>10, <2>2 DEF Cont
  <2>3. QED BY <2>1, <2>2
<1>11. last' \in [W!VPage -> Nat \cup {-1}]
  BY <1>b, <1>2 DEF SwapInv
<1>12. \A w \in W!VPage : last'[w] # -1 => n.pte[w].kind # "none" /\ Cont(n, w) = last'[w]
  <2> SUFFICES ASSUME NEW w \in W!VPage, last'[w] # -1
               PROVE  n.pte[w].kind # "none" /\ Cont(n, w) = last'[w]
    OBVIOUS
  <2>1. CASE w = v
    BY <1>2, <1>9, <2>1 DEF SwapInv
  <2>2. CASE w # v
    <3>1. last'[w] = last[w]
      BY <1>2, <2>2 DEF SwapInv
    <3>2. QED BY <1>1, <1>10, <2>2, <3>1 DEF SwapInv, Keeps
  <2>3. QED BY <2>1, <2>2
<1>13. SwapInv'
  BY <1>2, <1>4, <1>8, <1>11, <1>12 DEF SwapInv
<1>14. QED BY <1>4, <1>8, <1>13 DEF m

\* A step of page replacement keeps the invariant, and a clock takes a page that is
\* used least.
LEMMA SwapStep ==
  ASSUME SwapInv, W!Next
  PROVE  /\ SwapInv'
         /\ sm = "clock" => \A v \in W!Resident(s_mm) \ W!Resident(s_mm'), w \in W!Resident(s_mm) :
                              UsedOf(s_mm, v) <= UsedOf(s_mm, w)
<1>1. PICK v \in W!VPage : W!Read(v) \/ \E b \in Byte : W!Write(v, b)
  BY DEF W!Next
<1>2. SwapInv' /\ W!Resident(s_mm') = W!Resident(W!Faulted(v))
  BY <1>1, ReadKeeps, WriteKeeps
<1>3. \/ W!Resident(s_mm) \subseteq W!Resident(W!Faulted(v))
      \/ /\ W!Resident(s_mm) # {}
         /\ W!Resident(s_mm) \ {s_mm.ring[W!Victim(s_mm).at]} \subseteq W!Resident(W!Faulted(v))
  BY FaultedGood DEF SwapInv
<1>4. ASSUME W!Resident(s_mm) # {}, sm = "clock"
      PROVE  \A w \in W!Resident(s_mm) : UsedOf(s_mm, s_mm.ring[W!Victim(s_mm).at]) <= UsedOf(s_mm, w)
  BY <1>4, VictimIn DEF SwapInv
<1>5. QED BY <1>2, <1>3, <1>4

LEMMA SwapInit == PartsInit => SwapInv
<1> SUFFICES ASSUME W!Init PROVE SwapInv
  BY DEF PartsInit
<1>1. /\ s_mm.pte = [v \in W!VPage |-> W!Unmapped]
      /\ s_mm.frame = [f \in W!Frame |-> 0] /\ s_mm.disk = [v \in W!VPage |-> 0]
      /\ s_mm.ring = <<>>
      /\ s_mm = [pte |-> s_mm.pte, frame |-> s_mm.frame, disk |-> s_mm.disk, ring |-> s_mm.ring]
  BY DEF W!Init
<1>2. W!Resident(s_mm) = {}
  BY <1>1 DEF W!Resident, W!Unmapped
<1>3. SwapTypes(s_mm)
  BY <1>1 DEF SwapTypes, W!Unmapped
<1>4. SwapPlaces(s_mm)
  BY <1>1, <1>2 DEF SwapPlaces, Once
<1>5. last = [v \in W!VPage |-> -1] /\ sm \in W!Managers
  BY DEF W!Init
<1>6. QED BY <1>3, <1>4, <1>5 DEF SwapInv, Good

LEMMA SwapInvHolds == PartsSpec => []SwapInv
<1>1. SwapInv /\ [PartsNext]_partsVars => SwapInv'
  <2>1. SwapInv /\ W!Next => SwapInv'
    BY SwapStep
  <2>2. SwapInv /\ UNCHANGED swap => SwapInv'
    BY DEF swap, SwapInv
  <2>3. [PartsNext]_partsVars => W!Next \/ UNCHANGED swap
    BY DEF PartsNext, partsVars, Numbers
  <2>4. QED BY <2>1, <2>2, <2>3
<1>2. QED BY <1>1, SwapInit, PTL DEF PartsSpec

\* Pages read as they were written, and every page in memory has a frame of its own and
\* one place in the manager's list: for every number of pages and frames, and for the
\* three managers.
THEOREM SwapCorrect == PartsSpec => []SwapReadsBack
<1>1. SwapInv => SwapReadsBack
  <2> SUFFICES ASSUME SwapInv PROVE W!ReadsBack /\ W!FramesExact
    BY DEF SwapReadsBack
  <2>1. W!ReadsBack
    BY DEF SwapInv, W!ReadsBack, W!Content, Cont
  <2> DEFINE R == W!Resident(s_mm)
             q == s_mm.ring
  <2>2. /\ q \in Seq(W!VPage) /\ Once(q) /\ \A i \in 1..Len(q) : q[i] \in R
        /\ \A v \in R : \E i \in 1..Len(q) : q[i] = v
        /\ \A v, w \in R : s_mm.pte[v].frame = s_mm.pte[w].frame => v = w
    BY DEF SwapInv, Good, SwapTypes, SwapPlaces
  <2>3. DOMAIN q = 1..Len(q) /\ Len(q) \in Nat
    BY <2>2
  <2>4. R = W!Range(q)
    BY <2>2, <2>3 DEF W!Range
  <2>5. Len(q) = Cardinality(R)
    <3> DEFINE b == [i \in 1..Len(q) |-> q[i]]
    <3> HIDE DEF R, q
    <3>1. b \in Bijection(1..Len(q), R)
      BY <2>2 DEF Bijection, Injection, Surjection, IsInjective, Once
    <3>2. ExistsBijection(1..Len(q), R)
      BY <3>1 DEF ExistsBijection
    <3>3. QED BY <2>3, <3>2, FS_CountingElements
  <2>6. W!Cardinality(R) = Cardinality(R)
    BY Zenon DEF W!Cardinality, Cardinality
  <2>7. QED BY <2>1, <2>2, <2>4, <2>5, <2>6 DEF W!FramesExact
<1>2. QED BY <1>1, SwapInvHolds, PTL

\* The page that the clock takes is one of the least used.
THEOREM ClockCorrect == PartsSpec => EvictsLeastUsed
<1>1. SwapInv /\ [PartsNext]_partsVars
        => [sm = "clock" => \A v \in W!Resident(s_mm) \ W!Resident(s_mm'), w \in W!Resident(s_mm) :
                              W!Used(v) <= W!Used(w)]_<<sm, s_mm, last>>
  <2> SUFFICES ASSUME SwapInv, W!Next, sm = "clock",
                      NEW v \in W!Resident(s_mm) \ W!Resident(s_mm'), NEW w \in W!Resident(s_mm)
               PROVE  W!Used(v) <= W!Used(w)
    BY DEF PartsNext, partsVars, Numbers, swap
  <2>1. \A x : W!Used(x) = UsedOf(s_mm, x)
    BY DEF W!Used, UsedOf
  <2>2. QED BY <2>1, SwapStep
<1>2. QED BY <1>1, SwapInvHolds, PTL DEF PartsSpec, EvictsLeastUsed, W!EvictsLeastUsed, W!vars

------------------------------------------------------------------------------
(* The allocator of pages.  The free list is in the order of the addresses, the  *)
(* blocks on it neither overlap nor touch, and their pages are those that nobody *)
(* holds: this is what the searches and the merges rely on and restore.          *)

Links2 == [next : [P!Node -> P!Node], prev : [P!Node -> P!Node]]

\* a list of the pages F in their order
ListOf(l, F) ==
  /\ l \in Links2 /\ F \in SUBSET P!Page
  /\ Linked(NPages, l.next, l.prev, F)

LEMMA PageNumbers ==
  /\ NPages \in Nat /\ NPages >= 1 /\ P!Head = NPages
  /\ MaxRequest \in Nat /\ MaxRequest <= NPages
  /\ P!Page = 0..NPages - 1 /\ P!Node = 0..NPages /\ P!Node = P!Page \cup {NPages}
  /\ NULL \notin P!Page
BY PartsAssumption DEF P!PmmAssumption, P!Head, P!Page, P!Node

LEMMA BetweenList ==
  ASSUME NEW l, NEW F, ListOf(l, F), NEW e \in P!Page, e \notin F,
         NEW at \in F \cup {NPages}, NEW y, y = l.next[at],
         at = NPages \/ at < e, e < y
  PROVE  ListOf(P!Between(l, e, at, y), F \cup {e})
<1> DEFINE nx == [l.next EXCEPT ![at] = e, ![e] = y]
           pv == [l.prev EXCEPT ![y] = e, ![e] = at]
           n == [next |-> nx, prev |-> pv]
<1>a. /\ l.next \in [P!Node -> P!Node] /\ l.prev \in [P!Node -> P!Node]
      /\ F \in SUBSET P!Page
  BY DEF ListOf, Links2
<1>b. /\ F \in SUBSET (0..NPages - 1) /\ e \in 0..NPages - 1 /\ NPages \in Nat
  BY <1>a, PageNumbers
<1>c. e # NPages /\ at # e
  BY <1>b
<1>d. F \cup {NPages} \subseteq P!Node /\ e \in P!Node
  BY <1>a, PageNumbers
<1>0. /\ l.next \in [P!Node -> P!Node] /\ l.prev \in [P!Node -> P!Node]
      /\ F \cup {NPages} \subseteq P!Node /\ e \in P!Node /\ e # NPages /\ at # e
      /\ F \in SUBSET (0..NPages - 1) /\ F \in SUBSET P!Page /\ e \in 0..NPages - 1 /\ NPages \in Nat
  BY <1>a, <1>b, <1>c, <1>d
<1>1. y \in F \cup {NPages} /\ y # e
  BY <1>0 DEF ListOf, Linked
<1>2. P!Between(l, e, at, y) = n
  BY DEF P!Between
<1>3. /\ nx \in [P!Node -> P!Node] /\ nx[at] = e /\ nx[e] = y
      /\ \A x \in F \cup {NPages} : x # at => nx[x] = l.next[x]
      /\ pv \in [P!Node -> P!Node] /\ pv[y] = e /\ pv[e] = at
      /\ \A x \in F \cup {NPages} : x # y => pv[x] = l.prev[x]
  BY <1>0, <1>1
<1>4. n.next = nx /\ n.prev = pv /\ n \in Links2
  BY <1>3 DEF Links2
<1> HIDE DEF n, nx, pv
<1>5. Linked(NPages, l.next, l.prev, F)
  BY DEF ListOf
<1>6. Linked(NPages, nx, pv, F \cup {e})
  BY <1>0, <1>3, <1>5, AddLinked
<1>7. QED BY <1>0, <1>2, <1>4, <1>6 DEF ListOf

LEMMA DelList ==
  ASSUME NEW l, NEW F, ListOf(l, F), NEW e \in F
  PROVE  /\ ListOf(P!ListDel(l, e), F \ {e})
         /\ l.prev[e] \in (F \ {e}) \cup {NPages} /\ (l.prev[e] = NPages \/ l.prev[e] < e)
         /\ P!ListDel(l, e).next[l.prev[e]] = l.next[e] /\ e < l.next[e]
<1> DEFINE at == l.prev[e]
           y == l.next[e]
           nx == [l.next EXCEPT ![at] = y]
           pv == [l.prev EXCEPT ![y] = at]
           n == [next |-> nx, prev |-> pv]
<1>a. /\ l.next \in [P!Node -> P!Node] /\ l.prev \in [P!Node -> P!Node]
      /\ F \in SUBSET P!Page
  BY DEF ListOf, Links2
<1>b. F \in SUBSET (0..NPages - 1) /\ NPages \in Nat
  BY <1>a, PageNumbers
<1>c. e # NPages /\ e \in Nat
  BY <1>b
<1>d. F \cup {NPages} \subseteq P!Node /\ e \in P!Node
  BY <1>a, PageNumbers
<1>0. /\ l.next \in [P!Node -> P!Node] /\ l.prev \in [P!Node -> P!Node]
      /\ F \cup {NPages} \subseteq P!Node /\ e \in P!Node /\ e # NPages
      /\ F \in SUBSET (0..NPages - 1) /\ F \in SUBSET P!Page /\ NPages \in Nat /\ e \in Nat
  BY <1>a, <1>b, <1>c, <1>d
<1>1. /\ at \in F \cup {NPages} /\ y \in F \cup {NPages} /\ l.next[at] = e
      /\ e < y /\ (at = NPages \/ at < l.next[at])
  BY <1>0 DEF ListOf, Linked
<1>2. P!ListDel(l, e) = n
  BY DEF P!ListDel
<1>3. /\ nx \in [P!Node -> P!Node] /\ nx[at] = y
      /\ \A x \in F \cup {NPages} : x # at => nx[x] = l.next[x]
      /\ pv \in [P!Node -> P!Node] /\ pv[y] = at
      /\ \A x \in F \cup {NPages} : x # y => pv[x] = l.prev[x]
  BY <1>0, <1>1
<1>4. n.next = nx /\ n.prev = pv /\ n \in Links2
  BY <1>3 DEF Links2
<1> HIDE DEF n, nx, pv
<1>5. Linked(NPages, l.next, l.prev, F)
  BY DEF ListOf
<1>6. Linked(NPages, nx, pv, F \ {e})
  BY <1>0, <1>3, <1>5, DelLinked
<1>7. ListOf(n, F \ {e})
  BY <1>0, <1>4, <1>6 DEF ListOf
<1>8. at # e
  BY <1>0, <1>1
<1>9. QED BY <1>0, <1>1, <1>2, <1>3, <1>4, <1>7, <1>8

LEMMA WalkList ==
  ASSUME ListOf(link, flagged), NEW S
  PROVE  /\ P!Stops(S) # {}
         /\ \/ P!Met(S) = NPages /\ flagged \cap S = {}
            \/ P!Met(S) \in flagged \cap S /\ \A p \in flagged \cap S : P!Met(S) <= p
<1> DEFINE step == [x \in Nat \X P!Node |-> link.next[x[2]]]
           D == 0..NPages+1
<1>0. /\ link.next \in [P!Node -> P!Node] /\ NPages \in Nat /\ NPages \in P!Node /\ P!Head = NPages
      /\ flagged \in SUBSET (0..NPages - 1)
  BY PageNumbers DEF ListOf, Links2
<1>1. step \in Steps(P!Node)
  BY <1>0 DEF Steps
<1>2. \A k \in Nat, x \in P!Node : step[<<k, x>>] = link.next[x]
  OBVIOUS
<1> HIDE DEF step
<1>z. NPages \in P!Node
  BY <1>0
<1>y. PICK f : Follows(f, P!Node, NPages, step)
  BY <1>1, <1>z, Recursion
<1>3. f \in [Nat -> P!Node] /\ f[0] = NPages /\ \A k \in Nat : f[k + 1] = step[<<k, f[k]>>]
  BY <1>y DEF Follows
<1> DEFINE g == [k \in D |-> f[k]]
<1>4. g = [k \in D |-> IF k = 0 THEN P!Head ELSE link.next[g[k - 1]]]
  <2>1. ASSUME NEW k \in D PROVE f[k] = IF k = 0 THEN P!Head ELSE link.next[g[k - 1]]
    <3>1. CASE k = 0
      BY <1>0, <1>3, <3>1
    <3>2. CASE k # 0
      <4>1. k - 1 \in Nat /\ k - 1 \in D /\ (k - 1) + 1 = k
        BY <1>0, <3>2
      <4>2. f[(k - 1) + 1] = step[<<k - 1, f[k - 1]>>]
        BY <1>3, <4>1
      <4>3. f[k - 1] \in P!Node
        BY <1>3, <4>1
      <4>4. g[k - 1] = f[k - 1]
        BY <4>1
      <4>5. f[k] = link.next[g[k - 1]]
        BY <1>2, <4>1, <4>2, <4>3, <4>4
      <4>6. QED BY <3>2, <4>5
    <3>3. QED BY <3>1, <3>2
  <2>2. QED BY <2>1
<1> HIDE DEF g
<1>5. P!Hop = [k \in D |-> IF k = 0 THEN P!Head ELSE link.next[P!Hop[k - 1]]]
  BY <1>4 DEF P!Hop
<1>6. P!Hop[0] = NPages /\ \A k \in 1..NPages+1 : P!Hop[k] = link.next[P!Hop[k - 1]]
  BY <1>0, <1>5
<1>7. P!Stops(S) = StopsAt(NPages, P!Hop, S)
  BY <1>0 DEF P!Stops, StopsAt
<1>8. P!Met(S) = P!Hop[Min(StopsAt(NPages, P!Hop, S))]
  BY <1>7 DEF P!Met, P!Min, Min
<1>9. Linked(NPages, link.next, link.prev, flagged)
  BY DEF ListOf
<1> DEFINE R == StopsAt(NPages, P!Hop, S)
<1>10. Meets(NPages, flagged, P!Hop, S)
  <2>1. NPages \in Nat /\ flagged \in SUBSET (0..NPages - 1)
    BY <1>0
  <2>2. Walk(NPages, link.next, P!Hop)
    BY <1>6 DEF Walk
  <2>3. QED BY <2>1, <2>2, <1>9, WalkMeets
<1> HIDE DEF R
<1>11. P!Stops(S) = R /\ P!Met(S) = P!Hop[Min(R)]
  BY <1>7, <1>8 DEF R
<1>12. QED BY <1>10, <1>11 DEF Meets, R

\* the heap: what default_alloc_pages and default_free_pages find and leave
GoodHeap(l, F, sz) ==
  /\ ListOf(l, F) /\ sz \in [P!Page -> 0..NPages]
  /\ Blocks(NPages, F, sz)

FreePages == Pages(NPages, flagged, property)

FramesInv ==
  /\ GoodHeap(link, flagged, property)
  /\ HeldOk(NPages, MaxRequest, held)
  /\ FreePages = P!Page \ Used(NPages, held)
  /\ nr_free = Cardinality(FreePages)
  /\ got \in P!Page \cup {NULL}

\* The block that a call of default_alloc_pages finds, and the heap it leaves.
LEMMA AllocHeap ==
  ASSUME FramesInv, NEW n \in 1..MaxRequest, P!Alloc(n)
  PROVE  /\ got' \in flagged /\ n <= property[got'] /\ \A p \in flagged : n <= property[p] => got' <= p
         /\ GoodHeap(link', flagged', property')
         /\ FreePages' = FreePages \ (got'..got'+n-1)
         /\ nr_free' = nr_free - n /\ held' = held \cup {<<got', n>>}
<1> DEFINE e == P!Met(P!Fits(n))
           s == property[e]
           at == link.prev[e]
           d == P!ListDel(link, e)
<1>0. /\ NPages \in Nat /\ P!Page = 0..NPages - 1 /\ P!Head = NPages /\ n \in Nat /\ 1 <= n
      /\ GoodHeap(link, flagged, property) /\ ListOf(link, flagged)
  BY PageNumbers DEF FramesInv, GoodHeap
<1>1. /\ e # NPages /\ got' = e /\ nr_free' = nr_free - n /\ held' = held \cup {<<e, n>>}
      /\ IF s > n
         THEN /\ property' = [property EXCEPT ![e + n] = P!RestSize(e, n)]
              /\ flagged' = (flagged \cup {e + n}) \ {e}
              /\ link' = P!Rest(link, e, e + n)
         ELSE /\ flagged' = flagged \ {e} /\ link' = d /\ UNCHANGED property
  BY <1>0 DEF P!Alloc
<1>2. e \in flagged /\ e \in P!Fits(n) /\ \A p \in flagged \cap P!Fits(n) : e <= p
  BY <1>0, <1>1, WalkList
<1>3. /\ flagged \in SUBSET P!Page /\ property \in [P!Page -> 0..NPages]
      /\ Sized(NPages, flagged, property) /\ Apart(flagged, property) /\ Gaps(flagged, property)
      /\ Blocks(NPages, flagged, property)
  BY <1>0 DEF GoodHeap, ListOf, Blocks
<1>4. \A p \in flagged : n <= property[p] => p \in P!Fits(n)
  BY <1>0, <1>3 DEF P!Fits
<1>5. n <= s /\ e \in Nat /\ s \in Nat /\ e + s <= NPages
  BY <1>0, <1>2, <1>3 DEF P!Fits, Sized
<1>6. /\ ListOf(d, flagged \ {e})
      /\ at \in (flagged \ {e}) \cup {NPages} /\ (at = NPages \/ at < e)
      /\ d.next[at] = link.next[e] /\ e < link.next[e]
  BY <1>0, <1>2, DelList
<1> HIDE DEF e, d, at
<1>7. CASE s > n
  <2> DEFINE r == e + n
             sz2 == [property EXCEPT ![r] = s - n]
             y == link.next[e]
             G == (flagged \cup {r}) \ {e}
  <2>1. r \in P!Page /\ r # e /\ r \in Nat /\ e < r
    BY <1>0, <1>5, <1>7
  <2>2. property' = sz2 /\ flagged' = G /\ link' = P!Between(d, r, at, d.next[at])
    BY <1>1, <1>7 DEF P!RestSize, P!Rest, P!ListAdd, d, at
  <2>3. /\ sz2 \in [P!Page -> 0..NPages] /\ sz2[r] = s - n
        /\ \A x \in flagged : x # r => sz2[x] = property[x]
    BY <1>0, <1>3, <1>5, <1>7, <2>1
  <2> HIDE DEF sz2
  <2>4. r \notin flagged
    BY <1>0, <1>2, <1>3, <1>5, <1>7 DEF Apart, Gaps, Sized
  <2>5. \A x \in flagged : x # e => sz2[x] = property[x]
    BY <2>3, <2>4
  <2>6. TakesOut(NPages, flagged, property, e..e+n-1, G, sz2)
    BY <1>0, <1>2, <1>3, <1>7, <2>3, <2>5, TakeBlock
  <2>7. r < y
    <3>0. y \in flagged \cup {NPages}
      BY <1>0, <1>2 DEF ListOf, Linked
    <3>1. CASE y = NPages
      BY <1>0, <2>1, <3>1
    <3>2. CASE y \in flagged
      <4>1. e + s <= y
        BY <1>2, <1>3, <1>6, <3>2 DEF Apart
      <4>2. y \in Nat
        BY <1>3, <3>2 DEF Sized
      <4>3. QED BY <1>0, <1>5, <1>7, <4>1, <4>2
    <3>3. QED BY <3>0, <3>1, <3>2
  <2>8. at = NPages \/ at < r
    <3>1. at \in flagged => at \in Nat
      BY <1>3 DEF Sized
    <3>2. QED BY <1>5, <1>6, <2>1, <3>1
  <2>9. ListOf(P!Between(d, r, at, y), (flagged \ {e}) \cup {r})
    <3>1. r \notin flagged \ {e} /\ y = d.next[at]
      BY <2>4, <1>6
    <3>2. QED BY <1>6, <2>1, <2>7, <2>8, <3>1, BetweenList
  <2>10. (flagged \ {e}) \cup {r} = G
    BY <2>1
  <2>11. ListOf(link', G)
    BY <1>6, <2>2, <2>9, <2>10
  <2>12. GoodHeap(link', flagged', property')
    BY <2>2, <2>3, <2>6, <2>11 DEF GoodHeap, TakesOut
  <2>13. FreePages' = FreePages \ (e..e+n-1)
    BY <2>2, <2>6 DEF FreePages, TakesOut
  <2>14. QED BY <1>1, <1>2, <1>4, <1>5, <2>12, <2>13
<1>8. CASE ~(s > n)
  <2>1. s = n
    BY <1>0, <1>5, <1>8
  <2>2. property' = property /\ flagged' = flagged \ {e} /\ link' = d
    BY <1>1, <1>8
  <2>3. TakesOut(NPages, flagged, property, e..e+s-1, flagged \ {e}, property)
    BY <1>0, <1>2, <1>3, DropBlock
  <2>4. GoodHeap(link', flagged', property')
    BY <1>3, <1>6, <2>2, <2>3 DEF GoodHeap, TakesOut
  <2>5. FreePages' = FreePages \ (e..e+n-1)
    BY <2>1, <2>2, <2>3 DEF FreePages, TakesOut
  <2>6. QED BY <1>1, <1>2, <1>4, <1>5, <2>4, <2>5
<1>9. QED BY <1>7, <1>8

\* The runs that Frames speaks of are runs of free pages.
LEMMA RunsAreFree ==
  ASSUME FramesInv, NEW n \in 1..MaxRequest, NEW b \in P!Page
  PROVE  b \in P!Abstract!Runs(n) <=> \A p \in b..b+n-1 : p \in FreePages
<1>0. /\ NPages \in Nat /\ P!Page = 0..NPages - 1 /\ P!Abstract!Page = 0..NPages - 1 /\ n \in Nat
      /\ MaxRequest \in Nat /\ b \in Nat
      /\ \A a, m : P!Abstract!Block(a, m) = a..a+m-1
      /\ HeldOk(NPages, MaxRequest, held)
      /\ FreePages = P!Page \ Used(NPages, held)
  BY PageNumbers DEF FramesInv, P!Abstract!Page, P!Abstract!Block
<1>1. b \in P!Abstract!Runs(n)
        <=> /\ b..b+n-1 \subseteq P!Page
            /\ \A h \in held : (b..b+n-1) \cap (h[1]..h[1]+h[2]-1) = {}
  BY <1>0 DEF P!Abstract!Runs
<1>2. \A p \in P!Page : p \in Used(NPages, held) <=> \E h \in held : p \in h[1]..h[1]+h[2]-1
  <2> TAKE p \in P!Page
  <2>1. \A h \in held : p \in h[1]..h[1]+h[2]-1 <=> h[1] <= p /\ p < h[1] + h[2]
    <3> TAKE h \in held
    <3>1. h[1] \in Nat /\ h[2] \in Nat
      BY <1>0, HeldNumbers
    <3>2. QED BY <1>0, <3>1
  <2>2. QED BY <1>0, <2>1 DEF Used
<1>3. QED BY <1>0, <1>1, <1>2

\* A step of alloc_pages that finds a block.
LEMMA AllocStep ==
  ASSUME FramesInv, NEW n \in 1..MaxRequest, P!Alloc(n)
  PROVE  FramesInv' /\ P!Abstract!Alloc(n)
<1>0. /\ NPages \in Nat /\ P!Page = 0..NPages - 1 /\ n \in Nat /\ 1 <= n
      /\ MaxRequest \in Nat
      /\ Blocks(NPages, flagged, property) /\ Sized(NPages, flagged, property)
      /\ HeldOk(NPages, MaxRequest, held)
      /\ FreePages = P!Page \ Used(NPages, held) /\ FreePages \in SUBSET (0..NPages - 1)
      /\ nr_free = Cardinality(FreePages)
      /\ flagged \in SUBSET P!Page
  BY PageNumbers DEF FramesInv, GoodHeap, ListOf, Blocks
<1>1. PICK e : e = got'
  OBVIOUS
<1>2. /\ e \in flagged /\ n <= property[e] /\ \A p \in flagged : n <= property[p] => e <= p
      /\ GoodHeap(link', flagged', property')
      /\ FreePages' = FreePages \ (e..e+n-1)
      /\ nr_free' = nr_free - n /\ held' = held \cup {<<e, n>>}
  BY <1>1, AllocHeap
<1>3. e \in Nat /\ e + n <= NPages /\ e \in P!Page /\ \A p \in e..e+n-1 : p \in FreePages
  <2>1. PICK s : s = property[e]
    OBVIOUS
  <2>2. e \in Nat /\ s \in Nat /\ e + s <= NPages /\ n <= s
    BY <1>0, <1>2, <2>1 DEF Sized
  <2>3. ASSUME NEW p \in e..e+n-1 PROVE p \in FreePages
    <3>1. p \in 0..NPages-1 /\ e <= p /\ p < e + s
      BY <1>0, <2>2
    <3>2. QED BY <1>2, <2>1, <3>1 DEF FreePages, Pages
  <2>4. QED BY <1>0, <1>2, <2>2, <2>3
<1>4. Holds(NPages, MaxRequest, held, e, n)
  <2>1. \A p \in e..e+n-1 : p \notin Used(NPages, held)
    BY <1>0, <1>3
  <2>2. QED BY <1>0, <1>3, <2>1, HoldBlock
<1>5. HeldOk(NPages, MaxRequest, held')
  BY <1>2, <1>4 DEF Holds
<1>6. FreePages' = P!Page \ Used(NPages, held')
  BY <1>0, <1>2, <1>4 DEF Holds
<1>7. nr_free' = Cardinality(FreePages')
  <2>1. IsFiniteSet(FreePages)
    BY <1>0, CountBelow
  <2>2. e..e+n-1 \subseteq FreePages
    BY <1>3
  <2>3. Cardinality(FreePages \ (e..e+n-1)) = Cardinality(FreePages) - n
    BY <1>0, <1>3, <2>1, <2>2, CountWithout
  <2>4. QED BY <1>0, <1>2, <2>3
<1>8. FramesInv'
  <2>1. FreePages' = P!Page \ Used(NPages, held)'
    BY <1>6
  <2>2. HeldOk(NPages, MaxRequest, held)' /\ nr_free' = Cardinality(FreePages)'
    BY <1>5, <1>7
  <2>3. QED BY <1>1, <1>2, <1>3, <2>1, <2>2 DEF FramesInv
<1>9. e \in P!Abstract!Runs(n)
  BY <1>3, RunsAreFree
<1>10. ASSUME NEW b \in P!Abstract!Runs(n) PROVE e <= b
  <2>1. b \in P!Page /\ b \in Nat
    BY <1>0 DEF P!Abstract!Runs, P!Abstract!Page
  <2>2. \A p \in b..b+n-1 : p \in Pages(NPages, flagged, property)
    BY <1>10, <2>1, RunsAreFree DEF FreePages
  <2>3. PICK c \in flagged : c <= b /\ n <= property[c]
    BY <1>0, <2>1, <2>2, RunInBlock
  <2>4. e <= c /\ c \in Nat
    BY <1>0, <1>2, <2>3
  <2>5. QED BY <1>3, <2>1, <2>3, <2>4
<1>11. Min(P!Abstract!Runs(n)) = e
  <2>1. P!Abstract!Runs(n) \subseteq Nat
    BY <1>0 DEF P!Abstract!Runs, P!Abstract!Page
  <2>2. PICK m : m = Min(P!Abstract!Runs(n))
    OBVIOUS
  <2>3. m \in P!Abstract!Runs(n) /\ \A x \in P!Abstract!Runs(n) : m <= x
    BY <1>9, <2>1, <2>2, MinIn
  <2>4. m \in Nat /\ m <= e /\ e <= m
    BY <1>9, <1>10, <2>1, <2>3
  <2>5. QED BY <1>3, <2>2, <2>4
<1>12. P!Abstract!Min(P!Abstract!Runs(n)) = Min(P!Abstract!Runs(n))
  BY DEF P!Abstract!Min, Min
<1>13. P!Abstract!Alloc(n)
  BY <1>1, <1>2, <1>9, <1>11, <1>12 DEF P!Abstract!Alloc
<1>14. QED BY <1>8, <1>13

\* A step of alloc_pages that finds none.
LEMMA AllocFailsStep ==
  ASSUME FramesInv, NEW n \in 1..MaxRequest, P!AllocFails(n)
  PROVE  FramesInv' /\ P!Abstract!AllocFails(n)
<1>0. /\ NPages \in Nat /\ P!Page = 0..NPages - 1 /\ n \in Nat /\ 1 <= n /\ P!Head = NPages
      /\ Blocks(NPages, flagged, property) /\ property \in [P!Page -> 0..NPages]
      /\ ListOf(link, flagged)
      /\ FreePages \in SUBSET (0..NPages - 1)
      /\ nr_free = Cardinality(FreePages)
      /\ flagged \in SUBSET P!Page
  BY PageNumbers DEF FramesInv, GoodHeap, ListOf
<1>1. FramesInv'
  BY DEF FramesInv, P!AllocFails, FreePages
<1>2. ASSUME NEW b \in P!Abstract!Runs(n) PROVE FALSE
  <2>1. b \in P!Page /\ b \in Nat
    BY <1>0 DEF P!Abstract!Runs, P!Abstract!Page
  <2>2. \A p \in b..b+n-1 : p \in FreePages
    BY <1>2, <2>1, RunsAreFree
  <2>3. CASE n > nr_free
    <3>1. IsFiniteSet(FreePages) /\ Cardinality(FreePages) \in 0..NPages
      BY <1>0, CountBelow
    <3>2. b..b+n-1 \subseteq FreePages
      BY <2>2
    <3>3. n <= Cardinality(FreePages)
      BY <1>0, <2>1, <3>1, <3>2, CountWithout
    <3>4. QED BY <1>0, <2>3, <3>1, <3>3
  <2>4. CASE P!Met(P!Fits(n)) = P!Head
    <3>1. \A p \in b..b+n-1 : p \in Pages(NPages, flagged, property)
      BY <2>2 DEF FreePages
    <3>2. PICK c \in flagged : c <= b /\ n <= property[c]
      BY <1>0, <2>1, <3>1, RunInBlock
    <3>3. c \in P!Fits(n)
      BY <1>0, <3>2 DEF P!Fits
    <3>4. P!Met(P!Fits(n)) \in flagged
      BY <1>0, <3>2, <3>3, WalkList
    <3>5. QED BY <1>0, <2>4, <3>4
  <2>5. QED BY <2>3, <2>4 DEF P!AllocFails
<1>3. P!Abstract!AllocFails(n)
  BY <1>2 DEF P!AllocFails, P!Abstract!AllocFails
<1>4. QED BY <1>1, <1>3

\* a heap in which blocks may touch
MidHeap(h) ==
  /\ ListOf(h.link, h.flagged) /\ h.property \in [P!Page -> 0..NPages]
  /\ Sized(NPages, h.flagged, h.property) /\ Apart(h.flagged, h.property)
PagesOf(h) == Pages(NPages, h.flagged, h.property)
Touch(h, x, y) == x \in h.flagged /\ y \in h.flagged /\ x + h.property[x] = y

Joined(h, e, p, h2) ==
  /\ MidHeap(h2) /\ PagesOf(h2) = PagesOf(h)
  /\ h2.flagged = h.flagged \ {p} /\ e \in h2.flagged
  /\ \A x, y : Touch(h2, x, y) => IF x = e THEN Touch(h, p, y) ELSE Touch(h, x, y) /\ y # p

LEMMA JoinHeap ==
  ASSUME NEW h, MidHeap(h), NEW e, NEW p, Touch(h, e, p)
  PROVE  Joined(h, e, p, P!Join(h, e, p))
<1> DEFINE sz == h.property
           F == h.flagged
           sz2 == [sz EXCEPT ![e] = sz[e] + sz[p]]
           l2 == P!ListDel(h.link, p)
           h2 == P!Join(h, e, p)
<1>0. /\ NPages \in Nat /\ P!Page = 0..NPages - 1
      /\ e \in F /\ p \in F /\ e + sz[e] = p /\ F \in SUBSET P!Page /\ sz \in [P!Page -> 0..NPages]
      /\ Sized(NPages, F, sz) /\ Apart(F, sz) /\ ListOf(h.link, F)
  BY PageNumbers DEF MidHeap, Touch, ListOf
<1>1. h2.link = l2 /\ h2.property = sz2 /\ h2.flagged = F \ {p}
  BY DEF P!Join
<1>2. ListOf(l2, F \ {p})
  BY <1>0, DelList
<1>3. sz2[e] = sz[e] + sz[p] /\ \A x \in F : x # e => sz2[x] = sz[x]
  BY <1>0
<1>4. sz2 \in [P!Page -> 0..NPages]
  <2>1. sz[e] \in Nat /\ sz[p] \in Nat /\ e \in Nat /\ e + sz[e] = p /\ p + sz[p] <= NPages
    BY <1>0 DEF Sized
  <2>2. PICK s, t : s = sz[e] /\ t = sz[p]
    OBVIOUS
  <2>3. s + t \in 0..NPages
    <3> HIDE DEF sz, F, sz2, l2, h2
    <3>1. s \in Nat /\ t \in Nat /\ e \in Nat /\ p = e + s /\ p + t <= NPages
      BY <2>1, <2>2
    <3>2. NPages \in Nat
      BY <1>0
    <3>3. QED BY <3>1, <3>2
  <2>4. sz[e] + sz[p] \in 0..NPages
    BY <2>2, <2>3
  <2>5. QED BY <1>0, <2>4
<1> HIDE DEF sz2, l2, h2, F, sz
<1>5. Joins(NPages, F, sz, e, p, sz2)
  BY <1>0, <1>3, JoinBlocks
<1>6. MidHeap(h2)
  BY <1>1, <1>2, <1>4, <1>5 DEF MidHeap, Joins
<1>7. PagesOf(h2) = PagesOf(h)
  BY <1>1, <1>5 DEF Joins, PagesOf, F, sz
<1>8. ASSUME NEW x, NEW y, Touch(h2, x, y)
      PROVE IF x = e THEN Touch(h, p, y) ELSE Touch(h, x, y) /\ y # p
  <2>1. x \in F \ {p} /\ y \in F \ {p} /\ x + sz2[x] = y
    BY <1>1, <1>8 DEF Touch
  <2>2. IF x = e THEN p + sz[p] = y ELSE x + sz[x] = y
    BY <1>5, <2>1 DEF Joins
  <2>3. QED BY <1>0, <2>1, <2>2 DEF Touch, F, sz
<1>9. QED BY <1>0, <1>1, <1>5, <1>6, <1>7, <1>8 DEF Joined, Joins, h2, F, sz

\* In a list, only neighbours touch.
LEMMA TouchHeap ==
  ASSUME NEW h, MidHeap(h), NEW x, NEW y, Touch(h, x, y)
  PROVE  h.link.next[x] = y /\ h.link.prev[y] = x
<1>0. /\ NPages \in Nat /\ h.flagged \in SUBSET (0..NPages - 1)
      /\ Linked(NPages, h.link.next, h.link.prev, h.flagged)
      /\ Sized(NPages, h.flagged, h.property) /\ Apart(h.flagged, h.property)
  BY PageNumbers DEF MidHeap, ListOf
<1>1. x \in h.flagged /\ y \in h.flagged /\ x + h.property[x] = y
  BY DEF Touch
<1>2. QED BY <1>0, <1>1, TouchesNext

\* what default_free_pages does after the insertion leaves no two blocks that touch
LEMMA MergeHeap ==
  ASSUME NEW h, MidHeap(h), NEW base \in h.flagged,
         \A x, y : Touch(h, x, y) => x = base \/ y = base
  PROVE  /\ MidHeap(P!Merge(h, base)) /\ PagesOf(P!Merge(h, base)) = PagesOf(h)
         /\ \A x, y : ~Touch(P!Merge(h, base), x, y)
<1> DEFINE low == h.link.prev[base]
           a == P!Adjacent(h, low, base)
           h1 == IF a THEN P!Join(h, low, base) ELSE h
           b1 == IF a THEN low ELSE base
           high == h1.link.next[b1]
           c == P!Adjacent(h1, b1, high)
           m == IF c THEN P!Join(h1, b1, high) ELSE h1
<1>0. P!Merge(h, base) = m
  BY DEF P!Merge
<1>1. P!Head = NPages /\ NPages \in Nat /\ P!Page = 0..NPages - 1
  BY PageNumbers
<1>2. ASSUME NEW g, MidHeap(g)
      PROVE  /\ g.flagged \in SUBSET (0..NPages - 1)
             /\ \A x \in g.flagged : x # NPages /\ x \in Nat
             /\ \A x \in g.flagged : /\ g.link.next[x] \in g.flagged \cup {NPages} /\ x < g.link.next[x]
                                     /\ g.link.prev[x] \in g.flagged \cup {NPages}
  <2>1. g.flagged \in SUBSET (0..NPages - 1) /\ Linked(NPages, g.link.next, g.link.prev, g.flagged)
    BY <1>1, <1>2 DEF MidHeap, ListOf
  <2>2. \A x \in g.flagged : x # NPages /\ x \in Nat
    BY <1>1, <2>1
  <2>3. QED BY <2>1, <2>2 DEF Linked
<1>3. a <=> Touch(h, low, base)
  <2>1. base # NPages /\ low \in h.flagged \cup {NPages} /\ \A x \in h.flagged : x # NPages
    BY <1>2
  <2>2. QED BY <1>1, <2>1 DEF P!Adjacent, Touch
<1>4. \A x : Touch(h, x, base) => x = low
  BY TouchHeap
<1> HIDE DEF low, a
<1>5. /\ MidHeap(h1) /\ PagesOf(h1) = PagesOf(h) /\ b1 \in h1.flagged
      /\ \A x, y : Touch(h1, x, y) => x = b1
  <2>1. CASE a
    <3>1. Joined(h, low, base, h1) /\ b1 = low
      BY <1>3, <2>1, JoinHeap
    <3>2. ASSUME NEW x, NEW y, Touch(h1, x, y), x # low PROVE FALSE
      <4>1. Touch(h, x, y) /\ y # base
        BY <3>1, <3>2 DEF Joined
      <4>2. x = base
        BY <4>1
      <4>3. x \in h1.flagged /\ base \notin h1.flagged
        BY <3>1, <3>2 DEF Touch, Joined
      <4>4. QED BY <4>2, <4>3
    <3>3. QED BY <3>1, <3>2 DEF Joined
  <2>2. CASE ~a
    <3>1. h1 = h /\ b1 = base
      BY <2>2
    <3>2. ASSUME NEW x, NEW y, Touch(h, x, y), x # base PROVE FALSE
      <4>1. Touch(h, x, base)
        BY <3>2
      <4>2. QED BY <1>3, <1>4, <2>2, <4>1
    <3>3. QED BY <3>1, <3>2
  <2>3. QED BY <2>1, <2>2
<1> HIDE DEF h1, b1
<1>6. c <=> Touch(h1, b1, high)
  <2>1. b1 # NPages /\ high \in h1.flagged \cup {NPages} /\ \A x \in h1.flagged : x # NPages
    BY <1>2, <1>5
  <2>2. QED BY <1>1, <1>5, <2>1 DEF P!Adjacent, Touch
<1>7. \A y : Touch(h1, b1, y) => y = high
  BY <1>5, TouchHeap
<1>8. b1 < high /\ b1 \in Nat
  BY <1>2, <1>5
<1> HIDE DEF high, c
<1>9. CASE c
  <2>1. Joined(h1, b1, high, m)
    BY <1>5, <1>6, <1>9, JoinHeap
  <2>2. ASSUME NEW x, NEW y, Touch(m, x, y) PROVE FALSE
    <3>1. CASE x = b1
      <4>1. Touch(h1, high, y)
        BY <2>1, <2>2, <3>1 DEF Joined
      <4>2. high = b1
        BY <1>5, <4>1
      <4>3. QED BY <1>8, <4>2
    <3>2. CASE x # b1
      <4>1. Touch(h1, x, y)
        BY <2>1, <2>2, <3>2 DEF Joined
      <4>2. QED BY <1>5, <3>2, <4>1
    <3>3. QED BY <3>1, <3>2
  <2>3. QED BY <1>0, <1>5, <2>1, <2>2 DEF Joined
<1>10. CASE ~c
  <2>1. m = h1
    BY <1>10
  <2>2. ASSUME NEW x, NEW y, Touch(h1, x, y) PROVE FALSE
    <3>1. x = b1 /\ y = high
      BY <1>5, <1>7, <2>2
    <3>2. QED BY <1>6, <1>10, <2>2, <3>1
  <2>3. QED BY <1>0, <1>5, <2>1, <2>2
<1>11. QED BY <1>9, <1>10

InsertedAt(base) ==
  IF link.next[P!Head] = P!Head THEN P!ListAdd(link, P!Head, base) ELSE P!Insert(base)

\* default_free_pages puts the block where its address belongs, if a block above it is
\* free, or none is.
LEMMA InsertList ==
  ASSUME ListOf(link, flagged), NEW base \in P!Page, base \notin flagged, ~P!OnTop(base)
  PROVE  ListOf(InsertedAt(base), flagged \cup {base})
<1>0. /\ NPages \in Nat /\ P!Page = 0..NPages - 1 /\ P!Head = NPages /\ base \in Nat /\ base < NPages
      /\ flagged \in SUBSET (0..NPages - 1) /\ PartsAssumption
  BY PartsAssumption, PageNumbers DEF ListOf
<1>1. \A x \in flagged \cup {NPages} :
        /\ link.next[x] \in flagged \cup {NPages} /\ link.prev[x] \in flagged \cup {NPages}
        /\ link.prev[link.next[x]] = x /\ link.next[link.prev[x]] = x
        /\ x = NPages \/ x < link.next[x]
        /\ \A p \in flagged : (x # NPages /\ p <= x) \/ link.next[x] <= p
  BY DEF ListOf, Linked
<1>2. CASE link.next[NPages] = NPages
  <2>1. InsertedAt(base) = P!Between(link, base, NPages, NPages)
    BY <1>0, <1>2 DEF InsertedAt, P!ListAdd
  <2>2. NPages \in flagged \cup {NPages} /\ NPages = link.next[NPages] /\ base < NPages
    BY <1>0, <1>2
  <2>3. ListOf(P!Between(link, base, NPages, NPages), flagged \cup {base})
    BY <2>2, BetweenList
  <2>4. QED BY <2>1, <2>3
<1>3. CASE link.next[NPages] # NPages
  <2> DEFINE above == {p \in P!Page : base < p}
             last0 == {p \in P!Page : link.next[p] = P!Head}
             e == P!Met(above \cup last0)
             at == link.prev[e]
  <2>1. PICK q \in flagged : base < q
    <3>1. PICK q \in flagged : ~(q < base)
      BY <1>0, <1>3 DEF P!OnTop
    <3>2. q \in Nat /\ q # base
      BY <1>0, <3>1
    <3>3. QED BY <1>0, <3>1, <3>2
  <2>2. q \in above
    BY <1>0, <2>1
  <2>3. /\ e \in flagged /\ e \in above \cup last0
        /\ \A p \in flagged : p \in above \cup last0 => e <= p
    BY <2>2, WalkList
  <2>4. InsertedAt(base) = IF e \in above THEN P!Between(link, base, at, e)
                           ELSE LET l == P!ListAdd(link, e, base) IN P!ListAdd(l, base, base)
    BY <1>0, <1>3 DEF InsertedAt, P!Insert, P!ListAddBefore
  <2> HIDE DEF e, at
  <2>5. e \in Nat /\ e < NPages
    BY <1>0, <2>3
  <2>6. e \in above
    <3> SUFFICES ASSUME e \notin above PROVE FALSE
      OBVIOUS
    <3>1. e <= base /\ link.next[e] = NPages
      BY <1>0, <2>3, <2>5
    <3>2. (e # NPages /\ q <= e) \/ NPages <= q
      BY <1>1, <2>1, <2>3, <3>1
    <3>3. q \in Nat /\ q < NPages
      BY <1>0, <2>1
    <3>4. QED BY <1>0, <2>1, <2>5, <3>1, <3>2, <3>3
  <2>7. at \in flagged \cup {NPages} /\ link.next[at] = e /\ base < e
    BY <1>1, <2>3, <2>6 DEF at
  <2>8. at = NPages \/ at < base
    <3> SUFFICES ASSUME at # NPages PROVE at < base
      OBVIOUS
    <3>1. at \in flagged /\ at < e /\ at # base /\ at \in Nat
      BY <1>0, <1>1, <2>7
    <3>2. at \in above => e <= at
      BY <2>3, <3>1
    <3>3. at \notin above
      BY <2>5, <3>1, <3>2
    <3>4. at \in P!Page
      BY <1>0, <3>1
    <3>5. QED BY <1>0, <3>1, <3>3, <3>4
  <2>9. ListOf(P!Between(link, base, at, e), flagged \cup {base})
    BY <2>7, <2>8, BetweenList
  <2>10. QED BY <2>4, <2>6, <2>9
<1>4. QED BY <1>2, <1>3

\* A step of free_pages that does not free a block above every free one.
LEMMA FreeStep ==
  ASSUME FramesInv, NEW n \in 1..MaxRequest, NEW base \in P!Page, P!Free(base, n), ~topped'
  PROVE  FramesInv'
<1> DEFINE sz2 == [property EXCEPT ![base] = n]
           h == [link |-> InsertedAt(base), property |-> sz2, flagged |-> flagged \cup {base}]
           m == P!Merge(h, base)
<1>0. /\ NPages \in Nat /\ P!Page = 0..NPages - 1 /\ n \in Nat /\ 1 <= n /\ MaxRequest \in Nat
      /\ n \in 0..NPages
      /\ Blocks(NPages, flagged, property) /\ ListOf(link, flagged)
      /\ property \in [P!Page -> 0..NPages]
      /\ HeldOk(NPages, MaxRequest, held)
      /\ FreePages = P!Page \ Used(NPages, held) /\ FreePages \in SUBSET (0..NPages - 1)
      /\ nr_free = Cardinality(FreePages)
      /\ flagged \in SUBSET P!Page
  BY PageNumbers DEF FramesInv, GoodHeap, ListOf
<1>1. /\ <<base, n>> \in held /\ ~P!OnTop(base)
      /\ link' = m.link /\ property' = m.property /\ flagged' = m.flagged
      /\ nr_free' = nr_free + n /\ held' = held \ {<<base, n>>} /\ got' = NULL
  BY DEF P!Free, InsertedAt
<1>2. base \in Nat /\ base + n <= NPages /\ GivesUp(NPages, MaxRequest, held, base, n)
  BY <1>0, <1>1, GiveBlock
<1>3. \A p \in base..base+n-1 : p \notin Pages(NPages, flagged, property) /\ p \in P!Page
  <2>1. base..base+n-1 \subseteq Used(NPages, held)
    BY <1>2 DEF GivesUp
  <2>2. Used(NPages, held) \subseteq P!Page
    BY <1>0 DEF Used
  <2>3. QED BY <1>0, <2>1, <2>2 DEF FreePages
<1>4. PutsIn(NPages, flagged, property, base, n, sz2)
  <2>1. sz2[base] = n /\ \A x \in flagged : x # base => sz2[x] = property[x]
    BY <1>0
  <2> HIDE DEF sz2
  <2>2. \A p \in base..base+n-1 : p \notin Pages(NPages, flagged, property)
    BY <1>3
  <2>3. QED BY <1>0, <1>2, <2>1, <2>2, PutBlock
<1>5. ListOf(InsertedAt(base), flagged \cup {base})
  BY <1>0, <1>1, <1>4, InsertList DEF PutsIn
<1>6. sz2 \in [P!Page -> 0..NPages]
  BY <1>0
<1>7. /\ h.link = InsertedAt(base) /\ h.property = sz2 /\ h.flagged = flagged \cup {base}
  OBVIOUS
<1> HIDE DEF sz2, h
<1>8. /\ MidHeap(h) /\ base \in h.flagged
      /\ PagesOf(h) = FreePages \cup (base..base+n-1)
      /\ \A x, y : Touch(h, x, y) => x = base \/ y = base
  BY <1>4, <1>5, <1>6, <1>7 DEF MidHeap, PagesOf, PutsIn, Touch, FreePages
<1>9. /\ MidHeap(m) /\ PagesOf(m) = PagesOf(h)
      /\ \A x, y : ~Touch(m, x, y)
  BY <1>8, MergeHeap
<1> HIDE DEF m
<1>10. GoodHeap(link', flagged', property')
  BY <1>1, <1>9 DEF GoodHeap, MidHeap, Touch, Blocks, Gaps
<1>11. FreePages' = FreePages \cup (base..base+n-1)
  BY <1>1, <1>8, <1>9 DEF FreePages, PagesOf
<1>12. HeldOk(NPages, MaxRequest, held') /\ Used(NPages, held') = Used(NPages, held) \ (base..base+n-1)
  BY <1>1, <1>2 DEF GivesUp
<1>13. FreePages' = P!Page \ Used(NPages, held')
  BY <1>0, <1>3, <1>11, <1>12
<1>14. nr_free' = Cardinality(FreePages')
  <2>1. IsFiniteSet(FreePages) /\ \A p \in base..base+n-1 : p \notin FreePages
    BY <1>0, <1>3, CountBelow DEF FreePages
  <2>2. Cardinality(FreePages \cup (base..base+n-1)) = Cardinality(FreePages) + n
    BY <1>0, <1>2, <2>1, CountWith
  <2>3. QED BY <1>0, <1>1, <1>11, <2>2
<1>15. QED
  <2>1. FreePages' = P!Page \ Used(NPages, held)'
    BY <1>13
  <2>2. HeldOk(NPages, MaxRequest, held)' /\ nr_free' = Cardinality(FreePages)'
    BY <1>12, <1>14
  <2>3. QED BY <1>1, <1>10, <2>1, <2>2 DEF FramesInv

\* While nothing was freed on top a step is one of Frames, and it keeps the invariant
\* unless it is the first to free a block there.
LEMMA FramesStep ==
  FramesInv /\ P!Next => P!Abstract!Next /\ (~topped' => FramesInv')
<1> SUFFICES ASSUME FramesInv, P!Next PROVE P!Abstract!Next /\ (~topped' => FramesInv')
  OBVIOUS
<1>1. PICK n \in 1..MaxRequest : P!Alloc(n) \/ P!AllocFails(n) \/ \E b \in P!Page : P!Free(b, n)
  BY DEF P!Next
<1>2. CASE P!Alloc(n)
  BY <1>2, AllocStep DEF P!Abstract!Next
<1>3. CASE P!AllocFails(n)
  BY <1>3, AllocFailsStep DEF P!Abstract!Next
<1>4. CASE \E b \in P!Page : P!Free(b, n)
  <2>1. PICK b \in P!Page : P!Free(b, n)
    BY <1>4
  <2>2. P!Abstract!Free(b, n)
    BY <2>1 DEF P!Free, P!Abstract!Free
  <2>3. P!Abstract!Page = P!Page
    BY DEF P!Abstract!Page, P!Page
  <2>4. ~topped' => FramesInv'
    BY <2>1, FreeStep
  <2>5. QED BY <2>2, <2>3, <2>4 DEF P!Abstract!Next
<1>5. QED BY <1>1, <1>2, <1>3, <1>4

\* Nothing takes back that a block was freed on top.
LEMMA StaysTopped ==
  topped \in BOOLEAN /\ P!Next => topped' \in BOOLEAN /\ (~topped' => ~topped)
<1> SUFFICES ASSUME topped \in BOOLEAN, P!Next
             PROVE  topped' \in BOOLEAN /\ (~topped' => ~topped)
  OBVIOUS
<1>1. UNCHANGED topped \/ \E b \in P!Page : topped' = (topped \/ P!OnTop(b))
  BY DEF P!Next, P!Alloc, P!AllocFails, P!Free
<1>2. CASE UNCHANGED topped
  BY <1>2
<1>3. CASE \E b \in P!Page : topped' = (topped \/ P!OnTop(b))
  BY <1>3
<1>4. QED BY <1>1, <1>2, <1>3

LEMMA FramesInit == PartsInit => FramesInv /\ P!Abstract!Init
<1> SUFFICES ASSUME P!Init PROVE FramesInv /\ P!Abstract!Init
  BY DEF PartsInit
<1> DEFINE empty == [next |-> [x \in P!Node |-> x], prev |-> [x \in P!Node |-> x]]
           own == [x \in P!Node |-> x]
           nx == [own EXCEPT ![NPages] = 0, ![0] = NPages]
           pv == [own EXCEPT ![NPages] = 0, ![0] = NPages]
           sz == [p \in P!Page |-> IF p = 0 THEN NPages ELSE 0]
<1>0. /\ NPages \in Nat /\ NPages >= 1 /\ P!Page = 0..NPages - 1 /\ P!Node = 0..NPages /\ P!Head = NPages
      /\ MaxRequest \in Nat
  BY PageNumbers
<1>1. /\ link = P!ListAdd(empty, P!Head, 0) /\ property = sz /\ flagged = {0} /\ nr_free = NPages
      /\ held = {} /\ got = NULL
  BY DEF P!Init
<1>2. link = [next |-> nx, prev |-> pv]
  BY <1>0, <1>1 DEF P!ListAdd, P!Between
<1>3. /\ nx \in [P!Node -> P!Node] /\ nx[0] = NPages /\ nx[NPages] = 0
      /\ pv \in [P!Node -> P!Node] /\ pv[0] = NPages /\ pv[NPages] = 0
  <2>1. own \in [P!Node -> P!Node]
    OBVIOUS
  <2>2. 0 \in P!Node /\ NPages \in P!Node /\ 0 # NPages
    BY <1>0
  <2> HIDE DEF own
  <2>3. QED BY <2>1, <2>2
<1>4. sz \in [P!Page -> 0..NPages] /\ sz[0] = NPages /\ 0 \in P!Page
  BY <1>0
<1> HIDE DEF nx, pv, sz
<1>5. ListOf(link, flagged)
  <2>1. link.next = nx /\ link.prev = pv /\ link \in Links2
    BY <1>2, <1>3 DEF Links2
  <2>2. Linked(NPages, nx, pv, {0})
    <3> SUFFICES ASSUME NEW x \in {0, NPages}
                 PROVE  /\ nx[x] \in {0, NPages} /\ pv[x] \in {0, NPages}
                        /\ pv[nx[x]] = x /\ nx[pv[x]] = x
                        /\ x = NPages \/ x < nx[x]
                        /\ (x # NPages /\ 0 <= x) \/ nx[x] <= 0
      BY DEF Linked
    <3>1. CASE x = 0
      BY <1>0, <1>3, <3>1
    <3>2. CASE x = NPages
      BY <1>0, <1>3, <3>2
    <3>3. QED BY <3>1, <3>2
  <2>3. QED BY <1>1, <1>4, <2>1, <2>2 DEF ListOf
<1>6. Blocks(NPages, flagged, property)
  BY <1>0, <1>1, <1>4 DEF Blocks, Sized, Apart, Gaps
<1>7. FreePages = P!Page /\ Used(NPages, held) = {}
  BY <1>0, <1>1, <1>4 DEF FreePages, Pages, Used
<1>8. Cardinality(P!Page) = NPages
  BY <1>0, FS_Interval
<1>9. HeldOk(NPages, MaxRequest, held)
  BY <1>1 DEF HeldOk
<1>10. FramesInv
  BY <1>1, <1>4, <1>5, <1>6, <1>7, <1>8, <1>9 DEF FramesInv, GoodHeap
<1>11. QED BY <1>1, <1>10 DEF P!Abstract!Init

\* The invariant holds until a block is freed on top.
FramesHold == topped \in BOOLEAN /\ (~topped => FramesInv)

LEMMA FramesHoldAlways == PartsSpec => []FramesHold
<1>1. FramesHold /\ [PartsNext]_partsVars => FramesHold'
  <2>1. FramesHold /\ P!Next => FramesHold'
    BY FramesStep, StaysTopped DEF FramesHold
  <2>2. FramesInv /\ UNCHANGED frames => FramesInv'
    BY DEF frames, FramesInv, FreePages
  <2>3. FramesHold /\ UNCHANGED frames => FramesHold'
    BY <2>2 DEF FramesHold, frames
  <2>4. [PartsNext]_partsVars => P!Next \/ UNCHANGED frames
    BY DEF PartsNext, partsVars, Numbers
  <2>5. QED BY <2>1, <2>3, <2>4
<1>2. PartsInit => FramesHold
  BY FramesInit DEF FramesHold, PartsInit, P!Init
<1>3. QED BY <1>1, <1>2, PTL DEF PartsSpec

\* Until a block is freed above every free one, the free list holds exactly the free
\* blocks, in order and with no two that touch, every page is in one block, held or
\* free, and nr_free counts the free ones.
THEOREM FramesCorrect == PartsSpec => []PagesExact
<1>1. FramesHold => PagesExact
  <2> SUFFICES ASSUME FramesInv, topped \in BOOLEAN PROVE P!TypeOK /\ P!ListExact /\ P!PagesExact
    BY DEF PagesExact, FramesHold
  <2>0. /\ NPages \in Nat /\ P!Page = 0..NPages - 1 /\ P!Head = NPages /\ MaxRequest \in Nat
        /\ GoodHeap(link, flagged, property) /\ ListOf(link, flagged) /\ flagged \in SUBSET P!Page
        /\ property \in [P!Page -> 0..NPages] /\ link \in Links2
        /\ Linked(NPages, link.next, link.prev, flagged)
        /\ HeldOk(NPages, MaxRequest, held) /\ FreePages = P!Page \ Used(NPages, held)
        /\ nr_free = Cardinality(FreePages) /\ FreePages \in SUBSET (0..NPages - 1)
        /\ got \in P!Page \cup {NULL}
        /\ Sized(NPages, flagged, property) /\ Apart(flagged, property) /\ Gaps(flagged, property)
    BY PageNumbers DEF FramesInv, GoodHeap, ListOf, Blocks
  <2>1. P!TypeOK
    <3>1. nr_free \in 0..NPages
      BY <2>0, CountBelow
    <3>2. held \subseteq P!Page \X (1..MaxRequest)
      BY <2>0 DEF HeldOk
    <3>3. QED BY <2>0, <3>1, <3>2 DEF P!TypeOK, Links2
  <2>2. P!ListExact
    <3> SUFFICES ASSUME NEW x \in flagged \cup {NPages}
                 PROVE  LET y == IF P!Following(x) = {} THEN P!Head ELSE P!Min(P!Following(x))
                        IN /\ link.next[x] = y
                           /\ link.prev[y] = x
                           /\ x # P!Head /\ y # P!Head => x + property[x] < y
      BY <2>0 DEF P!ListExact
    <3>1. P!Following(x) = {p \in flagged : x = NPages \/ p > x}
      BY <2>0 DEF P!Following
    <3>2. \A S : P!Min(S) = Min(S)
      BY DEF P!Min, Min
    <3>3. link.next[x] = NextOf(NPages, flagged, x)
      <4>1. flagged \in SUBSET (0..NPages - 1)
        BY <2>0
      <4>2. QED BY <2>0, <4>1, LinkedFollows
    <3>4. PICK y : y = link.next[x]
      OBVIOUS
    <3>5. link.prev[y] = x /\ y \in flagged \cup {NPages} /\ (x = NPages \/ x < y)
      BY <2>0, <3>4 DEF Linked
    <3>6. x # NPages /\ y # NPages => x + property[x] < y
      <4> SUFFICES ASSUME x # NPages, y # NPages PROVE x + property[x] < y
        OBVIOUS
      <4>1. x \in flagged /\ y \in flagged /\ x < y
        BY <3>5
      <4>2. x + property[x] <= y /\ x + property[x] # y
        BY <2>0, <4>1 DEF Apart, Gaps
      <4>3. x \in Nat /\ property[x] \in Nat /\ y \in Nat
        BY <2>0, <4>1 DEF Sized
      <4>4. QED BY <4>2, <4>3
    <3>7. y = IF P!Following(x) = {} THEN P!Head ELSE P!Min(P!Following(x))
      BY <2>0, <3>1, <3>2, <3>3, <3>4 DEF NextOf
    <3>8. QED BY <2>0, <3>4, <3>5, <3>6, <3>7
  <2>3. P!PagesExact
    <3>1. \A S : P!Cardinality(S) = Cardinality(S)
      BY Zenon DEF P!Cardinality, Cardinality
    <3>2. \A a, n : P!Block(a, n) = a..a+n-1
      BY DEF P!Block
    <3>3. \A b : P!FreeBlock(b) = b..b+property[b]-1
      BY DEF P!FreeBlock, P!Block
    <3>4. ASSUME NEW p \in P!Page
          PROVE  P!Cardinality({h \in held : p \in P!Block(h[1], h[2])})
                   + P!Cardinality({b \in flagged : p \in P!FreeBlock(b)}) = 1
      <4>1. /\ Pages(NPages, flagged, property) = (0..NPages - 1) \ Used(NPages, held)
            /\ p \in 0..NPages - 1
        BY <2>0 DEF FreePages
      <4>2. OwnedOnce(held, flagged, property, p)
        BY <2>0, <4>1, OneOwner
      <4>3. QED BY <3>1, <3>2, <3>3, <4>2 DEF OwnedOnce
    <3>5. UNION {P!FreeBlock(b) : b \in flagged} = FreePages
      <4>1. ASSUME NEW b \in flagged, NEW p \in P!FreeBlock(b) PROVE p \in FreePages
        <5>1. b \in Nat /\ property[b] \in Nat /\ b + property[b] <= NPages
          BY <2>0 DEF Sized
        <5>2. PICK s : s = property[b]
          OBVIOUS
        <5>3. p \in b..b+s-1
          BY <3>3, <5>2
        <5>4. NPages \in Nat /\ s \in Nat /\ b + s <= NPages
          BY <2>0, <5>1, <5>2
        <5>5. p \in 0..NPages - 1 /\ b <= p /\ p < b + s
          BY <5>1, <5>3, <5>4
        <5>6. QED BY <5>2, <5>5 DEF FreePages, Pages
      <4>2. ASSUME NEW p \in FreePages PROVE \E b \in flagged : p \in P!FreeBlock(b)
        <5>1. PICK b \in flagged : b <= p /\ p < b + property[b]
          BY DEF FreePages, Pages
        <5>2. b \in Nat /\ property[b] \in Nat /\ p \in Nat
          BY <2>0, <5>1 DEF Sized
        <5>3. QED BY <3>3, <5>1, <5>2
      <4>3. QED BY <4>1, <4>2
    <3>6. QED BY <2>0, <3>1, <3>4, <3>5 DEF P!PagesExact
  <2>4. QED BY <2>1, <2>2, <2>3
<1>2. QED BY <1>1, FramesHoldAlways, PTL

\* Until a block is freed above every free one, the allocator implements Frames:
\* alloc_pages takes the lowest run of n pages that nobody holds, and fails only when
\* there is none.  The step that frees such a block is still one of Frames.
THEOREM FramesRefine == PartsSpec => PagesImplement
<1>1. FramesHold /\ [PartsNext]_partsVars
      => [part = "frames" /\ ~topped => P!Abstract!Next]_frames
  BY FramesStep DEF FramesHold, PartsNext, partsVars, Numbers, frames
<1>2. PartsInit => P!Abstract!Init
  BY FramesInit
<1>3. QED BY <1>1, <1>2, FramesHoldAlways, PTL DEF PartsSpec, PagesImplement

------------------------------------------------------------------------------
(* The timer list.  What the list says of a process is the sum of the differences *)
(* up to its timer, Ticks: DueAt determines it, so each call is proved by giving   *)
(* the sums of the new list and checking the differences against them.             *)

\* a timer
WaitType == [proc : Proc, expires : Nat]

\* g says when the timers of l are due
DueAt(l, g) == g[0] = 0 /\ \A k \in 1..Len(l) : g[k] = g[k - 1] + l[k].expires

\* Ticks is the only such function.
LEMMA TicksDue ==
  ASSUME NEW l \in Seq(WaitType)
  PROVE  DueAt(l, T!Ticks(l)) /\ \A k \in 0..Len(l) : T!Ticks(l)[k] \in Nat
<1> DEFINE step == [x \in Nat \X Nat |->
                      IF x[1] + 1 \in 1..Len(l) THEN x[2] + l[x[1] + 1].expires ELSE x[2]]
           D == 0..Len(l)
<1>0. Len(l) \in Nat /\ \A k \in 1..Len(l) : l[k].expires \in Nat
  <2>1. \A k \in 1..Len(l) : l[k] \in WaitType
    BY ElementOfSeq
  <2>2. QED BY <2>1, LenProperties DEF WaitType
<1>1. step \in Steps(Nat)
  BY <1>0 DEF Steps
<1>2. \A k \in Nat, x \in Nat : k + 1 \in 1..Len(l) => step[<<k, x>>] = x + l[k + 1].expires
  OBVIOUS
<1> HIDE DEF step
<1>3. PICK f : Follows(f, Nat, 0, step)
  BY <1>1, Recursion
<1>4. f \in [Nat -> Nat] /\ f[0] = 0 /\ \A k \in Nat : f[k + 1] = step[<<k, f[k]>>]
  BY <1>3 DEF Follows
<1> DEFINE g == [k \in D |-> f[k]]
<1>5. ASSUME NEW k \in D, k # 0
      PROVE  f[k] = g[k - 1] + l[k].expires
  <2>1. k - 1 \in Nat /\ k - 1 \in D /\ (k - 1) + 1 = k /\ k \in 1..Len(l)
    BY <1>0, <1>5
  <2>2. f[(k - 1) + 1] = step[<<k - 1, f[k - 1]>>] /\ f[k - 1] \in Nat
    BY <1>4, <2>1
  <2>3. step[<<k - 1, f[k - 1]>>] = f[k - 1] + l[(k - 1) + 1].expires
    BY <1>2, <2>1, <2>2
  <2>4. QED BY <2>1, <2>2, <2>3
<1>6. g = [k \in D |-> IF k = 0 THEN 0 ELSE g[k - 1] + l[k].expires]
  <2>1. \A k \in D : f[k] = IF k = 0 THEN 0 ELSE g[k - 1] + l[k].expires
    BY <1>4, <1>5
  <2>2. QED BY <2>1
<1>7. \A k \in D : g[k] \in Nat
  BY <1>4
<1> HIDE DEF g
<1> DEFINE t == T!Ticks(l)
<1>8. t = [k \in D |-> IF k = 0 THEN 0 ELSE t[k - 1] + l[k].expires]
  <2>1. t = CHOOSE e : e = [k \in D |-> IF k = 0 THEN 0 ELSE e[k - 1] + l[k].expires]
    BY Zenon DEF T!Ticks
  <2> HIDE DEF t
  <2>2. QED BY <1>6, <2>1
<1> HIDE DEF t
<1>9. t[0] = 0 /\ \A k \in 1..Len(l) : t[k] = t[k - 1] + l[k].expires
  <2>1. 0 \in D
    BY <1>0
  <2>2. \A k \in 1..Len(l) : k \in D /\ k # 0
    BY <1>0
  <2>3. QED BY <1>8, <2>1, <2>2
<1>10. \A k \in D : t[k] \in Nat
  <2> DEFINE Q == {k \in D : t[k] \in Nat}
  <2>1. 0 \in Q
    BY <1>0, <1>9
  <2>2. ASSUME NEW k \in 0..Len(l) - 1, k \in Q PROVE k + 1 \in Q
    <3>1. k + 1 \in 1..Len(l) /\ k + 1 \in D /\ (k + 1) - 1 = k
      BY <1>0
    <3>2. t[k + 1] = t[k] + l[k + 1].expires
      BY <1>9, <3>1
    <3>3. QED BY <1>0, <2>2, <3>1, <3>2
  <2> HIDE DEF Q
  <2>3. \A k \in 0..Len(l) : k \in Q
    BY <1>0, <2>1, <2>2, ReachesUpTo
  <2>4. QED BY <2>3 DEF Q
<1>11. QED BY <1>9, <1>10 DEF DueAt, t
\* They are determined by the differences.
LEMMA DueUnique ==
  ASSUME NEW l \in Seq(WaitType), NEW g, DueAt(l, g)
  PROVE  \A k \in 0..Len(l) : T!Ticks(l)[k] = g[k]
<1> DEFINE t == T!Ticks(l)
           Q == {k \in 0..Len(l) : t[k] = g[k]}
<1>0. Len(l) \in Nat
  BY LenProperties
<1>1. DueAt(l, t)
  BY TicksDue
<1> HIDE DEF t
<1>2. 0 \in Q
  BY <1>0, <1>1 DEF DueAt
<1>3. ASSUME NEW k \in 0..Len(l) - 1, k \in Q PROVE k + 1 \in Q
  <2>1. k + 1 \in 1..Len(l) /\ k + 1 \in 0..Len(l) /\ (k + 1) - 1 = k
    BY <1>0
  <2>2. t[k + 1] = t[k] + l[k + 1].expires /\ g[k + 1] = g[k] + l[k + 1].expires
    BY <1>1, <2>1 DEF DueAt
  <2>3. QED BY <1>3, <2>1, <2>2
<1> HIDE DEF Q
<1>4. \A k \in 0..Len(l) : k \in Q
  BY <1>0, <1>2, <1>3, ReachesUpTo
<1>5. QED BY <1>4 DEF Q, t

\* Timers further behind are due later.
LEMMA DueGrows ==
  ASSUME NEW l \in Seq(WaitType), NEW j \in 0..Len(l), NEW k \in 0..Len(l), j <= k
  PROVE  T!Ticks(l)[j] <= T!Ticks(l)[k]
<1> DEFINE t == T!Ticks(l)
           Q == {d \in 0..Len(l) : j + d <= Len(l) => t[j] <= t[j + d]}
<1>0. Len(l) \in Nat /\ \A i \in 1..Len(l) : l[i].expires \in Nat
  <2>1. \A i \in 1..Len(l) : l[i] \in WaitType
    BY ElementOfSeq
  <2>2. QED BY <2>1, LenProperties DEF WaitType
<1>1. DueAt(l, t) /\ \A i \in 0..Len(l) : t[i] \in Nat
  BY TicksDue
<1> HIDE DEF t
<1>2. 0 \in Q
  <2>1. t[j] \in Nat /\ j + 0 = j
    BY <1>1
  <2>2. QED BY <1>0, <2>1
<1>3. ASSUME NEW d \in 0..Len(l) - 1, d \in Q PROVE d + 1 \in Q
  <2> SUFFICES ASSUME j + (d + 1) <= Len(l) PROVE t[j] <= t[j + (d + 1)]
    BY <1>0
  <2>1. PICK i : i = j + (d + 1)
    OBVIOUS
  <2>2. i \in 1..Len(l) /\ i - 1 = j + d /\ i - 1 \in 0..Len(l) /\ j + d <= Len(l) /\ i \in 0..Len(l)
    BY <1>0, <2>1
  <2>3. t[i] = t[i - 1] + l[i].expires /\ t[j] <= t[j + d]
    BY <1>1, <1>3, <2>2 DEF DueAt
  <2>4. t[j] \in Nat /\ t[i - 1] \in Nat /\ l[i].expires \in Nat /\ t[i] \in Nat /\ t[j] <= t[i - 1]
    BY <1>0, <1>1, <2>2, <2>3
  <2>5. t[j] <= t[i]
    <3>1. PICK a, b, c, e : a = t[j] /\ b = t[i - 1] /\ c = t[i] /\ e = l[i].expires
      OBVIOUS
    <3>2. a \in Nat /\ b \in Nat /\ c \in Nat /\ e \in Nat /\ a <= b /\ c = b + e
      BY <2>3, <2>4, <3>1
    <3>3. a <= c
      BY <3>2
    <3>4. QED BY <3>1, <3>3
  <2>6. QED BY <2>1, <2>5
<1> HIDE DEF Q
<1>4. \A d \in 0..Len(l) : d \in Q
  BY <1>0, <1>2, <1>3, ReachesUpTo
<1>5. k - j \in 0..Len(l) /\ j + (k - j) = k
  BY <1>0
<1>6. k - j \in Q
  BY <1>4, <1>5
<1>7. j + (k - j) <= Len(l) => t[j] <= t[j + (k - j)]
  BY <1>6 DEF Q
<1>8. t[j] <= t[k]
  BY <1>0, <1>5, <1>7
<1>9. QED BY <1>8 DEF t

\* l is a list of timers of different processes, the first in the future
Queued(l) ==
  /\ l \in Seq(WaitType)
  /\ \A j, k \in 1..Len(l) : l[j].proc = l[k].proc => j = k
  /\ Len(l) > 0 => l[1].expires > 0
  /\ \A k \in 1..Len(l) : T!Ticks(l)[k] <= MaxSleep

\* w has what the processes still have to wait
Waiting(l, w) ==
  /\ w \in [Proc -> Nat]
  /\ \A k \in 1..Len(l) : w[l[k].proc] = T!Ticks(l)[k]
  /\ \A p \in Proc : (\A k \in 1..Len(l) : l[k].proc # p) => w[p] = 0
\* What follows of such a list.
LEMMA WaitsFacts ==
  ASSUME NEW l, Queued(l)
  PROVE  /\ Len(l) \in Nat
         /\ \A k \in 1..Len(l) : l[k] \in WaitType /\ l[k].expires \in Nat /\ l[k].proc \in Proc
         /\ T!Ticks(l)[0] = 0
         /\ \A k \in 1..Len(l) : T!Ticks(l)[k] = T!Ticks(l)[k - 1] + l[k].expires
         /\ \A k \in 0..Len(l) : T!Ticks(l)[k] \in Nat
         /\ \A k \in 1..Len(l) : T!Ticks(l)[k] > 0
<1>0. l \in Seq(WaitType)
  BY DEF Queued
<1>1. DueAt(l, T!Ticks(l)) /\ \A k \in 0..Len(l) : T!Ticks(l)[k] \in Nat
  BY <1>0, TicksDue
<1>2. /\ Len(l) \in Nat
      /\ \A k \in 1..Len(l) : l[k] \in WaitType /\ l[k].expires \in Nat /\ l[k].proc \in Proc
  <2>1. \A k \in 1..Len(l) : l[k] \in WaitType
    BY <1>0, ElementOfSeq
  <2>2. QED BY <1>0, <2>1, LenProperties DEF WaitType
<1>3. /\ T!Ticks(l)[0] = 0
      /\ \A k \in 1..Len(l) : T!Ticks(l)[k] = T!Ticks(l)[k - 1] + l[k].expires
  BY <1>1 DEF DueAt
<1>4. ASSUME NEW k \in 1..Len(l) PROVE T!Ticks(l)[k] > 0
  <2>1. 1 \in 1..Len(l) /\ 1 \in 0..Len(l) /\ k \in 0..Len(l) /\ 1 <= k /\ 0 \in 0..Len(l)
    BY <1>2
  <2>2. T!Ticks(l)[1] = T!Ticks(l)[1 - 1] + l[1].expires /\ l[1].expires > 0
    BY <1>2, <1>3, <2>1 DEF Queued
  <2>3. T!Ticks(l)[1] <= T!Ticks(l)[k]
    BY <1>0, <2>1, DueGrows
  <2>4. PICK a, b, c : a = T!Ticks(l)[1] /\ b = T!Ticks(l)[k] /\ c = l[1].expires
    OBVIOUS
  <2>5. a \in Nat /\ b \in Nat /\ c \in Nat /\ a = 0 + c /\ c > 0 /\ a <= b
    BY <1>1, <1>2, <1>3, <2>1, <2>2, <2>3, <2>4
  <2>6. b > 0
    BY <2>5
  <2>7. QED BY <2>4, <2>6
<1>5. QED BY <1>1, <1>2, <1>3, <1>4

\* what Left of TimerList is of the list l
LeftOf(l) ==
  [p \in Proc |-> IF p \in {l[i].proc : i \in DOMAIN l}
                  THEN T!Ticks(l)[CHOOSE i \in DOMAIN l : l[i].proc = p] ELSE 0]
\* It is what the processes have to wait, and nothing else is.
LEMMA LeftWaiting ==
  ASSUME NEW l, Queued(l)
  PROVE  /\ Waiting(l, LeftOf(l))
         /\ \A w : Waiting(l, w) => w = LeftOf(l)
<1>0. l \in Seq(WaitType) /\ DOMAIN l = 1..Len(l)
  BY LenProperties DEF Queued
<1>1. /\ Len(l) \in Nat
      /\ \A k \in 1..Len(l) : l[k].proc \in Proc
      /\ \A k \in 0..Len(l) : T!Ticks(l)[k] \in Nat
  BY WaitsFacts
<1>2. \A j, k \in 1..Len(l) : l[j].proc = l[k].proc => j = k
  BY DEF Queued
<1>3. ASSUME NEW k \in 1..Len(l)
      PROVE  LeftOf(l)[l[k].proc] = T!Ticks(l)[k]
  <2>1. PICK i : i = CHOOSE j \in DOMAIN l : l[j].proc = l[k].proc
    OBVIOUS
  <2>2. i \in 1..Len(l) /\ l[i].proc = l[k].proc
    BY <1>0, <2>1
  <2>3. i = k
    BY <1>2, <2>2
  <2>4. l[k].proc \in {l[j].proc : j \in DOMAIN l}
    BY <1>0
  <2>5. QED BY <1>1, <2>1, <2>3, <2>4 DEF LeftOf
<1>4. ASSUME NEW p \in Proc, \A k \in 1..Len(l) : l[k].proc # p
      PROVE  LeftOf(l)[p] = 0
  <2>1. p \notin {l[i].proc : i \in DOMAIN l}
    BY <1>0, <1>4
  <2>2. QED BY <2>1 DEF LeftOf
<1>5. ASSUME NEW p \in Proc PROVE LeftOf(l)[p] \in Nat
  <2>1. CASE \E k \in 1..Len(l) : l[k].proc = p
    <3>1. PICK k \in 1..Len(l) : l[k].proc = p
      BY <2>1
    <3>2. LeftOf(l)[p] = T!Ticks(l)[k] /\ k \in 0..Len(l)
      BY <1>1, <1>3, <3>1
    <3>3. QED BY <1>1, <3>2
  <2>2. CASE \A k \in 1..Len(l) : l[k].proc # p
    BY <1>4, <2>2
  <2>3. QED BY <2>1, <2>2
<1>6. LeftOf(l) \in [Proc -> Nat]
  <2> DEFINE F(p) == IF p \in {l[i].proc : i \in DOMAIN l}
                     THEN T!Ticks(l)[CHOOSE i \in DOMAIN l : l[i].proc = p] ELSE 0
  <2>1. LeftOf(l) = [p \in Proc |-> F(p)]
    BY DEF LeftOf
  <2> HIDE DEF F
  <2>2. \A p \in Proc : F(p) \in Nat
    BY <1>5, <2>1
  <2>3. QED BY <2>1, <2>2
<1>7. Waiting(l, LeftOf(l))
  BY <1>3, <1>4, <1>6 DEF Waiting
<1>8. ASSUME NEW w, Waiting(l, w) PROVE w = LeftOf(l)
  <2>1. w \in [Proc -> Nat]
    BY <1>8 DEF Waiting
  <2>2. ASSUME NEW p \in Proc PROVE w[p] = LeftOf(l)[p]
    <3>1. CASE \E k \in 1..Len(l) : l[k].proc = p
      BY <1>3, <1>8, <3>1 DEF Waiting
    <3>2. CASE \A k \in 1..Len(l) : l[k].proc # p
      BY <1>4, <1>8, <3>2 DEF Waiting
    <3>3. QED BY <3>1, <3>2
  <2>3. QED BY <1>6, <2>1, <2>2
<1>9. QED BY <1>7, <1>8

\* the list l after add_timer
PassedIn(l, n) == Max({i \in 0..Len(l) : T!Ticks(l)[i] <= n})
AddedTo(l, p, n) ==
  LET i == PassedIn(l, n)
      rest == n - T!Ticks(l)[i]
  IN InsertAt(T!Shorten(l, i + 1, rest), i + 1, [proc |-> p, expires |-> rest])
\* add_timer: the new timer is due after n ticks, the others as before.
LEMMA AddWaits ==
  ASSUME NEW l, Queued(l), NEW p \in Proc, \A k \in 1..Len(l) : l[k].proc # p,
         NEW n \in 1..MaxSleep, MaxSleep \in Nat, NEW w, Waiting(l, w)
  PROVE  Queued(AddedTo(l, p, n)) /\ Waiting(AddedTo(l, p, n), [w EXCEPT ![p] = n])
<1> DEFINE g == T!Ticks(l)
           i == PassedIn(l, n)
           L == Len(l)
<1>0. /\ L \in Nat /\ l \in Seq(WaitType) /\ DOMAIN l = 1..L
      /\ \A k \in 1..L : l[k] \in WaitType /\ l[k].expires \in Nat /\ l[k].proc \in Proc
      /\ g[0] = 0
      /\ \A k \in 1..L : g[k] = g[k - 1] + l[k].expires
      /\ \A k \in 0..L : g[k] \in Nat
      /\ \A k \in 1..L : g[k] <= MaxSleep
      /\ \A j, k \in 1..L : l[j].proc = l[k].proc => j = k
      /\ L > 0 => l[1].expires > 0
  BY WaitsFacts, LenProperties DEF Queued
<1>1. /\ i \in 0..L /\ g[i] <= n
      /\ \A k \in 0..L : g[k] <= n => k <= i
  <2> DEFINE S == {k \in 0..L : g[k] <= n}
  <2>1. S \subseteq 0..L /\ 0 \in S /\ L \in Nat
    BY <1>0
  <2>2. i = Max(S)
    BY Zenon DEF PassedIn
  <2> HIDE DEF S, i, L
  <2>3. Max(S) \in S /\ \A x \in S : x <= Max(S)
    BY <2>1, MaxIn
  <2> USE DEF S
  <2>4. QED BY <2>2, <2>3
<1> HIDE DEF g, i
<1> DEFINE rest == n - g[i]
           m == T!Shorten(l, i + 1, rest)
           x == [proc |-> p, expires |-> rest]
           r == InsertAt(m, i + 1, x)
<1>2. AddedTo(l, p, n) = r
  BY DEF AddedTo, g, i
<1>3. rest \in Nat /\ i \in Nat /\ g[i] \in Nat /\ rest <= n
  BY <1>0, <1>1
<1>r. rest = n - g[i]
  OBVIOUS
<1> HIDE DEF rest
<1>4. ASSUME i + 1 \in 1..L PROVE l[i + 1].expires - rest \in Nat /\ g[i + 1] = n + (l[i + 1].expires - rest)
  <2>1. i + 1 \in 0..L /\ (i + 1) - 1 = i /\ ~(i + 1 <= i)
    BY <1>0, <1>1, <1>3, <1>4
  <2>2. ~(g[i + 1] <= n) /\ g[i + 1] = g[i] + l[i + 1].expires
    BY <1>0, <1>1, <1>4, <2>1
  <2>3. PICK a, b, c : a = g[i + 1] /\ b = g[i] /\ c = l[i + 1].expires
    OBVIOUS
  <2>4. a \in Nat /\ b \in Nat /\ c \in Nat /\ a = b + c /\ ~(a <= n) /\ rest = n - b
    BY <1>0, <1>1, <1>4, <2>1, <2>2, <2>3, <1>r
  <2>5. c - rest \in Nat /\ a = n + (c - rest)
    BY <2>4
  <2>6. QED BY <2>3, <2>5
<1>5. /\ m \in Seq(WaitType) /\ Len(m) = L
      /\ \A k \in 1..L : k # i + 1 => m[k] = l[k]
      /\ i + 1 \in 1..L => m[i + 1] = [l[i + 1] EXCEPT !.expires = @ - rest]
  <2>1. CASE i + 1 \in 1..L
    <3>1. m = [l EXCEPT ![i + 1].expires = @ - rest]
      BY <1>0, <2>1 DEF T!Shorten
    <3> HIDE DEF m
    <3>2. PICK y : y = [l[i + 1] EXCEPT !.expires = @ - rest]
      OBVIOUS
    <3>3. y \in WaitType
      <4>1. l[i + 1] \in WaitType /\ l[i + 1].expires - rest \in Nat
        BY <1>0, <1>4, <2>1
      <4>2. QED BY <3>2, <4>1 DEF WaitType
    <3>4. m = [l EXCEPT ![i + 1] = y]
      BY <3>1, <3>2
    <3>5. m \in Seq(WaitType) /\ Len(m) = L
      BY <1>0, <2>1, <3>3, <3>4, ExceptSeq
    <3>6. QED BY <1>0, <2>1, <3>2, <3>4, <3>5
  <2>2. CASE i + 1 \notin 1..L
    BY <1>0, <2>2 DEF T!Shorten
  <2>3. QED BY <2>1, <2>2
<1>6. x \in WaitType
  BY <1>3 DEF WaitType
<1>7. /\ r \in Seq(WaitType) /\ Len(r) = L + 1
      /\ \A k \in 1..L + 1 : r[k] = IF k < i + 1 THEN m[k] ELSE IF k = i + 1 THEN x ELSE m[k - 1]
  <2>1. i + 1 \in 1..Len(m)+1
    BY <1>0, <1>1, <1>5
  <2> HIDE DEF m, x
  <2>2. m \in Seq(WaitType) /\ Len(m) = L
    BY <1>5
  <2>3. /\ r \in Seq(WaitType) /\ Len(r) = Len(m) + 1
        /\ \A k \in 1..Len(m) + 1 : r[k] = IF k < i + 1 THEN m[k] ELSE IF k = i + 1 THEN x ELSE m[k - 1]
    BY <1>6, <2>1, <2>2, InsertAtAt
  <2> HIDE DEF r, L
  <2>4. QED BY <2>2, <2>3
<1>x. x.proc = p /\ x.expires = rest
  OBVIOUS
<1> HIDE DEF m, r, x
<1>8. /\ \A k \in 1..i : r[k] = l[k]
      /\ r[i + 1] = x
      /\ i + 1 \in 1..L => r[i + 2].proc = l[i + 1].proc /\ r[i + 2].expires = l[i + 1].expires - rest
      /\ \A k \in i+3..L+1 : r[k] = l[k - 1]
  <2>1. ASSUME NEW k \in 1..i PROVE r[k] = l[k]
    <3>1. k \in 1..L + 1 /\ k \in 1..L /\ k < i + 1 /\ k # i + 1
      BY <1>0, <1>1, <1>3
    <3>2. QED BY <1>5, <1>7, <3>1
  <2>2. r[i + 1] = x
    <3>1. i + 1 \in 1..L + 1 /\ ~(i + 1 < i + 1)
      BY <1>0, <1>1, <1>3
    <3>2. QED BY <1>7, <3>1
  <2>3. ASSUME i + 1 \in 1..L
        PROVE  r[i + 2].proc = l[i + 1].proc /\ r[i + 2].expires = l[i + 1].expires - rest
    <3>1. i + 2 \in 1..L + 1 /\ ~(i + 2 < i + 1) /\ i + 2 # i + 1 /\ (i + 2) - 1 = i + 1
      BY <1>0, <1>3, <2>3
    <3>2. r[i + 2] = m[i + 1]
      BY <1>7, <3>1
    <3>3. m[i + 1] = [l[i + 1] EXCEPT !.expires = @ - rest] /\ l[i + 1] \in WaitType
      BY <1>0, <1>5, <2>3
    <3>4. QED BY <3>2, <3>3 DEF WaitType
  <2>4. ASSUME NEW k \in i+3..L+1 PROVE r[k] = l[k - 1]
    <3>1. k \in 1..L + 1 /\ ~(k < i + 1) /\ k # i + 1 /\ k - 1 \in 1..L /\ k - 1 # i + 1
      BY <1>0, <1>3
    <3>2. QED BY <1>5, <1>7, <3>1
  <2>5. QED BY <2>1, <2>2, <2>3, <2>4
<1> DEFINE h == [k \in 0..L+1 |-> IF k <= i THEN g[k] ELSE IF k = i + 1 THEN n ELSE g[k - 1]]
<1>9. /\ \A k \in 0..i : h[k] = g[k]
      /\ h[i + 1] = n
      /\ \A k \in i+2..L+1 : h[k] = g[k - 1]
  <2>1. ASSUME NEW k \in 0..i PROVE h[k] = g[k]
    <3>1. k \in 0..L+1 /\ k <= i
      BY <1>0, <1>1, <1>3
    <3>2. QED BY <3>1
  <2>2. h[i + 1] = n
    <3>1. i + 1 \in 0..L+1 /\ ~(i + 1 <= i)
      BY <1>0, <1>1, <1>3
    <3>2. QED BY <3>1
  <2>3. ASSUME NEW k \in i+2..L+1 PROVE h[k] = g[k - 1]
    <3>1. k \in 0..L+1 /\ ~(k <= i) /\ k # i + 1
      BY <1>0, <1>1, <1>3
    <3>2. QED BY <3>1
  <2>4. QED BY <2>1, <2>2, <2>3
<1> HIDE DEF h
<1>10. DueAt(r, h)
  <2>1. h[0] = 0
    BY <1>0, <1>3, <1>9
  <2>2. ASSUME NEW k \in 1..L + 1 PROVE h[k] = h[k - 1] + r[k].expires
    <3>1. CASE k <= i
      <4>1. k \in 0..i /\ k - 1 \in 0..i /\ k \in 1..i /\ k \in 1..L
        BY <1>0, <1>1, <1>3, <3>1
      <4>2. QED BY <1>0, <1>8, <1>9, <4>1
    <3>2. CASE k = i + 1
      <4>1. k - 1 = i /\ k - 1 \in 0..i
        BY <1>3, <3>2
      <4>2. h[k] = n /\ h[k - 1] = g[i] /\ r[k].expires = rest
        BY <1>8, <1>9, <1>x, <3>2, <4>1
      <4>3. n = g[i] + rest
        BY <1>3, <1>r
      <4>4. QED BY <4>2, <4>3
    <3>3. CASE k = i + 2
      <4>1. k - 1 = i + 1 /\ i + 1 \in 1..L /\ k \in i+2..L+1
        BY <1>0, <1>3, <3>3
      <4>2. h[k] = g[i + 1] /\ h[k - 1] = n /\ r[k].expires = l[i + 1].expires - rest
        BY <1>8, <1>9, <3>3, <4>1
      <4>3. QED BY <1>4, <4>1, <4>2
    <3>4. CASE k > i + 2
      <4>1. k \in i+3..L+1 /\ k \in i+2..L+1 /\ k - 1 \in i+2..L+1 /\ k - 1 \in 1..L
        BY <1>0, <1>3, <3>4
      <4>2. h[k] = g[k - 1] /\ h[k - 1] = g[(k - 1) - 1] /\ r[k] = l[k - 1]
        BY <1>8, <1>9, <4>1
      <4>3. QED BY <1>0, <4>1, <4>2
    <3>5. QED BY <1>0, <1>3, <3>1, <3>2, <3>3, <3>4
  <2>3. QED BY <1>7, <2>1, <2>2 DEF DueAt
<1>11. \A k \in 0..L + 1 : T!Ticks(r)[k] = h[k]
  BY <1>7, <1>10, DueUnique
<1>12. /\ \A k \in 1..i : r[k].proc = l[k].proc /\ T!Ticks(r)[k] = g[k]
       /\ r[i + 1].proc = p /\ T!Ticks(r)[i + 1] = n
       /\ \A k \in i+2..L+1 : r[k].proc = l[k - 1].proc /\ T!Ticks(r)[k] = g[k - 1]
  <2>1. ASSUME NEW k \in 1..i PROVE r[k].proc = l[k].proc /\ T!Ticks(r)[k] = g[k]
    <3>1. k \in 0..i /\ k \in 0..L+1
      BY <1>0, <1>1, <1>3
    <3>2. QED BY <1>8, <1>9, <1>11, <3>1
  <2>2. r[i + 1].proc = p /\ T!Ticks(r)[i + 1] = n
    <3>1. i + 1 \in 0..L+1
      BY <1>0, <1>1, <1>3
    <3>2. QED BY <1>8, <1>9, <1>11, <1>x, <3>1
  <2>3. ASSUME NEW k \in i+2..L+1 PROVE r[k].proc = l[k - 1].proc /\ T!Ticks(r)[k] = g[k - 1]
    <3>1. k \in 0..L+1
      BY <1>0, <1>1, <1>3
    <3>2. T!Ticks(r)[k] = g[k - 1]
      BY <1>9, <1>11, <3>1
    <3>3. CASE k = i + 2
      <4>1. k - 1 = i + 1 /\ i + 1 \in 1..L
        BY <1>0, <1>3, <3>3
      <4>2. QED BY <1>8, <3>2, <3>3, <4>1
    <3>4. CASE k # i + 2
      <4>1. k \in i+3..L+1
        BY <1>0, <1>3, <3>4
      <4>2. QED BY <1>8, <3>2, <4>1
    <3>5. QED BY <3>3, <3>4
  <2>4. QED BY <2>1, <2>2, <2>3
\* where the timers of r were in l, 0 for the new one
<1> DEFINE o == [k \in 1..L+1 |-> IF k <= i THEN k ELSE IF k = i + 1 THEN 0 ELSE k - 1]
<1>13. /\ o[i + 1] = 0
       /\ \A k \in 1..L+1 : k # i + 1 => o[k] \in 1..L /\ r[k].proc = l[o[k]].proc /\ T!Ticks(r)[k] = g[o[k]]
       /\ \A k \in 1..L+1 : k # i + 1 => o[k] = IF k <= i THEN k ELSE k - 1
       /\ \A j \in 1..L : \E k \in 1..L+1 : k # i + 1 /\ o[k] = j
  <2>1. o[i + 1] = 0
    <3>1. i + 1 \in 1..L+1 /\ ~(i + 1 <= i)
      BY <1>0, <1>1, <1>3
    <3>2. QED BY <3>1
  <2>2. \A k \in 1..L+1 : k # i + 1 => o[k] = IF k <= i THEN k ELSE k - 1
    OBVIOUS
  <2> HIDE DEF o
  <2>3. ASSUME NEW k \in 1..L+1, k # i + 1
        PROVE o[k] \in 1..L /\ r[k].proc = l[o[k]].proc /\ T!Ticks(r)[k] = g[o[k]]
    <3>1. CASE k <= i
      <4>1. k \in 1..i /\ k \in 1..L
        BY <1>0, <1>1, <1>3, <3>1
      <4>2. QED BY <1>12, <2>2, <2>3, <3>1, <4>1
    <3>2. CASE ~(k <= i)
      <4>1. k \in i+2..L+1 /\ k - 1 \in 1..L
        BY <1>0, <1>1, <1>3, <2>3, <3>2
      <4>2. QED BY <1>12, <2>2, <2>3, <3>2, <4>1
    <3>3. QED BY <3>1, <3>2
  <2>4. ASSUME NEW j \in 1..L PROVE \E k \in 1..L+1 : k # i + 1 /\ o[k] = j
    <3>1. CASE j <= i
      <4>1. j \in 1..L+1 /\ j # i + 1
        BY <1>0, <1>3, <3>1
      <4>2. QED BY <2>2, <3>1, <4>1
    <3>2. CASE ~(j <= i)
      <4>1. j + 1 \in 1..L+1 /\ j + 1 # i + 1 /\ ~(j + 1 <= i) /\ (j + 1) - 1 = j
        BY <1>0, <1>3, <3>2
      <4>2. QED BY <2>2, <4>1
    <3>3. QED BY <3>1, <3>2
  <2>5. QED BY <2>1, <2>2, <2>3, <2>4
<1> HIDE DEF o
<1>14. Queued(r)
  <2>1. ASSUME NEW j \in 1..L+1, NEW k \in 1..L+1, r[j].proc = r[k].proc PROVE j = k
    <3>0. \A e \in 1..L+1 : e # i + 1 => r[e].proc # p
      <4> SUFFICES ASSUME NEW e \in 1..L+1, e # i + 1 PROVE r[e].proc # p
        OBVIOUS
      <4>1. o[e] \in 1..L /\ r[e].proc = l[o[e]].proc
        BY <1>13
      <4>2. QED BY <4>1
    <3>1. CASE j = i + 1 \/ k = i + 1
      BY <1>12, <2>1, <3>0, <3>1
    <3>2. CASE j # i + 1 /\ k # i + 1
      <4>0. /\ o[j] \in 1..L /\ r[j].proc = l[o[j]].proc
            /\ o[k] \in 1..L /\ r[k].proc = l[o[k]].proc
        BY <1>13, <3>2
      <4>1. o[j] = o[k]
        BY <1>0, <2>1, <4>0
      <4>2. QED BY <1>3, <1>13, <3>2, <4>1
    <3>3. QED BY <3>1, <3>2
  <2>2. r[1].expires > 0
    <3>1. CASE i = 0
      <4>1. r[1].expires = n - 0
        BY <1>0, <1>8, <1>x, <1>r, <3>1
      <4>2. QED BY <4>1
    <3>2. CASE i # 0
      <4>1. 1 \in 1..i /\ L > 0
        BY <1>0, <1>1, <1>3, <3>2
      <4>2. QED BY <1>0, <1>8, <4>1
    <3>3. QED BY <3>1, <3>2
  <2>3. ASSUME NEW k \in 1..L+1 PROVE T!Ticks(r)[k] <= MaxSleep
    <3>1. CASE k = i + 1
      BY <1>12, <3>1
    <3>2. CASE k # i + 1
      <4>1. o[k] \in 1..L /\ T!Ticks(r)[k] = g[o[k]]
        BY <1>13, <3>2
      <4>2. QED BY <1>0, <4>1
    <3>3. QED BY <3>1, <3>2
  <2>4. QED BY <1>7, <2>1, <2>2, <2>3 DEF Queued
<1>15. Waiting(r, [w EXCEPT ![p] = n])
  <2> DEFINE u == [w EXCEPT ![p] = n]
  <2>0. /\ w \in [Proc -> Nat] /\ n \in Nat
        /\ \A k \in 1..L : w[l[k].proc] = g[k]
        /\ \A q \in Proc : (\A k \in 1..L : l[k].proc # q) => w[q] = 0
    BY DEF Waiting, g
  <2>1. u \in [Proc -> Nat] /\ u[p] = n /\ \A q \in Proc : q # p => u[q] = w[q]
    BY <2>0
  <2> HIDE DEF u
  <2>2. ASSUME NEW k \in 1..L+1 PROVE u[r[k].proc] = T!Ticks(r)[k]
    <3>1. CASE k = i + 1
      BY <1>12, <2>1, <3>1
    <3>2. CASE k # i + 1
      <4>1. o[k] \in 1..L /\ r[k].proc = l[o[k]].proc /\ T!Ticks(r)[k] = g[o[k]]
        BY <1>13, <3>2
      <4>2. l[o[k]].proc # p /\ l[o[k]].proc \in Proc
        BY <1>0, <4>1
      <4>3. QED BY <2>0, <2>1, <4>1, <4>2
    <3>3. QED BY <3>1, <3>2
  <2>3. ASSUME NEW q \in Proc, \A k \in 1..L+1 : r[k].proc # q PROVE u[q] = 0
    <3>1. q # p
      <4>1. i + 1 \in 1..L+1
        BY <1>0, <1>1, <1>3
      <4>2. QED BY <1>12, <2>3, <4>1
    <3>2. ASSUME NEW j \in 1..L PROVE l[j].proc # q
      <4>1. PICK k \in 1..L+1 : k # i + 1 /\ o[k] = j
        BY <1>13
      <4>2. QED BY <1>13, <2>3, <4>1
    <3>3. QED BY <2>0, <2>1, <3>1, <3>2
  <2>4. QED BY <1>7, <2>1, <2>2, <2>3 DEF Waiting, u
<1>16. QED BY <1>2, <1>14, <1>15
\* del_timer: the timer is gone, the others are due as before.
LEMMA DelWaits ==
  ASSUME NEW l, Queued(l), NEW i \in 1..Len(l), NEW w, Waiting(l, w)
  PROVE  LET r == RemoveAt(T!Lengthen(l, i), i) IN
         Queued(r) /\ Waiting(r, [w EXCEPT ![l[i].proc] = 0])
<1> DEFINE g == T!Ticks(l)
           L == Len(l)
           p == l[i].proc
           m == T!Lengthen(l, i)
           r == RemoveAt(m, i)
<1>0. /\ L \in Nat /\ l \in Seq(WaitType) /\ DOMAIN l = 1..L
      /\ \A k \in 1..L : l[k] \in WaitType /\ l[k].expires \in Nat /\ l[k].proc \in Proc
      /\ g[0] = 0
      /\ \A k \in 1..L : g[k] = g[k - 1] + l[k].expires
      /\ \A k \in 0..L : g[k] \in Nat
      /\ \A k \in 1..L : g[k] <= MaxSleep
      /\ \A j, k \in 1..L : l[j].proc = l[k].proc => j = k
      /\ L > 0 => l[1].expires > 0
      /\ i \in 1..L /\ i \in Nat /\ p = l[i].proc /\ p \in Proc
  BY WaitsFacts, LenProperties DEF Queued
<1> HIDE DEF g, L, p
<1>5. /\ m \in Seq(WaitType) /\ Len(m) = L
      /\ \A k \in 1..L : k # i + 1 => m[k] = l[k]
      /\ i + 1 \in 1..L => m[i + 1].proc = l[i + 1].proc /\ m[i + 1].expires = l[i + 1].expires + l[i].expires
  <2>1. CASE i + 1 \in 1..L
    <3>1. m = [l EXCEPT ![i + 1].expires = @ + l[i].expires]
      BY <1>0, <2>1 DEF T!Lengthen
    <3> HIDE DEF m
    <3>2. PICK y : y = [l[i + 1] EXCEPT !.expires = @ + l[i].expires]
      OBVIOUS
    <3>3. y \in WaitType /\ y.proc = l[i + 1].proc /\ y.expires = l[i + 1].expires + l[i].expires
      <4>1. l[i + 1] \in WaitType /\ l[i + 1].expires + l[i].expires \in Nat
        BY <1>0, <2>1
      <4>2. QED BY <3>2, <4>1 DEF WaitType
    <3>4. m = [l EXCEPT ![i + 1] = y]
      BY <3>1, <3>2
    <3>a. i + 1 \in 1..Len(l) /\ Len(l) = L
      BY <2>1 DEF L
    <3>b. [l EXCEPT ![i + 1] = y] \in Seq(WaitType) /\ Len([l EXCEPT ![i + 1] = y]) = Len(l)
      BY <1>0, <3>3, <3>a, ExceptSeq
    <3>5. m \in Seq(WaitType) /\ Len(m) = L
      BY <3>4, <3>a, <3>b
    <3>6. QED BY <1>0, <2>1, <3>3, <3>4, <3>5
  <2>2. CASE i + 1 \notin 1..L
    BY <1>0, <2>2 DEF T!Lengthen, L
  <2>3. QED BY <2>1, <2>2
<1> HIDE DEF m
<1>7. /\ r \in Seq(WaitType) /\ Len(r) = L - 1
      /\ \A k \in 1..L - 1 : r[k] = m[IF k < i THEN k ELSE k + 1]
  <2>1. i \in 1..Len(m)
    BY <1>0, <1>5
  <2>2. m \in Seq(WaitType) /\ Len(m) = L
    BY <1>5
  <2>3. /\ r \in Seq(WaitType) /\ Len(r) = Len(m) - 1
        /\ \A k \in 1..Len(m) - 1 : r[k] = m[IF k < i THEN k ELSE k + 1]
    BY <2>1, <2>2, RemoveAtAt
  <2> HIDE DEF r
  <2>4. QED BY <2>2, <2>3
<1> HIDE DEF r
<1>8. /\ \A k \in 1..i-1 : r[k] = l[k]
      /\ i + 1 \in 1..L => r[i].proc = l[i + 1].proc /\ r[i].expires = l[i + 1].expires + l[i].expires
      /\ \A k \in i+1..L-1 : r[k] = l[k + 1]
  <2>1. ASSUME NEW k \in 1..i-1 PROVE r[k] = l[k]
    <3>1. k \in 1..L - 1 /\ k < i /\ k \in 1..L /\ k # i + 1
      BY <1>0
    <3>2. QED BY <1>5, <1>7, <3>1
  <2>2. ASSUME i + 1 \in 1..L
        PROVE  r[i].proc = l[i + 1].proc /\ r[i].expires = l[i + 1].expires + l[i].expires
    <3>1. i \in 1..L - 1 /\ ~(i < i)
      BY <1>0, <2>2
    <3>2. r[i] = m[i + 1]
      BY <1>7, <3>1
    <3>3. QED BY <1>5, <2>2, <3>2
  <2>3. ASSUME NEW k \in i+1..L-1 PROVE r[k] = l[k + 1]
    <3>1. k \in 1..L - 1 /\ ~(k < i) /\ k + 1 \in 1..L /\ k + 1 # i + 1
      BY <1>0
    <3>2. QED BY <1>5, <1>7, <3>1
  <2>4. QED BY <2>1, <2>2, <2>3
<1> DEFINE h == [k \in 0..L-1 |-> IF k < i THEN g[k] ELSE g[k + 1]]
<1>9. \A k \in 0..L-1 : h[k] = IF k < i THEN g[k] ELSE g[k + 1]
  OBVIOUS
<1> HIDE DEF h
<1>10. DueAt(r, h)
  <2>1. h[0] = 0
    <3>1. 0 \in 0..L-1 /\ 0 < i
      BY <1>0
    <3>2. QED BY <1>0, <1>9, <3>1
  <2>2. ASSUME NEW k \in 1..L - 1 PROVE h[k] = h[k - 1] + r[k].expires
    <3>1. CASE k < i
      <4>1. k \in 0..L-1 /\ k - 1 \in 0..L-1 /\ k - 1 < i /\ k \in 1..i-1 /\ k \in 1..L
        BY <1>0, <3>1
      <4>2. h[k] = g[k] /\ h[k - 1] = g[k - 1] /\ r[k] = l[k]
        BY <1>8, <1>9, <3>1, <4>1
      <4>3. QED BY <1>0, <4>1, <4>2
    <3>2. CASE k = i
      <4>1. k \in 0..L-1 /\ k - 1 \in 0..L-1 /\ k - 1 < i /\ ~(k < i) /\ i + 1 \in 1..L /\ (i + 1) - 1 = i
            /\ i - 1 \in 0..L /\ i + 1 \in 0..L
        BY <1>0, <3>2
      <4>2. h[k] = g[i + 1] /\ h[k - 1] = g[i - 1] /\ r[k].expires = l[i + 1].expires + l[i].expires
        BY <1>8, <1>9, <3>2, <4>1
      <4>3. g[i + 1] = g[i] + l[i + 1].expires /\ g[i] = g[i - 1] + l[i].expires
        BY <1>0, <4>1
      <4>4. g[i + 1] \in Nat /\ g[i - 1] \in Nat /\ l[i].expires \in Nat /\ l[i + 1].expires \in Nat
        BY <1>0, <4>1
      <4>5. QED BY <4>2, <4>3, <4>4
    <3>3. CASE k > i
      <4>1. k \in 0..L-1 /\ k - 1 \in 0..L-1 /\ ~(k - 1 < i) /\ ~(k < i) /\ k \in i+1..L-1 /\ k + 1 \in 1..L
            /\ (k - 1) + 1 = k /\ (k + 1) - 1 = k
        BY <1>0, <3>3
      <4>2. h[k] = g[k + 1] /\ h[k - 1] = g[(k - 1) + 1] /\ r[k] = l[k + 1]
        BY <1>8, <1>9, <4>1
      <4>3. QED BY <1>0, <4>1, <4>2
    <3>4. QED BY <1>0, <3>1, <3>2, <3>3
  <2>3. QED BY <1>7, <2>1, <2>2 DEF DueAt
<1>11. \A k \in 0..L - 1 : T!Ticks(r)[k] = h[k]
  BY <1>7, <1>10, DueUnique
\* where the timers of r were in l
<1> DEFINE o == [k \in 1..L-1 |-> IF k < i THEN k ELSE k + 1]
<1>13. /\ \A k \in 1..L-1 : o[k] = IF k < i THEN k ELSE k + 1
       /\ \A k \in 1..L-1 : o[k] \in 1..L /\ o[k] # i /\ r[k].proc = l[o[k]].proc /\ T!Ticks(r)[k] = g[o[k]]
       /\ \A j \in 1..L : j # i => \E k \in 1..L-1 : o[k] = j
  <2>1. \A k \in 1..L-1 : o[k] = IF k < i THEN k ELSE k + 1
    OBVIOUS
  <2> HIDE DEF o
  <2>2. ASSUME NEW k \in 1..L-1
        PROVE o[k] \in 1..L /\ o[k] # i /\ r[k].proc = l[o[k]].proc /\ T!Ticks(r)[k] = g[o[k]]
    <3>0. k \in 0..L-1 /\ T!Ticks(r)[k] = h[k]
      BY <1>0, <1>11
    <3>1. T!Ticks(r)[k] = g[o[k]]
      BY <1>9, <2>1, <3>0
    <3>2. CASE k < i
      <4>1. k \in 1..i-1 /\ k \in 1..L /\ k # i
        BY <1>0, <3>2
      <4>2. QED BY <1>8, <2>1, <3>1, <3>2, <4>1
    <3>3. CASE k = i
      <4>1. i + 1 \in 1..L /\ i + 1 # i /\ ~(k < i)
        BY <1>0, <3>3
      <4>2. o[k] = i + 1
        BY <2>1, <3>3, <4>1
      <4>3. QED BY <1>8, <3>1, <3>3, <4>1, <4>2
    <3>4. CASE k > i
      <4>1. k \in i+1..L-1 /\ k + 1 \in 1..L /\ k + 1 # i /\ ~(k < i)
        BY <1>0, <3>4
      <4>2. o[k] = k + 1
        BY <2>1, <4>1
      <4>3. QED BY <1>8, <3>1, <4>1, <4>2
    <3>5. QED BY <1>0, <3>2, <3>3, <3>4
  <2>3. ASSUME NEW j \in 1..L, j # i PROVE \E k \in 1..L-1 : o[k] = j
    <3>1. CASE j < i
      <4>1. j \in 1..L-1
        BY <1>0, <3>1
      <4>2. QED BY <2>1, <3>1, <4>1
    <3>2. CASE ~(j < i)
      <4>1. j - 1 \in 1..L-1 /\ ~(j - 1 < i) /\ (j - 1) + 1 = j
        BY <1>0, <2>3, <3>2
      <4>2. QED BY <2>1, <4>1
    <3>3. QED BY <3>1, <3>2
  <2>4. QED BY <2>1, <2>2, <2>3
<1> HIDE DEF o
<1>14. Queued(r)
  <2>1. ASSUME NEW j \in 1..L-1, NEW k \in 1..L-1, r[j].proc = r[k].proc PROVE j = k
    <3>1. /\ o[j] \in 1..L /\ r[j].proc = l[o[j]].proc
          /\ o[k] \in 1..L /\ r[k].proc = l[o[k]].proc
      BY <1>13
    <3>2. o[j] = o[k]
      BY <1>0, <2>1, <3>1
    <3>3. o[j] = (IF j < i THEN j ELSE j + 1) /\ o[k] = (IF k < i THEN k ELSE k + 1)
      BY <1>13
    <3>4. (IF j < i THEN j ELSE j + 1) = (IF k < i THEN k ELSE k + 1)
      BY <3>2, <3>3
    <3>5. j \in Int /\ k \in Int /\ i \in Int
      BY <1>0
    <3>6. QED BY <3>4, <3>5
  <2>2. ASSUME L - 1 > 0 PROVE r[1].expires > 0
    <3>1. CASE i = 1
      <4>1. i + 1 \in 1..L /\ 1 \in 1..L /\ L > 0
        BY <1>0, <2>2, <3>1
      <4>2. r[1].expires = l[i + 1].expires + l[i].expires /\ l[i + 1].expires \in Nat
            /\ l[i].expires \in Nat /\ l[i].expires > 0
        BY <1>0, <1>8, <3>1, <4>1
      <4>3. QED BY <4>2
    <3>2. CASE i # 1
      <4>1. 1 \in 1..i-1 /\ L > 0
        BY <1>0, <3>2
      <4>2. QED BY <1>0, <1>8, <4>1
    <3>3. QED BY <3>1, <3>2
  <2>3. ASSUME NEW k \in 1..L-1 PROVE T!Ticks(r)[k] <= MaxSleep
    <3>1. o[k] \in 1..L /\ T!Ticks(r)[k] = g[o[k]]
      BY <1>13
    <3>2. QED BY <1>0, <3>1
  <2>4. QED BY <1>7, <2>1, <2>2, <2>3 DEF Queued
<1>15. Waiting(r, [w EXCEPT ![p] = 0])
  <2> DEFINE u == [w EXCEPT ![p] = 0]
  <2>0. /\ w \in [Proc -> Nat]
        /\ \A k \in 1..L : w[l[k].proc] = g[k]
        /\ \A q \in Proc : (\A k \in 1..L : l[k].proc # q) => w[q] = 0
    BY DEF Waiting, g, L
  <2>1. u \in [Proc -> Nat] /\ u[p] = 0 /\ \A q \in Proc : q # p => u[q] = w[q]
    BY <1>0, <2>0
  <2> HIDE DEF u
  <2>2. ASSUME NEW k \in 1..L-1 PROVE u[r[k].proc] = T!Ticks(r)[k]
    <3>1. o[k] \in 1..L /\ o[k] # i /\ r[k].proc = l[o[k]].proc /\ T!Ticks(r)[k] = g[o[k]]
      BY <1>13
    <3>2. l[o[k]].proc # p /\ l[o[k]].proc \in Proc
      BY <1>0, <3>1
    <3>3. QED BY <2>0, <2>1, <3>1, <3>2
  <2>3. ASSUME NEW q \in Proc, \A k \in 1..L-1 : r[k].proc # q PROVE u[q] = 0
    <3>1. CASE q = p
      BY <2>1, <3>1
    <3>2. CASE q # p
      <4>1. ASSUME NEW j \in 1..L PROVE l[j].proc # q
        <5>1. CASE j = i
          BY <1>0, <3>2, <5>1
        <5>2. CASE j # i
          <6>1. PICK k \in 1..L-1 : o[k] = j
            BY <1>13, <5>2
          <6>2. r[k].proc = l[o[k]].proc
            BY <1>13
          <6>3. QED BY <2>3, <6>1, <6>2
        <5>3. QED BY <5>1, <5>2
      <4>2. QED BY <2>0, <2>1, <3>2, <4>1
    <3>3. QED BY <3>1, <3>2
  <2>4. QED BY <1>7, <2>1, <2>2, <2>3 DEF Waiting, u
<1>16. QED BY <1>14, <1>15 DEF r, m, p

\* of the list l, as in run_timer_list
ExpiredIn(l) == Max({i \in 0..Len(l) : \A j \in 1..i : l[j].expires = 0})
OneLess(l) == [l EXCEPT ![1].expires = @ - 1]

\* One tick: the timers that had one tick left are gone, the others have one less.
LEMMA TickWaits ==
  ASSUME NEW l, Queued(l), Len(l) > 0, NEW w, Waiting(l, w)
  PROVE  LET k == ExpiredIn(OneLess(l))
             r == SubSeq(OneLess(l), k + 1, Len(OneLess(l)))
         IN /\ Queued(r)
            /\ Waiting(r, [p \in Proc |-> IF w[p] = 0 THEN 0 ELSE w[p] - 1])
            /\ {OneLess(l)[i].proc : i \in 1..k} = {p \in Proc : w[p] = 1}
<1> DEFINE g == T!Ticks(l)
           L == Len(l)
           m == OneLess(l)
           e == ExpiredIn(m)
           r == SubSeq(m, e + 1, Len(m))
<1>0. /\ L \in Nat /\ l \in Seq(WaitType) /\ DOMAIN l = 1..L
      /\ \A k \in 1..L : l[k] \in WaitType /\ l[k].expires \in Nat /\ l[k].proc \in Proc
      /\ g[0] = 0
      /\ \A k \in 1..L : g[k] = g[k - 1] + l[k].expires
      /\ \A k \in 0..L : g[k] \in Nat
      /\ \A k \in 1..L : g[k] > 0
      /\ \A k \in 1..L : g[k] <= MaxSleep
      /\ \A j, k \in 1..L : l[j].proc = l[k].proc => j = k
      /\ l[1].expires > 0 /\ 1 \in 1..L
      /\ \A j, k \in 0..L : j <= k => g[j] <= g[k]
  <2>1. L \in Nat /\ 1 \in 1..L
    BY WaitsFacts
  <2>2. l \in Seq(WaitType)
    BY DEF Queued
  <2>3. \A j, k \in 0..L : j <= k => g[j] <= g[k]
    BY <2>2, DueGrows
  <2>4. QED BY <2>1, <2>2, <2>3, WaitsFacts, LenProperties DEF Queued
<1>1. /\ m \in Seq(WaitType) /\ Len(m) = L
      /\ \A k \in 1..L : m[k].proc = l[k].proc /\ m[k].expires = IF k = 1 THEN l[1].expires - 1 ELSE l[k].expires
  <2>1. PICK y : y = [l[1] EXCEPT !.expires = @ - 1]
    OBVIOUS
  <2>2. y \in WaitType /\ y.proc = l[1].proc /\ y.expires = l[1].expires - 1
    <3>1. l[1] \in WaitType /\ l[1].expires - 1 \in Nat
      BY <1>0
    <3>2. QED BY <2>1, <3>1 DEF WaitType
  <2>3. m = [l EXCEPT ![1] = y]
    BY <2>1 DEF OneLess
  <2>4. 1 \in 1..Len(l)
    BY <1>0
  <2>5. /\ [l EXCEPT ![1] = y] \in Seq(WaitType) /\ Len([l EXCEPT ![1] = y]) = Len(l)
    BY <1>0, <2>2, <2>4, ExceptSeq
  <2>6. ASSUME NEW k \in 1..L PROVE [l EXCEPT ![1] = y][k] = IF k = 1 THEN y ELSE l[k]
    BY <1>0
  <2>7. QED BY <2>2, <2>3, <2>5, <2>6
<1> HIDE DEF g, L, m
<1>2. /\ e \in 0..L /\ \A j \in 1..e : m[j].expires = 0
      /\ e < L => m[e + 1].expires # 0
  <2> DEFINE S == {k \in 0..L : \A j \in 1..k : m[j].expires = 0}
  <2>1. S \subseteq 0..L /\ 0 \in S /\ L \in Nat
    BY <1>0
  <2>2. e = Max(S)
    BY <1>1, Zenon DEF ExpiredIn
  <2> HIDE DEF S, e
  <2>3. Max(S) \in S /\ \A x \in S : x <= Max(S)
    BY <2>1, MaxIn
  <2>4. e \in S /\ \A x \in S : x <= e
    BY <2>2, <2>3
  <2>5. e \in 0..L /\ \A j \in 1..e : m[j].expires = 0
    BY <2>4 DEF S
  <2>6. ASSUME e < L PROVE m[e + 1].expires # 0
    <3> SUFFICES ASSUME m[e + 1].expires = 0 PROVE FALSE
      OBVIOUS
    <3>1. e + 1 \in 0..L /\ ~(e + 1 <= e)
      BY <1>0, <2>5, <2>6
    <3>2. ASSUME NEW j \in 1..e + 1 PROVE m[j].expires = 0
      <4>1. j \in 1..e \/ j = e + 1
        BY <1>0, <2>5
      <4>2. QED BY <2>5, <4>1
    <3>3. e + 1 \in S
      BY <3>1, <3>2 DEF S
    <3>4. QED BY <2>4, <3>1, <3>3
  <2>7. QED BY <2>5, <2>6
<1> HIDE DEF e
<1>3. e \in Nat /\ e <= L
  BY <1>0, <1>2
\* the timers that have expired were due at this tick
<1>4. \A k \in 1..e : g[k] = 1
  <2> DEFINE Q == {k \in 0..e : k = 0 \/ g[k] = 1}
  <2>1. 0 \in Q
    BY <1>3
  <2>2. ASSUME NEW k \in 0..e - 1, k \in Q PROVE k + 1 \in Q
    <3>1. k + 1 \in 1..e /\ k + 1 \in 1..L /\ (k + 1) - 1 = k /\ k + 1 \in 0..e
      BY <1>0, <1>3
    <3>2. m[k + 1].expires = 0 /\ g[k + 1] = g[k] + l[k + 1].expires /\ l[k + 1].expires \in Nat
      BY <1>0, <1>2, <3>1
    <3>3. CASE k = 0
      <4>0. k + 1 = 1
        BY <3>3
      <4>a. m[1].expires = IF 1 = 1 THEN l[1].expires - 1 ELSE l[1].expires
        <5>1. 1 \in 1..L
          BY <1>0
        <5>2. QED BY <1>1, <5>1
      <4>1. l[1].expires - 1 = 0
        BY <3>2, <4>0, <4>a
      <4>2. l[1].expires \in Nat
        BY <1>0
      <4>3. QED BY <1>0, <3>1, <3>2, <3>3, <4>1, <4>2
    <3>4. CASE k # 0
      <4>1. k + 1 # 1
        BY <3>4
      <4>2. l[k + 1].expires = 0
        BY <1>1, <3>1, <3>2, <4>1
      <4>3. g[k] = 1
        BY <2>2, <3>4
      <4>4. QED BY <3>1, <3>2, <4>2, <4>3
    <3>5. QED BY <3>3, <3>4
  <2> HIDE DEF Q
  <2>3. \A k \in 0..e : k \in Q
    BY <1>3, <2>1, <2>2, ReachesUpTo
  <2>4. ASSUME NEW k \in 1..e PROVE g[k] = 1
    <3>1. k \in 0..e /\ k # 0
      BY <1>3
    <3>2. QED BY <2>3, <3>1 DEF Q
  <2>5. QED BY <2>4
<1>5. ASSUME e < L PROVE g[e + 1] > 1 /\ g[e + 1] - 1 = m[e + 1].expires
  <2>1. e + 1 \in 1..L /\ (e + 1) - 1 = e
    BY <1>0, <1>3, <1>5
  <2>2. g[e + 1] = g[e] + l[e + 1].expires /\ l[e + 1].expires \in Nat
    BY <1>0, <2>1
  <2>3. CASE e = 0
    <3>1. m[1].expires # 0 /\ m[1].expires = l[1].expires - 1
      BY <1>0, <1>1, <1>2, <1>5, <2>3
    <3>2. QED BY <1>0, <2>2, <2>3, <3>1
  <2>4. CASE e # 0
    <3>1. e \in 1..e /\ e + 1 # 1
      BY <1>3, <2>4
    <3>2. g[e] = 1 /\ m[e + 1].expires = l[e + 1].expires
      BY <1>1, <1>4, <2>1, <3>1
    <3>3. l[e + 1].expires # 0
      BY <1>2, <1>5, <3>2
    <3>4. QED BY <2>2, <3>2, <3>3
  <2>5. QED BY <2>3, <2>4
<1>6. \A k \in e + 1..L : g[k] > 1 /\ k \in 1..L
  <2> SUFFICES ASSUME NEW k \in e + 1..L PROVE g[k] > 1 /\ k \in 1..L
    OBVIOUS
  <2>1. e < L /\ k \in 1..L /\ k \in 0..L /\ e + 1 \in 0..L /\ e + 1 <= k
    BY <1>0, <1>3
  <2>2. g[e + 1] > 1 /\ g[e + 1] <= g[k]
    BY <1>0, <1>5, <2>1
  <2>3. g[k] \in Nat /\ g[e + 1] \in Nat
    BY <1>0, <2>1
  <2>4. QED BY <2>1, <2>2, <2>3
<1>7. /\ r \in Seq(WaitType) /\ Len(r) = L - e
      /\ \A k \in 1..L - e : r[k] = m[e + k]
  <2>1. e + 1 \in 1..Len(m)+1 /\ Len(m) \in (e + 1) - 1..Len(m)
    BY <1>0, <1>1, <1>3
  <2>2. /\ r \in Seq(WaitType) /\ Len(r) = Len(m) - (e + 1) + 1
        /\ \A k \in 1..Len(m) - (e + 1) + 1 : r[k] = m[(e + 1) + k - 1]
    BY <1>1, <2>1, SubSeqAt
  <2> HIDE DEF r
  <2>3. Len(m) - (e + 1) + 1 = L - e /\ \A k \in 1..L - e : (e + 1) + k - 1 = e + k
    BY <1>0, <1>1, <1>3
  <2>4. QED BY <2>2, <2>3
<1> HIDE DEF r
<1>8. \A k \in 1..L - e : /\ e + k \in 1..L /\ e + k \in e + 1..L
                          /\ r[k].proc = l[e + k].proc
                          /\ r[k].expires = m[e + k].expires
  <2> SUFFICES ASSUME NEW k \in 1..L - e
               PROVE  /\ e + k \in 1..L /\ e + k \in e + 1..L
                      /\ r[k].proc = l[e + k].proc
                      /\ r[k].expires = m[e + k].expires
    OBVIOUS
  <2>1. e + k \in 1..L /\ e + k \in e + 1..L
    BY <1>0, <1>3
  <2>2. QED BY <1>1, <1>7, <2>1
<1> DEFINE h == [k \in 0..L-e |-> IF k = 0 THEN 0 ELSE g[e + k] - 1]
<1>9. h[0] = 0 /\ \A k \in 1..L-e : h[k] = g[e + k] - 1
  BY <1>0, <1>3
<1> HIDE DEF h
<1>10. DueAt(r, h)
  <2>1. ASSUME NEW k \in 1..L - e PROVE h[k] = h[k - 1] + r[k].expires
    <3>1. CASE k = 1
      <4>1. e < L
        BY <1>0, <1>3
      <4>2. h[1] = g[e + 1] - 1 /\ h[0] = 0 /\ r[1].expires = m[e + 1].expires
        BY <1>8, <1>9, <3>1
      <4>3. g[e + 1] - 1 = m[e + 1].expires /\ g[e + 1] \in Nat
        <5>1. e + 1 \in 0..L
          BY <1>0, <1>3, <4>1
        <5>2. QED BY <1>0, <1>5, <4>1, <5>1
      <4>4. QED BY <3>1, <4>2, <4>3
    <3>2. CASE k # 1
      <4>1. k - 1 \in 1..L - e /\ e + k \in 1..L /\ e + k # 1 /\ (e + k) - 1 = e + (k - 1) /\ e + (k - 1) \in 0..L
            /\ e + k \in 0..L
        BY <1>0, <1>3, <3>2
      <4>2. h[k] = g[e + k] - 1 /\ h[k - 1] = g[e + (k - 1)] - 1
        BY <1>9, <4>1
      <4>3. g[e + k] = g[e + (k - 1)] + l[e + k].expires /\ r[k].expires = l[e + k].expires
        BY <1>0, <1>1, <1>8, <4>1
      <4>4. g[e + k] \in Nat /\ g[e + (k - 1)] \in Nat /\ l[e + k].expires \in Nat
        BY <1>0, <4>1
      <4>5. QED BY <4>2, <4>3, <4>4
    <3>3. QED BY <3>1, <3>2
  <2>2. QED BY <1>7, <1>9, <2>1 DEF DueAt
<1>11. \A k \in 1..L - e : T!Ticks(r)[k] = g[e + k] - 1
  <2>1. \A k \in 0..L - e : T!Ticks(r)[k] = h[k]
    BY <1>7, <1>10, DueUnique
  <2>2. QED BY <1>3, <1>9, <2>1
<1>12. Queued(r)
  <2>1. ASSUME NEW j \in 1..L-e, NEW k \in 1..L-e, r[j].proc = r[k].proc PROVE j = k
    <3>1. e + j = e + k
      <4>1. e + j \in 1..L /\ e + k \in 1..L /\ r[j].proc = l[e + j].proc /\ r[k].proc = l[e + k].proc
        BY Zenon, <1>8
      <4>2. \A a, b \in 1..L : l[a].proc = l[b].proc => a = b
        BY Zenon, <1>0
      <4>3. l[e + j].proc = l[e + k].proc
        BY Zenon, <2>1, <4>1
      <4>4. QED BY Zenon, <4>1, <4>2, <4>3
    <3>2. QED BY <1>3, <3>1
  <2>2. ASSUME L - e > 0 PROVE r[1].expires > 0
    <3>1. e < L /\ 1 \in 1..L - e /\ e + 1 \in 0..L
      BY <1>0, <1>3, <2>2
    <3>2. r[1].expires = g[e + 1] - 1 /\ g[e + 1] > 1 /\ g[e + 1] \in Nat
      BY <1>0, <1>5, <1>8, <3>1
    <3>3. QED BY <3>2
  <2>3. ASSUME NEW k \in 1..L-e PROVE T!Ticks(r)[k] <= MaxSleep
    <3>1. e + k \in 1..L /\ e + k \in 0..L
      BY <1>0, <1>3
    <3>2. g[e + k] \in Nat /\ g[e + k] <= MaxSleep /\ T!Ticks(r)[k] = g[e + k] - 1
      BY <1>0, <1>11, <3>1
    <3>3. MaxSleep \in Nat
      BY PartsAssumption DEF T!TimerListAssumption
    <3>4. QED BY <3>2, <3>3
  <2>4. QED BY <1>7, <2>1, <2>2, <2>3 DEF Queued
<1>w. /\ w \in [Proc -> Nat]
      /\ \A k \in 1..L : w[l[k].proc] = g[k]
      /\ \A q \in Proc : (\A k \in 1..L : l[k].proc # q) => w[q] = 0
  BY DEF Waiting, g, L
<1>13. Waiting(r, [p \in Proc |-> IF w[p] = 0 THEN 0 ELSE w[p] - 1])
  <2> DEFINE u == [p \in Proc |-> IF w[p] = 0 THEN 0 ELSE w[p] - 1]
  <2>1. u \in [Proc -> Nat] /\ \A q \in Proc : u[q] = IF w[q] = 0 THEN 0 ELSE w[q] - 1
    BY <1>w
  <2> HIDE DEF u
  <2>2. ASSUME NEW k \in 1..L-e PROVE u[r[k].proc] = T!Ticks(r)[k]
    <3>1. e + k \in 1..L /\ e + k \in e + 1..L /\ r[k].proc = l[e + k].proc
      BY <1>8
    <3>2. w[r[k].proc] = g[e + k] /\ g[e + k] > 1 /\ r[k].proc \in Proc
      BY <1>0, <1>6, <1>w, <3>1
    <3>3. QED BY <1>11, <2>1, <3>2
  <2>3. ASSUME NEW q \in Proc, \A k \in 1..L-e : r[k].proc # q PROVE u[q] = 0
    <3>1. CASE \E j \in 1..L : l[j].proc = q
      <4>1. PICK j \in 1..L : l[j].proc = q
        BY <3>1
      <4>2. j \in 1..e
        <5> SUFFICES ASSUME j \notin 1..e PROVE FALSE
          OBVIOUS
        <5>1. j - e \in 1..L - e /\ e + (j - e) = j
          BY <1>0, <1>3
        <5>2. r[j - e].proc = l[e + (j - e)].proc
          BY <1>8, <5>1
        <5>3. QED BY <2>3, <4>1, <5>1, <5>2
      <4>3. w[q] = 1
        BY <1>4, <1>w, <4>1, <4>2
      <4>4. QED BY <2>1, <4>3
    <3>2. CASE \A j \in 1..L : l[j].proc # q
      BY <1>w, <2>1, <3>2
    <3>3. QED BY <3>1, <3>2
  <2>4. QED BY <1>7, <2>1, <2>2, <2>3 DEF Waiting, u
<1>14. {m[i].proc : i \in 1..e} = {p \in Proc : w[p] = 1}
  <2>1. ASSUME NEW k \in 1..e PROVE m[k].proc \in Proc /\ w[m[k].proc] = 1
    <3>1. k \in 1..L
      BY <1>0, <1>3
    <3>2. m[k].proc = l[k].proc /\ g[k] = 1
      BY <1>1, <1>4, <3>1
    <3>3. QED BY <1>0, <1>w, <3>1, <3>2
  <2>2. ASSUME NEW q \in Proc, w[q] = 1 PROVE \E k \in 1..e : q = m[k].proc
    <3>1. PICK k \in 1..L : l[k].proc = q
      BY <1>w, <2>2
    <3>2. g[k] = 1
      BY <1>w, <2>2, <3>1
    <3>3. k \in 1..e
      <4> SUFFICES ASSUME k \notin 1..e PROVE FALSE
        OBVIOUS
      <4>1. k \in e + 1..L
        BY <1>0, <1>3
      <4>2. g[k] > 1
        BY <1>6, <4>1
      <4>3. QED BY <3>2, <4>2
    <3>4. m[k].proc = q
      BY <1>1, <3>1
    <3>5. QED BY <3>3, <3>4
  <2>3. QED BY <2>1, <2>2
<1>15. QED BY <1>12, <1>13, <1>14 DEF r, e, m

TimersInv == Queued(timer_list) /\ woken \subseteq Proc
\* The bound is a number.
LEMMA MaxSleepNat == MaxSleep \in Nat
BY PartsAssumption DEF T!TimerListAssumption

\* The mapping of TimerList is LeftOf.
LEMMA MapsLeft == [p \in Proc |-> T!Left(p)] = LeftOf(timer_list)
BY Zenon DEF T!Left, T!Due, T!Armed, LeftOf
\* Nobody waits at first.
LEMMA TimersInit == PartsInit => TimersInv /\ T!Abstract!Init
<1> SUFFICES ASSUME PartsInit PROVE TimersInv /\ T!Abstract!Init
  OBVIOUS
<1>1. timer_list = <<>> /\ woken = {}
  BY DEF PartsInit, T!Init
<1>2. <<>> \in Seq(WaitType) /\ Len(<<>>) = 0
  OBVIOUS
<1>3. Queued(timer_list)
  BY <1>1, <1>2 DEF Queued
<1>4. Waiting(timer_list, [p \in Proc |-> 0])
  BY <1>1, <1>2 DEF Waiting
<1>5. LeftOf(timer_list) = [p \in Proc |-> 0]
  BY <1>3, <1>4, LeftWaiting
<1>6. [p \in Proc |-> T!Left(p)] = [p \in Proc |-> 0]
  BY <1>5, MapsLeft
<1>7. QED BY <1>1, <1>3, <1>6 DEF TimersInv, T!Abstract!Init
\* Each call is that call of Timers.
LEMMA TimersStep ==
  TimersInv /\ T!Next => TimersInv' /\ T!Abstract!Next
<1> SUFFICES ASSUME TimersInv, T!Next PROVE TimersInv' /\ T!Abstract!Next
  OBVIOUS
<1> DEFINE l == timer_list
           w == LeftOf(timer_list)
<1>0. /\ Queued(l) /\ woken \subseteq Proc /\ l \in Seq(WaitType) /\ Len(l) \in Nat /\ DOMAIN l = 1..Len(l)
      /\ \A k \in 1..Len(l) : l[k].proc \in Proc
      /\ Waiting(l, w) /\ w \in [Proc -> Nat]
      /\ \A k \in 1..Len(l) : T!Ticks(l)[k] > 0 /\ T!Ticks(l)[k] \in Nat
  <2>1. Queued(l) /\ woken \subseteq Proc
    BY DEF TimersInv
  <2>2. Waiting(l, w) /\ w \in [Proc -> Nat]
    BY <2>1, LeftWaiting DEF Waiting
  <2>3. QED BY <2>1, <2>2, WaitsFacts, LenProperties DEF Queued
<1>1. ASSUME NEW r, Queued(r), NEW u, Waiting(r, u) PROVE u = LeftOf(r)
  BY <1>1, LeftWaiting
<1>m. [p \in Proc |-> T!Left(p)] = w /\ [p \in Proc |-> T!Left(p)]' = LeftOf(timer_list')
  <2>1. [p \in Proc |-> T!Left(p)]' = LeftOf(timer_list')
    BY Zenon DEF T!Left, T!Due, T!Armed, LeftOf
  <2>2. QED BY <2>1, MapsLeft
<1>2. ASSUME NEW p \in Proc, NEW n \in 1..MaxSleep, T!Add(p, n)
      PROVE  TimersInv' /\ T!Abstract!Add(p, n)
  <2>1. \A k \in 1..Len(l) : l[k].proc # p
    BY <1>0, <1>2 DEF T!Add, T!Armed
  <2>2. timer_list' = AddedTo(l, p, n) /\ woken' = {}
    BY <1>2, Zenon DEF T!Add, T!Due, T!Passed, PassedIn, AddedTo, T!Max, Max, T!InsertAt, InsertAt
  <2>3. Queued(timer_list') /\ Waiting(timer_list', [w EXCEPT ![p] = n])
    <3>1. Queued(l) /\ Waiting(l, w)
      BY <1>0
    <3> HIDE DEF l, w
    <3>2. Queued(AddedTo(l, p, n)) /\ Waiting(AddedTo(l, p, n), [w EXCEPT ![p] = n])
      BY <2>1, <3>1, MaxSleepNat, AddWaits
    <3>3. QED BY <2>2, <3>2
  <2>4. LeftOf(timer_list') = [w EXCEPT ![p] = n]
    BY <1>1, <2>3
  <2>5. w[p] = 0
    BY <1>0, <2>1 DEF Waiting
  <2>6. QED BY <1>m, <2>2, <2>3, <2>4, <2>5 DEF TimersInv, T!Abstract!Add
<1>3. ASSUME NEW p \in Proc, T!Del(p)
      PROVE  TimersInv' /\ T!Abstract!Del(p)
  <2>1. PICK i \in 1..Len(l) : l[i].proc = p /\ timer_list' = RemoveAt(T!Lengthen(l, i), i)
    BY <1>0, <1>3 DEF T!Del, T!RemoveAt, RemoveAt
  <2>2. woken' = {}
    BY <1>3 DEF T!Del
  <2>3. Queued(timer_list') /\ Waiting(timer_list', [w EXCEPT ![p] = 0])
    <3>1. Queued(l) /\ Waiting(l, w)
      BY <1>0
    <3> HIDE DEF l, w
    <3>2. LET r == RemoveAt(T!Lengthen(l, i), i) IN
          Queued(r) /\ Waiting(r, [w EXCEPT ![l[i].proc] = 0])
      BY <3>1, DelWaits
    <3>3. QED BY <2>1, <3>2
  <2>4. LeftOf(timer_list') = [w EXCEPT ![p] = 0]
    BY <1>1, <2>3
  <2>5. w[p] # 0
    BY <1>0, <2>1 DEF Waiting
  <2>6. QED BY <1>m, <2>2, <2>3, <2>4, <2>5 DEF TimersInv, T!Abstract!Del
<1>4. ASSUME T!Tick PROVE TimersInv' /\ T!Abstract!Tick
  <2> DEFINE u == [p \in Proc |-> IF w[p] = 0 THEN 0 ELSE w[p] - 1]
  <2>1. CASE timer_list = <<>>
    <3>1. timer_list' = timer_list /\ woken' = {} /\ Len(l) = 0
      BY <1>4, <2>1 DEF T!Tick
    <3>2. \A p \in Proc : w[p] = 0
      BY <1>0, <3>1 DEF Waiting
    <3>3. u = w
      BY <1>0, <3>2
    <3>4. {p \in Proc : w[p] = 1} = {}
      BY <3>2
    <3>5. QED BY <1>0, <1>m, <3>1, <3>3, <3>4 DEF TimersInv, T!Abstract!Tick
  <2>2. CASE timer_list # <<>>
    <3>1. Len(l) > 0
      BY <1>0, <2>2, EmptySeq
    <3> DEFINE k == ExpiredIn(OneLess(l))
               r == SubSeq(OneLess(l), k + 1, Len(OneLess(l)))
    <3>2. timer_list' = r /\ woken' = {OneLess(l)[i].proc : i \in 1..k}
      BY <1>4, <2>2, Zenon DEF T!Tick, T!Expired, ExpiredIn, OneLess, T!Max, Max
    <3>3. /\ Queued(r) /\ Waiting(r, u)
          /\ {OneLess(l)[i].proc : i \in 1..k} = {p \in Proc : w[p] = 1}
      <4>1. Queued(l) /\ Waiting(l, w)
        BY <1>0
      <4> HIDE DEF l, w
      <4>2. QED BY <3>1, <4>1, TickWaits
    <3> HIDE DEF k, r
    <3>4. LeftOf(timer_list') = u
      BY <1>1, <3>2, <3>3
    <3>5. woken' = {p \in Proc : w[p] = 1}
      BY <3>2, <3>3
    <3>6. Queued(timer_list') /\ woken' \subseteq Proc
      BY <3>2, <3>3, <3>5
    <3>7. QED BY <1>m, <3>4, <3>5, <3>6 DEF TimersInv, T!Abstract!Tick
  <2>3. QED BY <2>1, <2>2
<1>5. QED BY <1>2, <1>3, <1>4 DEF T!Next, T!Abstract!Next
\* The invariant.
LEMMA TimersInvHolds == PartsSpec => []TimersInv
<1>1. TimersInv /\ [PartsNext]_partsVars => TimersInv'
  <2> SUFFICES ASSUME TimersInv, [PartsNext]_partsVars PROVE TimersInv'
    OBVIOUS
  <2>1. CASE T!Next
    BY <2>1, TimersStep
  <2>2. CASE UNCHANGED timers
    BY <2>2 DEF TimersInv, timers
  <2>3. QED BY <2>1, <2>2 DEF PartsNext, partsVars, Numbers, timers
<1>2. QED BY <1>1, TimersInit, PTL DEF PartsSpec

\* The timer list implements Timers: however many timers were put in front of its own or
\* taken away from there, a process is woken by exactly the tick it asked for; and the
\* assertion of run_timer_list holds at every tick.
THEOREM TimersRefine == PartsSpec => TimersImplement
<1>1. TimersInv /\ [PartsNext]_partsVars => [T!Abstract!Next]_(T!Abstract!vars)
  <2> SUFFICES ASSUME TimersInv, [PartsNext]_partsVars PROVE [T!Abstract!Next]_(T!Abstract!vars)
    OBVIOUS
  <2>1. CASE T!Next
    BY <2>1, TimersStep
  <2>2. CASE UNCHANGED timers
    <3>1. [p \in Proc |-> T!Left(p)]' = LeftOf(timer_list')
      BY Zenon DEF T!Left, T!Due, T!Armed, LeftOf
    <3>2. timer_list' = timer_list /\ woken' = woken
      BY <2>2 DEF timers
    <3>3. [p \in Proc |-> T!Left(p)]' = [p \in Proc |-> T!Left(p)]
      BY <3>1, <3>2, MapsLeft
    <3>4. QED BY <3>2, <3>3 DEF T!Abstract!vars
  <2>3. QED BY <2>1, <2>2 DEF PartsNext, partsVars, Numbers, timers
<1>2. TimersInv => T!TypeOK /\ T!HeadInFuture
  <2> SUFFICES ASSUME TimersInv PROVE T!TypeOK /\ T!HeadInFuture
    OBVIOUS
  <2>0. /\ Queued(timer_list) /\ woken \subseteq Proc /\ timer_list \in Seq(WaitType)
        /\ Len(timer_list) \in Nat /\ DOMAIN timer_list = 1..Len(timer_list)
        /\ \A k \in 1..Len(timer_list) :
             /\ timer_list[k] \in WaitType
             /\ T!Ticks(timer_list)[k] = T!Ticks(timer_list)[k - 1] + timer_list[k].expires
             /\ T!Ticks(timer_list)[k] <= MaxSleep
        /\ \A k \in 0..Len(timer_list) : T!Ticks(timer_list)[k] \in Nat
    <3>1. Queued(timer_list) /\ woken \subseteq Proc
      BY DEF TimersInv
    <3>2. QED BY <3>1, WaitsFacts, LenProperties DEF Queued
  <2>1. ASSUME NEW k \in 1..Len(timer_list) PROVE timer_list[k] \in T!Timer
    <3>1. k \in 0..Len(timer_list) /\ k - 1 \in 0..Len(timer_list)
      BY <2>0
    <3>2. PICK a, b, c : a = T!Ticks(timer_list)[k] /\ b = T!Ticks(timer_list)[k - 1] /\ c = timer_list[k].expires
      OBVIOUS
    <3>3. c \in Nat
      BY <2>0, <3>2 DEF WaitType
    <3>4. a \in Nat /\ b \in Nat /\ a = b + c /\ a <= MaxSleep
      BY <2>0, <3>1, <3>2
    <3>5. c \in 0..MaxSleep
      BY <3>3, <3>4, MaxSleepNat
    <3>6. timer_list[k] \in WaitType
      BY <2>0
    <3>7. QED BY <3>2, <3>5, <3>6 DEF T!Timer, WaitType
  <2>2. timer_list \in Seq(T!Timer)
    <3>1. timer_list = [k \in 1..Len(timer_list) |-> timer_list[k]]
      BY <2>0
    <3>2. QED BY <2>0, <2>1, <3>1
  <2>3. timer_list # <<>> => timer_list[1].expires # 0
    <3> SUFFICES ASSUME timer_list # <<>> PROVE timer_list[1].expires # 0
      OBVIOUS
    <3>1. Len(timer_list) > 0
      BY <2>0, EmptySeq
    <3>2. timer_list[1].expires > 0
      BY <2>0, <3>1 DEF Queued
    <3>3. QED BY <3>2
  <2>4. QED BY <2>0, <2>2, <2>3 DEF T!TypeOK, T!HeadInFuture, Queued
<1>3. QED BY <1>1, <1>2, TimersInit, TimersInvHolds, PTL
        DEF PartsSpec, TimersImplement, T!Implements, T!Abstract!Spec

------------------------------------------------------------------------------
(* Address spaces.  The invariant is on the records that the calls of Vmm pass    *)
(* along: Store, in which a frame has at most one place.  Each call is proved as   *)
(* what it gives to one process, Gets and Puts, and what the others see of it, nothing, *)
(* Others; a loop over pages keeps such a relation to the state that it began in.  *)

Entry == {"pgdir", "dir", "table", "page"} \X Int
Tables == UNION {[E -> V!Frame] : E \in SUBSET Entry}
Memory == [at : Tables, vma : SUBSET V!VPage]

\* a frame is in at most one entry of one process, and not free then
OnePlace(s) ==
  /\ \A p, q \in Space : \A d \in DOMAIN s.mm[p].at, e \in DOMAIN s.mm[q].at :
       s.mm[p].at[d] = s.mm[q].at[e] => p = q /\ d = e
  /\ \A p \in Space : \A d \in DOMAIN s.mm[p].at : s.mm[p].at[d] \notin s.free

Records == [mm : [Space -> Memory], free : SUBSET V!Frame, byte : [V!Frame -> Byte],
            halted : BOOLEAN]
Store == {s \in Records : OnePlace(s)}

\* p has the entries E besides what it had, unless there was no frame
Gets(s, t, p, E) ==
  /\ s \in Store /\ t \in Store /\ p \in Space
  /\ t.byte = s.byte
  /\ s.halted => t.halted
  /\ \A r \in Space : r # p => t.mm[r] = s.mm[r]
  /\ t.mm[p].vma = s.mm[p].vma
  /\ \A d \in DOMAIN s.mm[p].at : d \in DOMAIN t.mm[p].at /\ t.mm[p].at[d] = s.mm[p].at[d]
  /\ DOMAIN t.mm[p].at \subseteq DOMAIN s.mm[p].at \cup E
  /\ t.halted \/ E \subseteq DOMAIN t.mm[p].at

\* What is assumed of the constants.
LEMMA SpacesConstants ==
  /\ NFrames \in Nat \ {0} /\ UserPages \in Nat \ {0} /\ NPTEENTRY \in Nat \ {0}
  /\ 0 \in Byte /\ V!Frame = 1..NFrames /\ V!VPage = 0..UserPages - 1
  /\ Eager # {} /\ Eager \subseteq Stack /\ Stack \subseteq V!VPage
  /\ Image \subseteq SUBSET V!VPage
BY PartsAssumption DEF V!VmmAssumption, V!Frame, V!VPage

\* What is in an mm.
LEMMA MemoryFacts ==
  ASSUME NEW m \in Memory
  PROVE  /\ DOMAIN m.at \subseteq Entry /\ \A d \in DOMAIN m.at : m.at[d] \in V!Frame
         /\ m.vma \subseteq V!VPage
<1>1. m.at \in Tables /\ m.vma \subseteq V!VPage
  BY DEF Memory
<1>2. PICK E \in SUBSET Entry : m.at \in [E -> V!Frame]
  BY <1>1 DEF Tables
<1>3. QED BY <1>1, <1>2

\* What makes an mm.
LEMMA MemoryIs ==
  ASSUME NEW E \in SUBSET Entry, NEW at \in [E -> V!Frame], NEW U \in SUBSET V!VPage
  PROVE  [at |-> at, vma |-> U] \in Memory
<1>1. at \in Tables
  BY DEF Tables
<1>2. QED BY <1>1 DEF Memory

\* An entry that is valid is left as it is, and so is everything after the kernel has halted.
LEMMA GetsNothing ==
  ASSUME NEW s \in Store, NEW p \in Space, NEW E, s.halted \/ E \subseteq DOMAIN s.mm[p].at
  PROVE  Gets(s, s, p, E)
BY DEF Gets

\* alloc_page for an entry
LEMMA GiveGets ==
  ASSUME NEW s \in Store, NEW p \in Space, NEW e \in Entry
  PROVE  Gets(s, V!Give(s, p, e), p, {e})
<1> DEFINE t == V!Give(s, p, e)
<1>0. s \in Records /\ OnePlace(s) /\ s.halted \in BOOLEAN /\ s.free \subseteq 1..NFrames
      /\ s.mm[p] \in Memory
  BY SpacesConstants DEF Store, Records
<1>1. CASE V!Valid(s, p, e) \/ s.halted
  <2>1. t = s
    BY <1>1 DEF V!Give
  <2>2. s.halted \/ {e} \subseteq DOMAIN s.mm[p].at
    BY <1>1 DEF V!Valid
  <2>3. QED BY <2>1, <2>2, GetsNothing
<1>2. CASE ~V!Valid(s, p, e) /\ ~s.halted /\ s.free = {}
  <2>1. t = [s EXCEPT !.halted = TRUE]
    BY <1>2 DEF V!Give
  <2> HIDE DEF t
  <2>2. t \in Records /\ t.mm = s.mm /\ t.byte = s.byte /\ t.free = s.free /\ t.halted
    BY <1>0, <2>1 DEF Records
  <2>3. t \in Store
    BY <1>0, <2>2 DEF Store, OnePlace
  <2>4. QED BY <2>2, <2>3 DEF Gets, t
<1>3. CASE ~V!Valid(s, p, e) /\ ~s.halted /\ s.free # {}
  <2> DEFINE at == s.mm[p].at
  <2>1. PICK f : f = V!Min(s.free)
    OBVIOUS
  <2>2. f \in s.free
    <3>1. f = Min(s.free)
      BY <2>1 DEF V!Min, Min
    <3>2. s.free \subseteq Nat
      BY <1>0, SpacesConstants
    <3>3. QED BY <1>3, <3>1, <3>2, MinIn
  <2> DEFINE at2 == [x \in DOMAIN at \cup {e} |-> IF x = e THEN f ELSE at[x]]
             m2 == [at |-> at2, vma |-> s.mm[p].vma]
  <2>3. t = [s EXCEPT !.free = s.free \ {f}, !.mm[p].at = at2]
    BY <1>3, <2>1, Zenon DEF V!Give
  <2>4. e \notin DOMAIN at
    BY <1>3 DEF V!Valid
  <2>5. DOMAIN at \subseteq Entry /\ (\A d \in DOMAIN at : at[d] \in V!Frame) /\ s.mm[p].vma \subseteq V!VPage
    BY <1>0, MemoryFacts
  <2>6. f \in V!Frame
    BY <1>0, <2>2, SpacesConstants
  <2>7. at2 \in [DOMAIN at \cup {e} -> V!Frame] /\ at2[e] = f /\ \A d \in DOMAIN at : at2[d] = at[d]
    BY <2>4, <2>5, <2>6
  <2>8. DOMAIN at2 = DOMAIN at \cup {e}
    BY DEF at2
  <2> HIDE DEF t, at2
  <2>9. m2 \in Memory
    <3>1. DOMAIN at \cup {e} \in SUBSET Entry
      BY <2>5
    <3>2. QED BY <2>5, <2>7, <3>1, MemoryIs
  <2>10. t.mm = [s.mm EXCEPT ![p] = m2] /\ t.free = s.free \ {f} /\ t.byte = s.byte /\ t.halted = s.halted
         /\ t = [mm |-> t.mm, free |-> t.free, byte |-> t.byte, halted |-> t.halted]
    <3>1. s.mm \in [Space -> Memory] /\ s.mm[p] = [at |-> at, vma |-> s.mm[p].vma]
      BY <1>0 DEF Records, Memory
    <3>2. [s.mm[p] EXCEPT !.at = at2] = m2
      BY <3>1
    <3>3. QED BY <1>0, <2>3, <3>1, <3>2 DEF Records
  <2>11. t \in Records /\ t.mm[p] = m2 /\ \A r \in Space : r # p => t.mm[r] = s.mm[r]
    BY <1>0, <2>9, <2>10 DEF Records
  <2>12. m2.at = at2 /\ m2.vma = s.mm[p].vma
    OBVIOUS
  <2> HIDE DEF m2, at
  <2>at. at = s.mm[p].at
    BY DEF at
  <2>13. OnePlace(t)
    <3>1. ASSUME NEW q \in Space, NEW r \in Space, NEW d \in DOMAIN t.mm[q].at, NEW x \in DOMAIN t.mm[r].at,
                 t.mm[q].at[d] = t.mm[r].at[x]
          PROVE  q = r /\ d = x
      <4>1. \A z \in Space : \A y \in DOMAIN t.mm[z].at :
              \/ z = p /\ y = e /\ t.mm[z].at[y] = f
              \/ y \in DOMAIN s.mm[z].at /\ t.mm[z].at[y] = s.mm[z].at[y]
        <5> SUFFICES ASSUME NEW z \in Space, NEW y \in DOMAIN t.mm[z].at
                     PROVE  \/ z = p /\ y = e /\ t.mm[z].at[y] = f
                            \/ y \in DOMAIN s.mm[z].at /\ t.mm[z].at[y] = s.mm[z].at[y]
          OBVIOUS
        <5>1. CASE z = p
          <6>1. t.mm[z].at = at2
            BY <2>11, <2>12, <5>1
          <6>2. y \in DOMAIN at \cup {e}
            BY <2>8, <6>1
          <6>3. QED BY <2>7, <2>at, <5>1, <6>1, <6>2
        <5>2. CASE z # p
          BY <2>11, <5>2
        <5>3. QED BY <5>1, <5>2
      <4>2. \A z \in Space : \A y \in DOMAIN s.mm[z].at : s.mm[z].at[y] # f
        BY <1>0, <2>2 DEF OnePlace
      <4>3. QED BY <1>0, <3>1, <4>1, <4>2 DEF OnePlace
    <3>2. ASSUME NEW q \in Space, NEW d \in DOMAIN t.mm[q].at
          PROVE  t.mm[q].at[d] \notin t.free
      <4>1. CASE q = p
        <5>1. t.mm[q].at = at2
          BY <2>11, <2>12, <4>1
        <5>2. d \in DOMAIN at \cup {e}
          BY <2>8, <5>1
        <5>3. CASE d = e
          BY <2>7, <2>10, <5>1, <5>3
        <5>4. CASE d \in DOMAIN at
          <6>1. at2[d] = s.mm[p].at[d] /\ d \in DOMAIN s.mm[p].at
            BY <2>7, <2>at, <5>4
          <6>2. s.mm[p].at[d] \notin s.free
            BY <1>0, <6>1 DEF OnePlace
          <6>3. QED BY <2>10, <5>1, <6>1, <6>2
        <5>5. QED BY <5>2, <5>3, <5>4
      <4>2. CASE q # p
        <5>1. t.mm[q] = s.mm[q]
          BY <2>11, <4>2
        <5>2. s.mm[q].at[d] \notin s.free
          BY <1>0, <5>1 DEF OnePlace
        <5>3. QED BY <2>10, <5>1, <5>2
      <4>3. QED BY <4>1, <4>2
    <3>3. QED BY <3>1, <3>2 DEF OnePlace
  <2>14. t \in Store
    BY <2>11, <2>13 DEF Store
  <2>15. QED BY <2>7, <2>8, <2>10, <2>11, <2>12, <2>14, <2>at DEF Gets, t
<1>4. QED BY <1>0, <1>1, <1>2, <1>3

\* Two calls get what each of them gets.
LEMMA GetsMore ==
  ASSUME NEW s, NEW t, NEW u, NEW p, NEW E, NEW G, Gets(s, t, p, E), Gets(t, u, p, G)
  PROVE  Gets(s, u, p, E \cup G)
<1>1. ~u.halted => ~t.halted
  BY DEF Gets
<1>2. u.halted \/ E \cup G \subseteq DOMAIN u.mm[p].at
  BY <1>1 DEF Gets
<1>3. \A r \in Space : r # p => u.mm[r] = s.mm[r]
  BY DEF Gets
<1>4. \A d \in DOMAIN s.mm[p].at : d \in DOMAIN u.mm[p].at /\ u.mm[p].at[d] = s.mm[p].at[d]
  BY DEF Gets
<1>5. DOMAIN u.mm[p].at \subseteq DOMAIN s.mm[p].at \cup (E \cup G)
  BY DEF Gets
<1>6. QED BY <1>2, <1>3, <1>4, <1>5 DEF Gets

PathOf(v) == {V!Path(v)[1], V!Path(v)[2], V!Path(v)[3]}

\* get_pte and a page
LEMMA MapPageGets ==
  ASSUME NEW s \in Store, NEW p \in Space, NEW v \in V!VPage
  PROVE  Gets(s, V!MapPage(s, p, v), p, PathOf(v))
<1>1. V!Path(v)[1] \in Entry /\ V!Path(v)[2] \in Entry /\ V!Path(v)[3] \in Entry
  <2>1. v \in Nat /\ NPTEENTRY \in Nat \ {0} /\ NPTEENTRY * NPTEENTRY \in Nat \ {0}
    BY SpacesConstants
  <2>2. PICK k : k = NPTEENTRY * NPTEENTRY
    OBVIOUS
  <2>3. v \div k \in Int /\ v \div NPTEENTRY \in Int /\ v \in Int
    BY <2>1, <2>2
  <2>4. QED BY <2>2, <2>3 DEF V!Path, Entry
<1> DEFINE d == V!Path(v)
           a == V!Give(s, p, d[1])
           b == V!Give(a, p, d[2])
           c == V!Give(b, p, d[3])
<1>2. V!MapPage(s, p, v) = c
  BY Zenon DEF V!MapPage
<1> HIDE DEF d
<1>d. d[1] \in Entry /\ d[2] \in Entry /\ d[3] \in Entry
  BY <1>1 DEF d
<1>3. Gets(s, a, p, {d[1]})
  BY <1>d, GiveGets
<1>4. a \in Store
  BY <1>3 DEF Gets
<1> HIDE DEF a
<1>5. Gets(a, b, p, {d[2]})
  BY <1>d, <1>4, GiveGets
<1>6. b \in Store
  BY <1>5 DEF Gets
<1> HIDE DEF b
<1>7. Gets(b, c, p, {d[3]})
  BY <1>d, <1>6, GiveGets
<1> HIDE DEF c
<1>8. Gets(s, b, p, {d[1]} \cup {d[2]})
  BY <1>3, <1>5, GetsMore
<1>9. Gets(s, c, p, ({d[1]} \cup {d[2]}) \cup {d[3]})
  BY <1>7, <1>8, GetsMore
<1>10. ({d[1]} \cup {d[2]}) \cup {d[3]} = PathOf(v)
  BY DEF PathOf, d
<1>11. QED BY <1>2, <1>9, <1>10

Paths(U) == UNION {PathOf(v) : v \in U}

\* The loop of load_icode over the pages of a segment
LEMMA MapPagesGets ==
  ASSUME NEW s \in Store, NEW p \in Space, NEW U \in SUBSET V!VPage
  PROVE  Gets(s, V!MapPages(s, p, U), p, Paths(U))
<1> DEFINE step == [x \in Nat \X Store |-> IF x[1] \in U THEN V!MapPage(x[2], p, x[1]) ELSE x[2]]
           Z == {z \in Nat \X Store : Gets(s, z[2], p, Paths(Below(U, z[1])))}
           D == 0..UserPages
<1>0. UserPages \in Nat /\ V!VPage = 0..UserPages - 1 /\ U \subseteq 0..UserPages - 1
  BY SpacesConstants
<1>1. \A x \in Store, v \in U : V!MapPage(x, p, v) \in Store /\ Gets(x, V!MapPage(x, p, v), p, PathOf(v))
  BY <1>0, MapPageGets DEF Gets
<1>2. step \in Steps(Store)
  <2>1. \A x \in Nat \X Store : x[1] \in Nat /\ x[2] \in Store
    OBVIOUS
  <2>2. \A x \in Nat \X Store : (IF x[1] \in U THEN V!MapPage(x[2], p, x[1]) ELSE x[2]) \in Store
    BY <1>1, <2>1
  <2>3. QED BY <2>2 DEF Steps
<1>3. \A k \in Nat, x \in Store : step[<<k, x>>] = IF k \in U THEN V!MapPage(x, p, k) ELSE x
  OBVIOUS
<1> HIDE DEF step
<1>4. <<0, s>> \in Z
  <2>1. Below(U, 0) = {}
    BY <1>0, BelowEnds
  <2>2. Paths({}) = {}
    BY DEF Paths
  <2>3. Gets(s, s, p, {})
    BY GetsNothing
  <2>4. QED BY <2>1, <2>2, <2>3
<1>5. StaysIn(UserPages, Store, step, Z)
  <2> SUFFICES ASSUME NEW k \in 0..UserPages - 1, NEW x \in Store, <<k, x>> \in Z
               PROVE  <<k + 1, step[<<k, x>>]>> \in Z
    BY DEF StaysIn
  <2>1. k \in Nat /\ k + 1 \in Nat /\ Gets(s, x, p, Paths(Below(U, k)))
    <3>1. k \in Nat /\ k + 1 \in Nat
      BY <1>0
    <3>2. Gets(s, <<k, x>>[2], p, Paths(Below(U, <<k, x>>[1])))
      OBVIOUS
    <3>3. QED BY <3>1, <3>2
  <2>2. CASE k \in U
    <3>1. Gets(x, V!MapPage(x, p, k), p, PathOf(k)) /\ V!MapPage(x, p, k) \in Store
      BY <1>1, <2>2
    <3>2. Gets(s, V!MapPage(x, p, k), p, Paths(Below(U, k)) \cup PathOf(k))
      BY <2>1, <3>1, GetsMore
    <3>3. Below(U, k + 1) = Below(U, k) \cup {k}
      BY <1>0, <2>2, BelowWith
    <3>4. Paths(Below(U, k + 1)) = Paths(Below(U, k)) \cup PathOf(k)
      BY <3>3 DEF Paths
    <3>5. step[<<k, x>>] = V!MapPage(x, p, k)
      BY <1>3, <2>1, <2>2
    <3>6. QED BY <2>1, <3>1, <3>2, <3>4, <3>5
  <2>3. CASE k \notin U
    <3>1. Below(U, k + 1) = Below(U, k)
      BY <1>0, <2>1, <2>3, BelowWithout
    <3>2. step[<<k, x>>] = x
      BY <1>3, <2>1, <2>3
    <3>3. QED BY <2>1, <3>1, <3>2
  <2>4. QED BY <2>2, <2>3
<1> HIDE DEF Z
<1>6. PICK g : Follows(g, Store, s, step) /\ Along(UserPages, g, Z)
  BY <1>0, <1>2, <1>4, <1>5, LoopTo
<1>7. g \in [Nat -> Store] /\ g[0] = s /\ \A k \in Nat : g[k + 1] = IF k \in U THEN V!MapPage(g[k], p, k) ELSE g[k]
  BY <1>3, <1>6 DEF Follows
<1> DEFINE h == [k \in D |-> g[k]]
           a == CHOOSE f : f = [n \in D |-> IF n = 0 THEN s
                                  ELSE IF n - 1 \in U THEN V!MapPage(f[n - 1], p, n - 1) ELSE f[n - 1]]
<1>8. h = [n \in D |-> IF n = 0 THEN s
                         ELSE IF n - 1 \in U THEN V!MapPage(h[n - 1], p, n - 1) ELSE h[n - 1]]
  <2>1. ASSUME NEW n \in D
        PROVE  g[n] = IF n = 0 THEN s
                      ELSE IF n - 1 \in U THEN V!MapPage(h[n - 1], p, n - 1) ELSE h[n - 1]
    <3>1. CASE n = 0
      BY <1>7, <3>1
    <3>2. CASE n # 0
      <4>1. n - 1 \in Nat /\ n - 1 \in D /\ (n - 1) + 1 = n
        BY <1>0, <3>2
      <4>2. h[n - 1] = g[n - 1]
        BY <4>1
      <4>3. QED BY <1>7, <3>2, <4>1, <4>2
    <3>3. QED BY <3>1, <3>2
  <2>2. QED BY <2>1
<1>9. \A k \in D : h[k] = g[k]
  OBVIOUS
<1> HIDE DEF h
<1>10. a = [n \in D |-> IF n = 0 THEN s
                         ELSE IF n - 1 \in U THEN V!MapPage(a[n - 1], p, n - 1) ELSE a[n - 1]]
  BY <1>8
<1>11. V!MapPages(s, p, U) = a[UserPages]
  BY Zenon DEF V!MapPages, V!ForPages
<1> HIDE DEF a
<1>12. \A k \in D : a[k] = g[k]
  <2> DEFINE Q == {k \in D : a[k] = g[k]}
  <2>1. 0 \in Q
    <3>1. 0 \in D
      BY <1>0
    <3>2. QED BY <1>7, <1>10, <3>1
  <2>2. ASSUME NEW k \in 0..UserPages - 1, k \in Q PROVE k + 1 \in Q
    <3>1. k \in Nat /\ k + 1 \in D /\ k + 1 # 0 /\ (k + 1) - 1 = k
      BY <1>0
    <3>2. a[k + 1] = IF k \in U THEN V!MapPage(a[k], p, k) ELSE a[k]
      BY <1>10, <3>1
    <3>3. QED BY <1>7, <2>2, <3>1, <3>2
  <2> HIDE DEF Q
  <2>3. \A k \in 0..UserPages : k \in Q
    BY <1>0, <2>1, <2>2, ReachesUpTo
  <2>4. QED BY <2>3 DEF Q
<1>13. <<UserPages, g[UserPages]>> \in Z
  BY <1>0, <1>6 DEF Along
<1>14. Below(U, UserPages) = U
  BY <1>0, BelowEnds
<1>15. Gets(s, g[UserPages], p, Paths(Below(U, UserPages)))
  BY <1>13 DEF Z
<1>16. UserPages \in D
  BY <1>0
<1>17. QED BY <1>11, <1>12, <1>14, <1>15, <1>16

\* nobody but p sees a difference
Others(s, t, p) ==
  /\ s \in Store /\ t \in Store /\ p \in Space
  /\ s.halted => t.halted
  /\ \A r \in Space : r # p =>
       /\ t.mm[r] = s.mm[r]
       /\ \A d \in DOMAIN s.mm[r].at : t.byte[s.mm[r].at[d]] = s.byte[s.mm[r].at[d]]

\* A call that gets entries for p changes nothing for the others.
LEMMA GetsOthers ==
  ASSUME NEW s, NEW t, NEW p, NEW E, Gets(s, t, p, E)
  PROVE  Others(s, t, p)
BY DEF Gets, Others

\* Nor do two such calls.
LEMMA OthersOn ==
  ASSUME NEW s, NEW t, NEW u, NEW p, Others(s, t, p), Others(t, u, p)
  PROVE  Others(s, u, p)
<1>1. ASSUME NEW r \in Space, r # p
      PROVE  /\ u.mm[r] = s.mm[r]
             /\ \A d \in DOMAIN s.mm[r].at : u.byte[s.mm[r].at[d]] = s.byte[s.mm[r].at[d]]
  <2>1. t.mm[r] = s.mm[r] /\ u.mm[r] = t.mm[r]
    BY <1>1 DEF Others
  <2>2. \A d \in DOMAIN s.mm[r].at : t.byte[s.mm[r].at[d]] = s.byte[s.mm[r].at[d]]
    BY <1>1 DEF Others
  <2>3. \A d \in DOMAIN t.mm[r].at : u.byte[t.mm[r].at[d]] = t.byte[t.mm[r].at[d]]
    BY <1>1 DEF Others
  <2>4. QED BY <2>1, <2>2, <2>3
<1>2. QED BY <1>1 DEF Others

\* t is s with b in the page v of p
Puts(s, t, p, v, b) ==
  /\ t \in Store /\ t.mm = s.mm /\ t.free = s.free /\ t.halted = s.halted
  /\ t.byte = [s.byte EXCEPT ![s.mm[p].at[<<"page", v>>]] = b]

\* A store into a page that is there
LEMMA PutPuts ==
  ASSUME NEW s \in Store, ~s.halted, NEW p \in Space, NEW v, <<"page", v>> \in DOMAIN s.mm[p].at,
         NEW b \in Byte
  PROVE  Puts(s, V!Put(s, p, v, b), p, v, b) /\ Others(s, V!Put(s, p, v, b), p)
<1> DEFINE t == V!Put(s, p, v, b)
           f == s.mm[p].at[<<"page", v>>]
<1>0. s \in Records /\ OnePlace(s) /\ s.mm[p] \in Memory
  BY DEF Store, Records
<1>1. f \in V!Frame
  BY <1>0, MemoryFacts
<1>2. t = [s EXCEPT !.byte[f] = b]
  BY Zenon DEF V!Put
<1> HIDE DEF t, f
<1>3. /\ t \in Records /\ t.mm = s.mm /\ t.free = s.free /\ t.halted = s.halted
      /\ t.byte = [s.byte EXCEPT ![f] = b]
  BY <1>0, <1>1, <1>2 DEF Records
<1>4. t \in Store
  BY <1>0, <1>3 DEF Store, OnePlace
<1>5. ASSUME NEW r \in Space, r # p, NEW d \in DOMAIN s.mm[r].at
      PROVE  t.byte[s.mm[r].at[d]] = s.byte[s.mm[r].at[d]]
  <2>1. s.mm[r].at[d] # f
    BY <1>0, <1>5 DEF OnePlace, f
  <2>2. s.byte \in [V!Frame -> Byte] /\ s.mm[r].at[d] \in V!Frame
    <3>1. s.mm[r] \in Memory
      BY <1>0 DEF Records
    <3>2. QED BY <1>0, <3>1, MemoryFacts DEF Records
  <2>3. QED BY <1>3, <2>1, <2>2
<1>6. Others(s, t, p)
  BY <1>3, <1>4, <1>5 DEF Others
<1>7. QED BY <1>3, <1>4, <1>6 DEF Puts, f, t

\* Nothing is stored after the kernel has halted.
LEMMA PutHalted ==
  ASSUME NEW s \in Store, s.halted, NEW p, NEW v, NEW b
  PROVE  V!Put(s, p, v, b) = s
BY DEF V!Put

\* exit_mmap and put_pgdir
LEMMA DropOthers ==
  ASSUME NEW s \in Store, NEW p \in Space
  PROVE  /\ Others(s, V!Drop(s, p), p) /\ V!Drop(s, p).halted = s.halted
         /\ V!Drop(s, p).mm[p] = V!NoMm /\ DOMAIN V!NoMm.at = {} /\ V!NoMm.vma = {}
<1> DEFINE t == V!Drop(s, p)
           R == V!Freed(s.mm[p])
           B == [f \in V!Frame |-> IF f \in R THEN 0 ELSE s.byte[f]]
<1>0. s \in Records /\ OnePlace(s) /\ s.mm[p] \in Memory
  BY DEF Store, Records
<1>1. R = {s.mm[p].at[e] : e \in {x \in DOMAIN s.mm[p].at : x[1] # "table"}}
  BY DEF V!Freed
<1>2. R \subseteq V!Frame
  BY <1>0, <1>1, MemoryFacts
<1>3. V!NoMm \in Memory /\ DOMAIN V!NoMm.at = {} /\ V!NoMm.vma = {}
  <2>1. [e \in {} |-> 0] \in [{} -> V!Frame]
    OBVIOUS
  <2>2. V!NoMm \in Memory
    BY <2>1, MemoryIs DEF V!NoMm
  <2>3. QED BY <2>2 DEF V!NoMm
<1>4. t = [s EXCEPT !.free = s.free \cup R, !.mm[p] = V!NoMm, !.byte = B]
  BY Zenon DEF V!Drop
<1>5. B \in [V!Frame -> Byte] /\ \A f \in V!Frame : f \notin R => B[f] = s.byte[f]
  BY <1>0, SpacesConstants DEF Records
<1> HIDE DEF t, R, B
<1>6. /\ t \in Records /\ t.free = s.free \cup R /\ t.mm = [s.mm EXCEPT ![p] = V!NoMm] /\ t.byte = B
      /\ t.halted = s.halted
  <2> HIDE DEF V!NoMm
  <2>1. QED BY <1>0, <1>2, <1>3, <1>4, <1>5 DEF Records
<1>7. t.mm[p] = V!NoMm /\ \A r \in Space : r # p => t.mm[r] = s.mm[r]
  BY <1>0, <1>6 DEF Records
<1>8. \A r \in Space : r # p => \A d \in DOMAIN s.mm[r].at : s.mm[r].at[d] \notin R /\ s.mm[r].at[d] \in V!Frame
  <2> SUFFICES ASSUME NEW r \in Space, r # p, NEW d \in DOMAIN s.mm[r].at
               PROVE  s.mm[r].at[d] \notin R /\ s.mm[r].at[d] \in V!Frame
    OBVIOUS
  <2>1. s.mm[r] \in Memory
    BY <1>0 DEF Records
  <2>2. \A e \in DOMAIN s.mm[p].at : s.mm[r].at[d] # s.mm[p].at[e]
    BY <1>0 DEF OnePlace
  <2>3. QED BY <1>1, <2>1, <2>2, MemoryFacts
<1>9. OnePlace(t)
  <2>1. \A r \in Space : \A d \in DOMAIN t.mm[r].at :
          r # p /\ d \in DOMAIN s.mm[r].at /\ t.mm[r].at[d] = s.mm[r].at[d]
    BY <1>3, <1>7
  <2>2. QED BY <1>0, <1>6, <1>8, <2>1 DEF OnePlace
<1>10. t \in Store
  BY <1>6, <1>9 DEF Store
<1>11. Others(s, t, p)
  BY <1>5, <1>6, <1>7, <1>8, <1>10 DEF Others
<1>12. QED BY <1>3, <1>6, <1>7, <1>11 DEF t

PutAll(s, p, U, b) == V!ForPages(LAMBDA t, v : V!Put(t, p, v, b), s, U)

\* load_icode fills the pages of a segment
LEMMA PutAllOthers ==
  ASSUME NEW s \in Store, NEW p \in Space, NEW U \in SUBSET V!VPage, NEW b \in Byte,
         s.halted \/ \A v \in U : <<"page", v>> \in DOMAIN s.mm[p].at
  PROVE  /\ Others(s, PutAll(s, p, U, b), p)
         /\ PutAll(s, p, U, b).mm = s.mm /\ PutAll(s, p, U, b).halted = s.halted
<1> DEFINE Z == {z \in Nat \X Store : Others(s, z[2], p) /\ z[2].mm = s.mm /\ z[2].halted = s.halted}
<1>1. \A k \in Nat, x \in Store : <<k, x>> \in Z <=> Others(s, x, p) /\ x.mm = s.mm /\ x.halted = s.halted
  OBVIOUS
<1>2. ASSUME NEW k \in Nat, NEW x \in Store, <<k, x>> \in Z, k \in U
      PROVE  /\ V!Put(x, p, k, b) \in Store /\ V!Put(x, p, k, b).mm = s.mm
             /\ V!Put(x, p, k, b).halted = s.halted /\ Others(s, V!Put(x, p, k, b), p)
  <2>1. Others(s, x, p) /\ x.mm = s.mm /\ x.halted = s.halted
    BY <1>1, <1>2
  <2>2. CASE x.halted
    BY <2>1, <2>2, PutHalted
  <2>3. CASE ~x.halted
    <3>1. <<"page", k>> \in DOMAIN x.mm[p].at
      BY <1>2, <2>1, <2>3
    <3>2. Puts(x, V!Put(x, p, k, b), p, k, b) /\ Others(x, V!Put(x, p, k, b), p)
      BY <2>3, <3>1, PutPuts
    <3>3. Others(s, V!Put(x, p, k, b), p)
      BY <2>1, <3>2, OthersOn
    <3>4. QED BY <2>1, <3>2, <3>3 DEF Puts
  <2>4. QED BY <2>2, <2>3
<1> HIDE DEF Z
<1> DEFINE step == [x \in Nat \X Store |->
                      IF x[1] \in U /\ V!Put(x[2], p, x[1], b) \in Store THEN V!Put(x[2], p, x[1], b) ELSE x[2]]
           D == 0..UserPages
<1>l0. UserPages \in Nat /\ V!VPage = 0..UserPages - 1 /\ U \subseteq 0..UserPages - 1
  BY SpacesConstants
<1>l1. step \in Steps(Store)
  BY DEF Steps
<1>l2. \A k \in Nat, x \in Store :
         step[<<k, x>>] = IF k \in U /\ V!Put(x, p, k, b) \in Store THEN V!Put(x, p, k, b) ELSE x
  OBVIOUS
<1> HIDE DEF step
<1>l3. <<0, s>> \in Z
  <2>1. Others(s, s, p)
    BY DEF Others
  <2>2. QED BY <1>1, <2>1
<1>l4. \A k \in Nat, x \in Store : <<k, x>> \in Z /\ k \in U => V!Put(x, p, k, b) \in Store
  BY <1>2
<1>l5. StaysIn(UserPages, Store, step, Z)
  <2> SUFFICES ASSUME NEW k \in 0..UserPages - 1, NEW x \in Store, <<k, x>> \in Z
               PROVE  <<k + 1, step[<<k, x>>]>> \in Z
    BY DEF StaysIn
  <2>1. k \in Nat
    BY <1>l0
  <2>2. CASE k \in U
    <3>1. V!Put(x, p, k, b) \in Store
      BY <1>l4, <2>1, <2>2
    <3>2. step[<<k, x>>] = V!Put(x, p, k, b)
      BY <1>l2, <2>1, <2>2, <3>1
    <3>3. <<k + 1, V!Put(x, p, k, b)>> \in Z
      <4>1. k + 1 \in Nat
        BY <2>1
      <4>2. QED BY <1>1, <1>2, <2>1, <2>2, <4>1
    <3>4. QED BY <3>2, <3>3
  <2>3. CASE k \notin U
    <3>1. step[<<k, x>>] = x
      BY <1>l2, <2>1, <2>3
    <3>2. <<k + 1, x>> \in Z
      <4>1. k + 1 \in Nat
        BY <2>1
      <4>2. QED BY <1>1, <2>1, <4>1
    <3>3. QED BY <3>1, <3>2
  <2>4. QED BY <2>2, <2>3
<1> HIDE DEF Z
<1>l6. PICK g : Follows(g, Store, s, step) /\ Along(UserPages, g, Z)
  BY <1>l0, <1>l1, <1>l3, <1>l5, LoopTo
<1>l7. g \in [Nat -> Store] /\ g[0] = s /\ \A k \in Nat : g[k + 1] = step[<<k, g[k]>>]
  BY <1>l6 DEF Follows
<1>l8. \A k \in D : <<k, g[k]>> \in Z
  BY <1>l6 DEF Along
<1>l9. ASSUME NEW k \in 0..UserPages - 1
       PROVE  g[k + 1] = IF k \in U THEN V!Put(g[k], p, k, b) ELSE g[k]
  <2>1. k \in Nat /\ g[k] \in Store /\ <<k, g[k]>> \in Z
    BY <1>l0, <1>l7, <1>l8
  <2>2. k \in U => V!Put(g[k], p, k, b) \in Store
    BY <1>l4, <2>1
  <2>3. QED BY <1>l2, <1>l7, <2>1, <2>2
<1> DEFINE h == [k \in D |-> g[k]]
           a == CHOOSE f : f = [n \in D |-> IF n = 0 THEN s
                                  ELSE IF n - 1 \in U THEN V!Put(f[n - 1], p, n - 1, b) ELSE f[n - 1]]
<1>l10. h = [n \in D |-> IF n = 0 THEN s
                         ELSE IF n - 1 \in U THEN V!Put(h[n - 1], p, n - 1, b) ELSE h[n - 1]]
  <2>1. ASSUME NEW n \in D
        PROVE  g[n] = IF n = 0 THEN s
                      ELSE IF n - 1 \in U THEN V!Put(h[n - 1], p, n - 1, b) ELSE h[n - 1]
    <3>1. CASE n = 0
      BY <1>l7, <3>1
    <3>2. CASE n # 0
      <4>1. n - 1 \in 0..UserPages - 1 /\ n - 1 \in D /\ (n - 1) + 1 = n
        BY <1>l0, <3>2
      <4>2. h[n - 1] = g[n - 1]
        BY <4>1
      <4> HIDE DEF h
      <4>3. QED BY <1>l9, <3>2, <4>1, <4>2
    <3>3. QED BY <3>1, <3>2
  <2>2. QED BY <2>1
<1> HIDE DEF h
<1>l11. a = [n \in D |-> IF n = 0 THEN s
                         ELSE IF n - 1 \in U THEN V!Put(a[n - 1], p, n - 1, b) ELSE a[n - 1]]
  BY <1>l10
<1>l12. PutAll(s, p, U, b) = a[UserPages]
  BY Zenon DEF PutAll, V!ForPages
<1> HIDE DEF a
<1>l13. \A k \in D : a[k] = g[k]
  <2> DEFINE Q == {k \in D : a[k] = g[k]}
  <2>1. 0 \in Q
    <3>1. 0 \in D
      BY <1>l0
    <3>2. QED BY <1>l7, <1>l11, <3>1
  <2>2. ASSUME NEW k \in 0..UserPages - 1, k \in Q PROVE k + 1 \in Q
    <3>1. k \in Nat /\ k + 1 \in D /\ k + 1 # 0 /\ (k + 1) - 1 = k
      BY <1>l0
    <3>2. a[k + 1] = IF k \in U THEN V!Put(a[k], p, k, b) ELSE a[k]
      BY <1>l11, <3>1
    <3>3. QED BY <1>l9, <2>2, <3>1, <3>2
  <2> HIDE DEF Q
  <2>3. \A k \in 0..UserPages : k \in Q
    BY <1>l0, <2>1, <2>2, ReachesUpTo
  <2>4. QED BY <2>3 DEF Q
<1>l14. UserPages \in D
  BY <1>l0
<1>l15. PutAll(s, p, U, b) \in Store /\ <<UserPages, PutAll(s, p, U, b)>> \in Z
  BY <1>l0, <1>l7, <1>l8, <1>l12, <1>l13, <1>l14
<1>3. QED BY <1>1, <1>l0, <1>l15

CopyAll(s, p, q, U) == V!ForPages(LAMBDA t, v : V!Copy(t, p, q, v), s, U)

\* in t, q has copies of the pages X of p
Copied(s, t, p, q, X) ==
  /\ \A d \in DOMAIN s.mm[q].at : d \in DOMAIN t.mm[q].at
  /\ \A v \in V!VPage : <<"page", v>> \in DOMAIN t.mm[q].at <=> v \in X
  /\ \A v \in X : t.byte[t.mm[q].at[<<"page", v>>]] = s.byte[s.mm[p].at[<<"page", v>>]]

\* One of the entries of a page is its own, and none is the directory.
LEMMA PathPages ==
  ASSUME NEW v \in V!VPage
  PROVE  /\ <<"page", v>> \in PathOf(v)
         /\ \A w : <<"page", w>> \in PathOf(v) => w = v
         /\ V!PGDIR \notin PathOf(v)
BY DEF PathOf, V!Path, V!PGDIR

\* copy_range of one page
LEMMA CopyCopied ==
  ASSUME NEW s \in Store, NEW p \in Space, NEW q \in Space, p # q, NEW x \in Store, NEW X \in SUBSET V!VPage,
         NEW k \in V!VPage, <<"page", k>> \in DOMAIN s.mm[p].at,
         Others(s, x, q), x.halted \/ Copied(s, x, p, q, X)
  PROVE  LET y == V!Copy(x, p, q, k) IN
         Others(s, y, q) /\ (y.halted \/ Copied(s, y, p, q, X \cup {k}))
<1> DEFINE u == V!MapPage(x, q, k)
           y == V!Copy(x, p, q, k)
           c == u.byte[u.mm[p].at[<<"page", k>>]]
<1>1. Gets(x, u, q, PathOf(k))
  BY MapPageGets
<1>2. Others(s, u, q)
  <2> HIDE DEF u
  <2>1. Others(x, u, q)
    BY <1>1, GetsOthers
  <2>2. QED BY <2>1, OthersOn
<1>3. y = IF u.halted THEN u ELSE V!Put(u, q, k, c)
  BY Zenon DEF V!Copy
<1> HIDE DEF u, y, c
<1>4. CASE u.halted
  BY <1>2, <1>3, <1>4 DEF y
<1>5. CASE ~u.halted
  <2>1. ~x.halted /\ Copied(s, x, p, q, X) /\ u \in Store /\ u.byte = x.byte
    BY <1>1, <1>5 DEF Gets
  <2>2. u.mm[p] = s.mm[p] /\ u.byte[s.mm[p].at[<<"page", k>>]] = s.byte[s.mm[p].at[<<"page", k>>]]
    BY <1>2 DEF Others
  <2>3. c = s.byte[s.mm[p].at[<<"page", k>>]]
    BY <2>2 DEF c
  <2>4. c \in Byte
    <3>1. s \in Records /\ s.mm[p] \in Memory /\ s.byte \in [V!Frame -> Byte]
      BY DEF Store, Records
    <3>2. s.mm[p].at[<<"page", k>>] \in V!Frame
      BY <3>1, MemoryFacts
    <3>3. QED BY <2>3, <3>1, <3>2
  <2>5. \A d \in PathOf(k) : d \in DOMAIN u.mm[q].at
    BY <1>1, <1>5 DEF Gets
  <2>6. <<"page", k>> \in DOMAIN u.mm[q].at
    BY <2>5, PathPages
  <2>7. Puts(u, y, q, k, c) /\ Others(u, y, q)
    <3>1. y = V!Put(u, q, k, c)
      BY <1>3, <1>5
    <3>2. QED BY <1>5, <2>1, <2>4, <2>6, <3>1, PutPuts
  <2>8. Others(s, y, q)
    BY <1>2, <2>7, OthersOn
  <2>9. y.mm = u.mm /\ y.byte = [u.byte EXCEPT ![u.mm[q].at[<<"page", k>>]] = c]
    BY <2>7 DEF Puts
  <2>10. ASSUME NEW d \in DOMAIN s.mm[q].at PROVE d \in DOMAIN y.mm[q].at
    <3>1. d \in DOMAIN x.mm[q].at
      BY <2>1 DEF Copied
    <3>2. QED BY <1>1, <2>9, <3>1 DEF Gets
  <2>11. ASSUME NEW v \in V!VPage PROVE <<"page", v>> \in DOMAIN y.mm[q].at <=> v \in X \cup {k}
    <3>1. <<"page", v>> \in DOMAIN x.mm[q].at <=> v \in X
      BY <2>1 DEF Copied
    <3>2. <<"page", v>> \in DOMAIN x.mm[q].at => <<"page", v>> \in DOMAIN u.mm[q].at
      BY <1>1 DEF Gets
    <3>3. <<"page", v>> \in DOMAIN u.mm[q].at =>
            <<"page", v>> \in DOMAIN x.mm[q].at \/ <<"page", v>> \in PathOf(k)
      BY <1>1 DEF Gets
    <3>4. <<"page", v>> \in PathOf(k) => v = k
      BY PathPages
    <3>5. QED BY <2>6, <2>9, <3>1, <3>2, <3>3, <3>4
  <2>12. ASSUME NEW v \in X \cup {k}
         PROVE  y.byte[y.mm[q].at[<<"page", v>>]] = s.byte[s.mm[p].at[<<"page", v>>]]
    <3>0. u.byte \in [V!Frame -> Byte] /\ u.mm[q] \in Memory /\ OnePlace(u)
      BY <2>1 DEF Store, Records
    <3>1. CASE v = k
      <4>1. u.mm[q].at[<<"page", k>>] \in V!Frame
        BY <2>6, <3>0, MemoryFacts
      <4>2. QED BY <2>3, <2>9, <3>0, <3>1, <4>1
    <3>2. CASE v # k
      <4>1. v \in X /\ v \in V!VPage
        BY <3>2
      <4>2. <<"page", v>> \in DOMAIN x.mm[q].at
            /\ x.byte[x.mm[q].at[<<"page", v>>]] = s.byte[s.mm[p].at[<<"page", v>>]]
        BY <2>1, <4>1 DEF Copied
      <4>3. <<"page", v>> \in DOMAIN u.mm[q].at /\ u.mm[q].at[<<"page", v>>] = x.mm[q].at[<<"page", v>>]
        BY <1>1, <4>2 DEF Gets
      <4>4. <<"page", v>> # <<"page", k>>
        BY <3>2
      <4>5. u.mm[q].at[<<"page", v>>] # u.mm[q].at[<<"page", k>>]
        BY <2>6, <3>0, <4>3, <4>4 DEF OnePlace
      <4>6. u.mm[q].at[<<"page", v>>] \in V!Frame
        BY <3>0, <4>3, MemoryFacts
      <4>7. QED BY <2>1, <2>9, <3>0, <4>2, <4>3, <4>5, <4>6
    <3>3. QED BY <3>1, <3>2
  <2>13. Copied(s, y, p, q, X \cup {k})
    BY <2>10, <2>11, <2>12 DEF Copied
  <2>14. QED BY <2>8, <2>13 DEF y
<1>6. QED BY <1>4, <1>5

\* dup_mmap
LEMMA CopyAllCopied ==
  ASSUME NEW s \in Store, NEW p \in Space, NEW q \in Space, p # q,
         \A v \in V!VPage : <<"page", v>> \notin DOMAIN s.mm[q].at,
         NEW U \in SUBSET V!VPage, \A v \in U : <<"page", v>> \in DOMAIN s.mm[p].at
  PROVE  /\ Others(s, CopyAll(s, p, q, U), q)
         /\ CopyAll(s, p, q, U).halted \/ Copied(s, CopyAll(s, p, q, U), p, q, U)
<1> DEFINE Z == {z \in Nat \X Store : /\ Others(s, z[2], q)
                                      /\ z[2].halted \/ Copied(s, z[2], p, q, Below(U, z[1]))}
<1>1. \A k \in Nat, x \in Store :
        <<k, x>> \in Z <=> Others(s, x, q) /\ (x.halted \/ Copied(s, x, p, q, Below(U, k)))
  OBVIOUS
<1>2. ASSUME NEW k \in Nat, NEW x \in Store, <<k, x>> \in Z, k \in U
      PROVE  V!Copy(x, p, q, k) \in Store /\ <<k + 1, V!Copy(x, p, q, k)>> \in Z
  <2> DEFINE X == Below(U, k)
             y == V!Copy(x, p, q, k)
  <2>1. Others(s, x, q) /\ (x.halted \/ Copied(s, x, p, q, X))
    BY <1>1, <1>2
  <2>2. X \in SUBSET V!VPage /\ k \in V!VPage /\ <<"page", k>> \in DOMAIN s.mm[p].at
    BY <1>2 DEF Below
  <2> HIDE DEF X
  <2>3. Others(s, y, q) /\ (y.halted \/ Copied(s, y, p, q, X \cup {k}))
    BY <2>1, <2>2, CopyCopied
  <2> HIDE DEF y
  <2>4. Below(U, k + 1) = X \cup {k}
    <3>1. UserPages \in Nat /\ U \subseteq 0..UserPages - 1
      BY SpacesConstants
    <3>2. QED BY <1>2, <3>1, BelowWith DEF X
  <2>5. y \in Store /\ k + 1 \in Nat
    BY <2>3 DEF Others
  <2>6. y \in Store /\ <<k + 1, y>> \in Z
    BY <1>1, <2>3, <2>4, <2>5
  <2>7. QED BY <2>6 DEF y
<1> HIDE DEF Z
<1> DEFINE step == [x \in Nat \X Store |->
                      IF x[1] \in U /\ V!Copy(x[2], p, q, x[1]) \in Store THEN V!Copy(x[2], p, q, x[1]) ELSE x[2]]
           D == 0..UserPages
<1>l0. UserPages \in Nat /\ V!VPage = 0..UserPages - 1 /\ U \subseteq 0..UserPages - 1
  BY SpacesConstants
<1>l1. step \in Steps(Store)
  BY DEF Steps
<1>l2. \A k \in Nat, x \in Store :
         step[<<k, x>>] = IF k \in U /\ V!Copy(x, p, q, k) \in Store THEN V!Copy(x, p, q, k) ELSE x
  OBVIOUS
<1> HIDE DEF step
<1>l3. <<0, s>> \in Z
  <2>1. Others(s, s, q)
    BY DEF Others
  <2>2. Below(U, 0) = {}
    BY <1>l0, BelowEnds
  <2>3. Copied(s, s, p, q, {})
    BY DEF Copied
  <2>4. QED BY <1>1, <2>1, <2>2, <2>3
<1>l4. \A k \in Nat, x \in Store : <<k, x>> \in Z /\ k \in U => V!Copy(x, p, q, k) \in Store
  BY <1>2
<1>l5. StaysIn(UserPages, Store, step, Z)
  <2> SUFFICES ASSUME NEW k \in 0..UserPages - 1, NEW x \in Store, <<k, x>> \in Z
               PROVE  <<k + 1, step[<<k, x>>]>> \in Z
    BY DEF StaysIn
  <2>1. k \in Nat
    BY <1>l0
  <2>2. CASE k \in U
    <3>1. V!Copy(x, p, q, k) \in Store
      BY <1>l4, <2>1, <2>2
    <3>2. step[<<k, x>>] = V!Copy(x, p, q, k)
      BY <1>l2, <2>1, <2>2, <3>1
    <3>3. <<k + 1, V!Copy(x, p, q, k)>> \in Z
      BY <1>2, <2>1, <2>2
    <3>4. QED BY <3>2, <3>3
  <2>3. CASE k \notin U
    <3>1. step[<<k, x>>] = x
      BY <1>l2, <2>1, <2>3
    <3>2. <<k + 1, x>> \in Z
      <4>1. Below(U, k + 1) = Below(U, k)
        BY <1>l0, <2>1, <2>3, BelowWithout
      <4>2. k + 1 \in Nat
        BY <2>1
      <4>3. QED BY <1>1, <2>1, <4>1, <4>2
    <3>3. QED BY <3>1, <3>2
  <2>4. QED BY <2>2, <2>3
<1> HIDE DEF Z
<1>l6. PICK g : Follows(g, Store, s, step) /\ Along(UserPages, g, Z)
  BY <1>l0, <1>l1, <1>l3, <1>l5, LoopTo
<1>l7. g \in [Nat -> Store] /\ g[0] = s /\ \A k \in Nat : g[k + 1] = step[<<k, g[k]>>]
  BY <1>l6 DEF Follows
<1>l8. \A k \in D : <<k, g[k]>> \in Z
  BY <1>l6 DEF Along
<1>l9. ASSUME NEW k \in 0..UserPages - 1
       PROVE  g[k + 1] = IF k \in U THEN V!Copy(g[k], p, q, k) ELSE g[k]
  <2>1. k \in Nat /\ g[k] \in Store /\ <<k, g[k]>> \in Z
    BY <1>l0, <1>l7, <1>l8
  <2>2. k \in U => V!Copy(g[k], p, q, k) \in Store
    BY <1>l4, <2>1
  <2>3. QED BY <1>l2, <1>l7, <2>1, <2>2
<1> DEFINE h == [k \in D |-> g[k]]
           a == CHOOSE f : f = [n \in D |-> IF n = 0 THEN s
                                  ELSE IF n - 1 \in U THEN V!Copy(f[n - 1], p, q, n - 1) ELSE f[n - 1]]
<1>l10. h = [n \in D |-> IF n = 0 THEN s
                         ELSE IF n - 1 \in U THEN V!Copy(h[n - 1], p, q, n - 1) ELSE h[n - 1]]
  <2>1. ASSUME NEW n \in D
        PROVE  g[n] = IF n = 0 THEN s
                      ELSE IF n - 1 \in U THEN V!Copy(h[n - 1], p, q, n - 1) ELSE h[n - 1]
    <3>1. CASE n = 0
      BY <1>l7, <3>1
    <3>2. CASE n # 0
      <4>1. n - 1 \in 0..UserPages - 1 /\ n - 1 \in D /\ (n - 1) + 1 = n
        BY <1>l0, <3>2
      <4>2. h[n - 1] = g[n - 1]
        BY <4>1
      <4> HIDE DEF h
      <4>3. QED BY <1>l9, <3>2, <4>1, <4>2
    <3>3. QED BY <3>1, <3>2
  <2>2. QED BY <2>1
<1> HIDE DEF h
<1>l11. a = [n \in D |-> IF n = 0 THEN s
                         ELSE IF n - 1 \in U THEN V!Copy(a[n - 1], p, q, n - 1) ELSE a[n - 1]]
  BY <1>l10
<1>l12. CopyAll(s, p, q, U) = a[UserPages]
  BY Zenon DEF CopyAll, V!ForPages
<1> HIDE DEF a
<1>l13. \A k \in D : a[k] = g[k]
  <2> DEFINE Q == {k \in D : a[k] = g[k]}
  <2>1. 0 \in Q
    <3>1. 0 \in D
      BY <1>l0
    <3>2. QED BY <1>l7, <1>l11, <3>1
  <2>2. ASSUME NEW k \in 0..UserPages - 1, k \in Q PROVE k + 1 \in Q
    <3>1. k \in Nat /\ k + 1 \in D /\ k + 1 # 0 /\ (k + 1) - 1 = k
      BY <1>l0
    <3>2. a[k + 1] = IF k \in U THEN V!Copy(a[k], p, q, k) ELSE a[k]
      BY <1>l11, <3>1
    <3>3. QED BY <1>l9, <2>2, <3>1, <3>2
  <2> HIDE DEF Q
  <2>3. \A k \in 0..UserPages : k \in Q
    BY <1>l0, <2>1, <2>2, ReachesUpTo
  <2>4. QED BY <2>3 DEF Q
<1>l14. UserPages \in D
  BY <1>l0
<1>l15. CopyAll(s, p, q, U) \in Store /\ <<UserPages, CopyAll(s, p, q, U)>> \in Z
  BY <1>l0, <1>l7, <1>l8, <1>l12, <1>l13, <1>l14
<1>3. Below(U, UserPages) = U
  BY <1>l0, BelowEnds
<1>4. QED BY <1>1, <1>3, <1>l0, <1>l15

\* The vmas are of no account for the frames.
LEMMA SetVma ==
  ASSUME NEW s \in Store, NEW p \in Space, NEW U \in SUBSET V!VPage
  PROVE  LET t == [s EXCEPT !.mm[p].vma = U] IN
         /\ Others(s, t, p) /\ t.halted = s.halted /\ t.mm[p].at = s.mm[p].at /\ t.byte = s.byte
<1> DEFINE t == [s EXCEPT !.mm[p].vma = U]
           m == [at |-> s.mm[p].at, vma |-> U]
<1>0. s \in Records /\ OnePlace(s) /\ s.mm[p] \in Memory /\ s.mm \in [Space -> Memory]
  BY DEF Store, Records
<1>1. m \in Memory
  BY <1>0 DEF Memory
<1>2. [s.mm[p] EXCEPT !.vma = U] = m
  BY <1>0 DEF Memory
<1>3. t = [s EXCEPT !.mm = [s.mm EXCEPT ![p] = m]]
  BY <1>0, <1>2 DEF Records
<1> HIDE DEF t
<1>m. m.at = s.mm[p].at
  OBVIOUS
<1> HIDE DEF m
<1>4. /\ t \in Records /\ t.mm = [s.mm EXCEPT ![p] = m] /\ t.byte = s.byte /\ t.free = s.free
      /\ t.halted = s.halted
  BY <1>0, <1>1, <1>3 DEF Records
<1>5. t.mm[p].at = s.mm[p].at /\ \A r \in Space : r # p => t.mm[r] = s.mm[r]
  BY <1>0, <1>4, <1>m
<1>6. \A r \in Space : t.mm[r].at = s.mm[r].at
  BY <1>5
<1>7. OnePlace(t)
  BY <1>0, <1>4, <1>6 DEF OnePlace
<1>8. t \in Store
  BY <1>4, <1>7 DEF Store
<1>9. Others(s, t, p)
  BY <1>4, <1>5, <1>8 DEF Others
<1>10. QED BY <1>4, <1>5, <1>9 DEF t

\* m is nothing, or has a page directory and pages
Whole(m) == DOMAIN m.at = {} \/ (V!PGDIR \in DOMAIN m.at /\ V!PagesOf(m) # {})

\* All these are entries.
LEMMA EntriesAre == V!PGDIR \in Entry /\ \A v \in V!VPage : <<"page", v>> \in PathOf(v)
BY PathPages DEF V!PGDIR, Entry

\* exec, also when it fails
LEMMA LoadOthers ==
  ASSUME NEW s \in Store, NEW p \in Space, NEW image \in Image, NEW b \in Byte
  PROVE  LET t == V!Load(V!Drop(s, p), p, image, b) IN
         Others(s, t, p) /\ (t.halted \/ Whole(t.mm[p]))
<1> DEFINE e == V!Drop(s, p)
           d == V!Give(e, p, V!PGDIR)
           U == image \cup Eager
           f == V!MapPages(d, p, U)
           r == PutAll(f, p, image, b)
           t == [r EXCEPT !.mm[p].vma = image \cup Stack]
<1>0. image \in SUBSET V!VPage /\ U \in SUBSET V!VPage /\ image \cup Stack \in SUBSET V!VPage
      /\ Eager # {} /\ Eager \subseteq V!VPage
  BY SpacesConstants
<1>1. V!Load(e, p, image, b) = t
  BY Zenon DEF V!Load, PutAll
<1> HIDE DEF t
<1>2. Others(s, e, p)
  BY DropOthers
<1> HIDE DEF e
<1>3. Gets(e, d, p, {V!PGDIR})
  <2>1. e \in Store
    BY <1>2 DEF Others
  <2>2. QED BY <2>1, EntriesAre, GiveGets
<1> HIDE DEF d
<1>4. Gets(d, f, p, Paths(U))
  <2>1. d \in Store
    BY <1>3 DEF Gets
  <2> HIDE DEF U
  <2>2. QED BY <1>0, <2>1, MapPagesGets
<1> HIDE DEF f
<1>5. Gets(e, f, p, {V!PGDIR} \cup Paths(U))
  <2> HIDE DEF U
  <2>1. QED BY <1>3, <1>4, GetsMore
<1>6. f.halted \/ (V!PGDIR \in DOMAIN f.mm[p].at /\ \A v \in U : <<"page", v>> \in DOMAIN f.mm[p].at)
  <2>1. \A v \in U : <<"page", v>> \in Paths(U)
    BY <1>0, EntriesAre DEF Paths
  <2> HIDE DEF U
  <2>2. QED BY <1>5, <2>1 DEF Gets
<1>7. Others(f, r, p) /\ r.mm = f.mm /\ r.halted = f.halted
  <2>1. f.halted \/ \A v \in image : <<"page", v>> \in DOMAIN f.mm[p].at
    BY <1>6
  <2>2. f \in Store
    BY <1>4 DEF Gets
  <2>3. QED BY <1>0, <2>1, <2>2, PutAllOthers
<1> HIDE DEF r
<1>8. Others(r, t, p) /\ t.halted = r.halted /\ t.mm[p].at = r.mm[p].at
  <2>1. r \in Store
    BY <1>7 DEF Others
  <2>2. QED BY <1>0, <2>1, SetVma DEF t
<1>9. Others(s, t, p)
  <2>1. Others(e, f, p)
    BY <1>5, GetsOthers
  <2>2. Others(s, f, p)
    BY <1>2, <2>1, OthersOn
  <2>3. Others(s, r, p)
    BY <1>7, <2>2, OthersOn
  <2>4. QED BY <1>8, <2>3, OthersOn
<1>10. t.halted \/ Whole(t.mm[p])
  <2> SUFFICES ASSUME ~t.halted PROVE Whole(t.mm[p])
    OBVIOUS
  <2>1. t.mm[p].at = f.mm[p].at /\ ~f.halted
    BY <1>7, <1>8
  <2>2. PICK v \in Eager : TRUE
    BY <1>0
  <2>3. V!PGDIR \in DOMAIN t.mm[p].at /\ <<"page", v>> \in DOMAIN t.mm[p].at /\ v \in V!VPage
    BY <1>0, <1>6, <2>1
  <2>4. v \in V!PagesOf(t.mm[p])
    BY <2>3 DEF V!PagesOf
  <2>5. QED BY <2>3, <2>4 DEF Whole
<1>11. QED BY <1>1, <1>9, <1>10 DEF e

\* A load that fails gives back what it got.
LEMMA LoadFailsOthers ==
  ASSUME NEW s \in Store, NEW p \in Space, NEW image \in Image
  PROVE  LET t == V!Drop(V!MapPages(V!Give(V!Drop(s, p), p, V!PGDIR), p, image), p) IN
         Others(s, t, p) /\ Whole(t.mm[p])
<1> DEFINE e == V!Drop(s, p)
           d == V!Give(e, p, V!PGDIR)
           f == V!MapPages(d, p, image)
           t == V!Drop(f, p)
<1>0. image \in SUBSET V!VPage
  BY SpacesConstants
<1>2. Others(s, e, p)
  BY DropOthers
<1> HIDE DEF e
<1>3. Gets(e, d, p, {V!PGDIR})
  <2>1. e \in Store
    BY <1>2 DEF Others
  <2>2. QED BY <2>1, EntriesAre, GiveGets
<1> HIDE DEF d
<1>4. Gets(d, f, p, Paths(image))
  <2>1. d \in Store
    BY <1>3 DEF Gets
  <2>2. QED BY <1>0, <2>1, MapPagesGets
<1> HIDE DEF f
<1>5. f \in Store
  BY <1>4 DEF Gets
<1>6. Others(f, t, p) /\ t.mm[p] = V!NoMm /\ DOMAIN V!NoMm.at = {}
  BY <1>5, DropOthers
<1> HIDE DEF t
<1>7. Others(s, t, p)
  <2>1. Others(e, d, p)
    BY <1>3, GetsOthers
  <2>2. Others(d, f, p)
    BY <1>4, GetsOthers
  <2>3. Others(s, d, p)
    BY <1>2, <2>1, OthersOn
  <2>4. Others(s, f, p)
    BY <2>2, <2>3, OthersOn
  <2>5. QED BY <1>6, <2>4, OthersOn
<1>8. QED BY <1>6, <1>7 DEF Whole, t, f, d, e

\* what the pages of an mm hold
BytesOf(m, h) == [v \in V!PagesOf(m) |-> h[m.at[<<"page", v>>]]]

\* the child has what the parent has
LEMMA ForkCopies ==
  ASSUME NEW s \in Store, NEW p \in Space, NEW q \in Space, p # q, DOMAIN s.mm[q].at = {},
         Whole(s.mm[p]), V!PGDIR \in DOMAIN s.mm[p].at
  PROVE  LET d == V!Give(s, q, V!PGDIR)
             t == [CopyAll(d, p, q, V!PagesOf(s.mm[p])) EXCEPT !.mm[q].vma = s.mm[p].vma]
         IN /\ Others(s, t, q)
            /\ t.halted \/ (Whole(t.mm[q]) /\ BytesOf(t.mm[q], t.byte) = BytesOf(s.mm[p], s.byte))
<1> DEFINE d == V!Give(s, q, V!PGDIR)
           U == V!PagesOf(s.mm[p])
           c == CopyAll(d, p, q, U)
           t == [c EXCEPT !.mm[q].vma = s.mm[p].vma]
<1>0. U \in SUBSET V!VPage /\ s.mm[p].vma \in SUBSET V!VPage /\ U # {}
      /\ \A v \in V!VPage : v \in U <=> <<"page", v>> \in DOMAIN s.mm[p].at
  <2>1. s.mm[p] \in Memory
    BY DEF Store, Records
  <2>2. QED BY <2>1, MemoryFacts DEF V!PagesOf, Whole
<1>1. Gets(s, d, q, {V!PGDIR})
  BY EntriesAre, GiveGets
<1> HIDE DEF U
<1> HIDE DEF d
<1>2. d \in Store /\ d.mm[p] = s.mm[p] /\ d.byte = s.byte /\ (d.halted \/ V!PGDIR \in DOMAIN d.mm[q].at)
  BY <1>1 DEF Gets
<1>3. \A v \in V!VPage : <<"page", v>> \notin DOMAIN d.mm[q].at
  <2>1. DOMAIN d.mm[q].at \subseteq {V!PGDIR}
    BY <1>1 DEF Gets
  <2>2. \A v : <<"page", v>> # V!PGDIR
    BY DEF V!PGDIR
  <2>3. QED BY <2>1, <2>2
<1>4. Others(d, c, q) /\ (c.halted \/ Copied(d, c, p, q, U))
  <2>1. \A v \in U : <<"page", v>> \in DOMAIN d.mm[p].at
    BY <1>0, <1>2
  <2>2. QED BY <1>0, <1>2, <1>3, <2>1, CopyAllCopied
<1> HIDE DEF c
<1>5. Others(c, t, q) /\ t.halted = c.halted /\ t.mm[q].at = c.mm[q].at /\ t.byte = c.byte
  <2>1. c \in Store
    BY <1>4 DEF Others
  <2>2. QED BY <1>0, <2>1, SetVma
<1> HIDE DEF t
<1>6. Others(s, t, q)
  <2>1. Others(s, d, q)
    BY <1>1, GetsOthers
  <2>2. Others(s, c, q)
    BY <1>4, <2>1, OthersOn
  <2>3. QED BY <1>5, <2>2, OthersOn
<1>7. ASSUME ~t.halted PROVE Whole(t.mm[q]) /\ BytesOf(t.mm[q], t.byte) = BytesOf(s.mm[p], s.byte)
  <2>1. ~c.halted /\ ~d.halted /\ Copied(d, c, p, q, U)
    BY <1>4, <1>5, <1>7 DEF Others
  <2>2. V!PGDIR \in DOMAIN t.mm[q].at
    BY <1>2, <1>5, <2>1 DEF Copied
  <2>3. V!PagesOf(t.mm[q]) = U
    <3>1. \A v \in V!VPage : <<"page", v>> \in DOMAIN c.mm[q].at <=> v \in U
      BY <2>1 DEF Copied
    <3>2. QED BY <1>0, <1>5, <3>1 DEF V!PagesOf
  <2>4. \A v \in U : t.byte[t.mm[q].at[<<"page", v>>]] = s.byte[s.mm[p].at[<<"page", v>>]]
    BY <1>2, <1>5, <2>1 DEF Copied
  <2>5. V!PagesOf(s.mm[p]) = U
    BY DEF U
  <2>6. BytesOf(t.mm[q], t.byte) = BytesOf(s.mm[p], s.byte)
    BY <2>3, <2>4, <2>5 DEF BytesOf
  <2>7. QED BY <1>0, <2>2, <2>3, <2>6 DEF Whole
<1>8. QED BY <1>6, <1>7 DEF t, c, d, U

\* a store
LEMMA WriteWrites ==
  ASSUME NEW s \in Store, NEW p \in Space, Whole(s.mm[p]), V!PGDIR \in DOMAIN s.mm[p].at,
         NEW v \in V!VPage, NEW b \in Byte
  PROVE  LET t == V!Put(V!MapPage(s, p, v), p, v, b) IN
         /\ Others(s, t, p)
         /\ t.halted \/ (Whole(t.mm[p]) /\ BytesOf(t.mm[p], t.byte) =
              [w \in DOMAIN BytesOf(s.mm[p], s.byte) \cup {v} |->
                 IF w = v THEN b ELSE BytesOf(s.mm[p], s.byte)[w]])
<1> DEFINE u == V!MapPage(s, p, v)
           t == V!Put(u, p, v, b)
           U == V!PagesOf(s.mm[p])
<1>1. Gets(s, u, p, PathOf(v))
  BY MapPageGets
<1> HIDE DEF u
<1>2. u \in Store /\ u.byte = s.byte /\ Others(s, u, p)
  <2>1. Others(s, u, p)
    BY <1>1, GetsOthers
  <2>2. QED BY <1>1, <2>1 DEF Gets
<1>3. CASE u.halted
  <2>1. t = u
    BY <1>2, <1>3, PutHalted
  <2>2. QED BY <1>2, <1>3, <2>1 DEF u
<1>4. CASE ~u.halted
  <2>1. <<"page", v>> \in DOMAIN u.mm[p].at
    BY <1>1, <1>4, PathPages DEF Gets
  <2>2. Puts(u, t, p, v, b) /\ Others(u, t, p)
    BY <1>2, <1>4, <2>1, PutPuts
  <2> HIDE DEF t
  <2>3. Others(s, t, p)
    BY <1>2, <2>2, OthersOn
  <2>4. t.mm = u.mm /\ t.byte = [s.byte EXCEPT ![u.mm[p].at[<<"page", v>>]] = b]
    BY <1>2, <2>2 DEF Puts
  <2>5. ASSUME NEW w \in V!VPage PROVE <<"page", w>> \in DOMAIN t.mm[p].at <=> w \in U \/ w = v
    <3>1. <<"page", w>> \in DOMAIN s.mm[p].at <=> w \in U
      BY DEF V!PagesOf
    <3>2. <<"page", w>> \in DOMAIN s.mm[p].at => <<"page", w>> \in DOMAIN u.mm[p].at
      BY <1>1 DEF Gets
    <3>3. <<"page", w>> \in DOMAIN u.mm[p].at =>
            <<"page", w>> \in DOMAIN s.mm[p].at \/ <<"page", w>> \in PathOf(v)
      BY <1>1 DEF Gets
    <3>4. <<"page", w>> \in PathOf(v) => w = v
      BY PathPages
    <3>5. QED BY <2>1, <2>4, <3>1, <3>2, <3>3, <3>4
  <2>6. V!PagesOf(t.mm[p]) = U \cup {v}
    BY <2>5 DEF V!PagesOf
  <2>7. ASSUME NEW w \in U \cup {v}
        PROVE  t.byte[t.mm[p].at[<<"page", w>>]] = IF w = v THEN b ELSE s.byte[s.mm[p].at[<<"page", w>>]]
    <3>0. s.byte \in [V!Frame -> Byte] /\ u.mm[p] \in Memory /\ OnePlace(u)
      BY <1>2 DEF Store, Records
    <3>1. CASE w = v
      <4>1. u.mm[p].at[<<"page", v>>] \in V!Frame
        BY <2>1, <3>0, MemoryFacts
      <4>2. QED BY <2>4, <3>0, <3>1, <4>1
    <3>2. CASE w # v
      <4>1. <<"page", w>> \in DOMAIN s.mm[p].at
        BY <3>2 DEF V!PagesOf
      <4>2. <<"page", w>> \in DOMAIN u.mm[p].at /\ u.mm[p].at[<<"page", w>>] = s.mm[p].at[<<"page", w>>]
        BY <1>1, <4>1 DEF Gets
      <4>3. <<"page", w>> # <<"page", v>>
        BY <3>2
      <4>4. u.mm[p].at[<<"page", w>>] # u.mm[p].at[<<"page", v>>]
        BY <2>1, <3>0, <4>2, <4>3 DEF OnePlace
      <4>5. u.mm[p].at[<<"page", w>>] \in V!Frame
        BY <3>0, <4>2, MemoryFacts
      <4>6. QED BY <2>4, <3>0, <3>2, <4>2, <4>4, <4>5
    <3>3. QED BY <3>1, <3>2
  <2>8. BytesOf(t.mm[p], t.byte) =
              [w \in DOMAIN BytesOf(s.mm[p], s.byte) \cup {v} |->
                 IF w = v THEN b ELSE BytesOf(s.mm[p], s.byte)[w]]
    <3> DEFINE g == BytesOf(s.mm[p], s.byte)
    <3>1. DOMAIN g = U /\ \A w \in U : g[w] = s.byte[s.mm[p].at[<<"page", w>>]]
      BY DEF BytesOf
    <3> HIDE DEF g, U
    <3>2. BytesOf(t.mm[p], t.byte) = [w \in U \cup {v} |-> t.byte[t.mm[p].at[<<"page", w>>]]]
      BY <2>6 DEF BytesOf
    <3>3. \A w \in U \cup {v} : t.byte[t.mm[p].at[<<"page", w>>]] = IF w = v THEN b ELSE g[w]
      BY <2>7, <3>1
    <3>4. BytesOf(t.mm[p], t.byte) = [w \in DOMAIN g \cup {v} |-> IF w = v THEN b ELSE g[w]]
      BY <3>1, <3>2, <3>3
    <3>5. QED BY <3>4 DEF g
  <2>9. V!PGDIR \in DOMAIN t.mm[p].at
    BY <1>1, <2>4 DEF Gets
  <2>10. Whole(t.mm[p])
    BY <2>6, <2>9 DEF Whole
  <2>11. QED BY <2>3, <2>8, <2>10 DEF t, u
<1>5. QED BY <1>3, <1>4

SpacesInv == V!Now \in Store /\ \A p \in Space : Whole(mm[p])

\* the contents of all spaces
ValOf(m, h) == [p \in Space |-> BytesOf(m[p], h)]

\* This is how Spaces sees the frames.
LEMMA SpacesMap ==
  [p \in Space |-> [v \in V!PagesOf(mm[p]) |-> byte[mm[p].at[<<"page", v>>]]]] = ValOf(mm, byte)
BY Zenon DEF ValOf, BytesOf

\* What a process has in memory is a content of Spaces.
LEMMA BytesIn ==
  ASSUME NEW s \in Store, NEW p \in Space
  PROVE  BytesOf(s.mm[p], s.byte) \in V!Abstract!Contents
<1>1. s.mm[p] \in Memory /\ s.byte \in [V!Frame -> Byte]
  BY DEF Store, Records
<1>2. V!PagesOf(s.mm[p]) \in SUBSET V!VPage
  BY DEF V!PagesOf
<1>3. \A v \in V!PagesOf(s.mm[p]) : s.byte[s.mm[p].at[<<"page", v>>]] \in Byte
  <2> SUFFICES ASSUME NEW v \in V!PagesOf(s.mm[p]) PROVE s.byte[s.mm[p].at[<<"page", v>>]] \in Byte
    OBVIOUS
  <2>1. s.mm[p].at[<<"page", v>>] \in V!Frame
    BY <1>1, MemoryFacts DEF V!PagesOf
  <2>2. QED BY <1>1, <2>1
<1>4. BytesOf(s.mm[p], s.byte) \in [V!PagesOf(s.mm[p]) -> Byte]
  BY <1>3 DEF BytesOf
<1>5. QED BY <1>2, <1>4 DEF V!Abstract!Contents

\* What the others have in memory stays.
LEMMA OthersVal ==
  ASSUME NEW s, NEW t, NEW p, Others(s, t, p)
  PROVE  ValOf(t.mm, t.byte) = [ValOf(s.mm, s.byte) EXCEPT ![p] = BytesOf(t.mm[p], t.byte)]
<1>1. ASSUME NEW r \in Space, r # p PROVE BytesOf(t.mm[r], t.byte) = BytesOf(s.mm[r], s.byte)
  <2>1. t.mm[r] = s.mm[r] /\ \A d \in DOMAIN s.mm[r].at : t.byte[s.mm[r].at[d]] = s.byte[s.mm[r].at[d]]
    BY <1>1 DEF Others
  <2>2. \A v \in V!PagesOf(s.mm[r]) : <<"page", v>> \in DOMAIN s.mm[r].at
    BY DEF V!PagesOf
  <2>3. QED BY <2>1, <2>2 DEF BytesOf
<1>2. p \in Space
  BY DEF Others
<1>3. QED BY <1>1, <1>2 DEF ValOf

\* The record of the state
LEMMA NowIs ==
  /\ V!Now.mm = mm /\ V!Now.free = free /\ V!Now.byte = byte /\ V!Now.halted = halted
  /\ \A s \in Store : s.mm = mm /\ s.free = free /\ s.byte = byte /\ s.halted = halted => s = V!Now
BY DEF V!Now, Store, Records

\* A call that changes what p has in memory.
LEMMA StepOfOne ==
  ASSUME SpacesInv, NEW t, NEW p \in Space, Others(V!Now, t, p), V!Becomes(t),
         t.halted \/ Whole(t.mm[p])
  PROVE  /\ SpacesInv' /\ V!Abstract!Exec(p) /\ halted' = t.halted
         /\ ~t.halted => ValOf(mm', byte') = [ValOf(mm, byte) EXCEPT ![p] = BytesOf(t.mm[p], t.byte)]
<1>0. V!Now \in Store /\ t \in Store /\ \A r \in Space : Whole(mm[r])
  BY DEF SpacesInv, Others
<1>1. [q \in Space |-> [v \in V!PagesOf(mm[q]) |-> byte[mm[q].at[<<"page", v>>]]]]' = ValOf(mm', byte')
  BY Zenon DEF ValOf, BytesOf
<1>2. CASE t.halted
  <2>1. halted' = TRUE /\ mm' = mm /\ free' = free /\ byte' = byte
    BY <1>2 DEF V!Becomes
  <2>2. V!Now' \in Store
    <3>1. V!Now \in Records /\ OnePlace(V!Now)
      BY <1>0 DEF Store
    <3>2. V!Now' = [mm |-> mm, free |-> free, byte |-> byte, halted |-> TRUE]
      BY <2>1 DEF V!Now
    <3>3. V!Now = [mm |-> mm, free |-> free, byte |-> byte, halted |-> halted]
      BY DEF V!Now
    <3>4. V!Now' \in Records
      BY <3>1, <3>2, <3>3 DEF Records
    <3>5. OnePlace(V!Now')
      BY <3>1, <3>2, <3>3 DEF OnePlace
    <3>6. QED BY <3>4, <3>5 DEF Store
  <2>3. SpacesInv'
    <3>1. \A r \in Space : Whole(mm[r])'
      BY <1>0, <2>1
    <3>2. QED BY <2>2, <3>1 DEF SpacesInv
  <2>4. BytesOf(mm[p], byte) \in V!Abstract!Contents
    <3>1. BytesOf(V!Now.mm[p], V!Now.byte) \in V!Abstract!Contents
      BY <1>0, BytesIn
    <3>2. QED BY <3>1, NowIs
  <2>5. ValOf(mm', byte') = [ValOf(mm, byte) EXCEPT ![p] = BytesOf(mm[p], byte)]
    BY <2>1 DEF ValOf
  <2>6. V!Abstract!Exec(p)
    BY <1>1, <2>4, <2>5, SpacesMap DEF V!Abstract!Exec
  <2>7. QED BY <1>2, <2>1, <2>3, <2>6
<1>3. CASE ~t.halted
  <2>1. halted' = t.halted /\ mm' = t.mm /\ free' = t.free /\ byte' = t.byte
    BY <1>3 DEF V!Becomes
  <2>2. V!Now' = t
    <3>1. t = [mm |-> t.mm, free |-> t.free, byte |-> t.byte, halted |-> t.halted]
      BY <1>0 DEF Store, Records
    <3>2. V!Now' = [mm |-> mm', free |-> free', byte |-> byte', halted |-> halted']
      BY DEF V!Now
    <3>3. QED BY <2>1, <3>1, <3>2
  <2>3. \A r \in Space : Whole(t.mm[r])
    <3> SUFFICES ASSUME NEW r \in Space PROVE Whole(t.mm[r])
      OBVIOUS
    <3>1. CASE r = p
      BY <1>3, <3>1
    <3>2. CASE r # p
      <4>1. t.mm[r] = mm[r]
        BY <3>2, NowIs DEF Others
      <4>2. QED BY <1>0, <4>1
    <3>3. QED BY <3>1, <3>2
  <2>4. SpacesInv'
    BY <1>0, <2>1, <2>2, <2>3 DEF SpacesInv
  <2>5. ValOf(mm', byte') = [ValOf(mm, byte) EXCEPT ![p] = BytesOf(t.mm[p], t.byte)]
    <3>1. ValOf(t.mm, t.byte) = [ValOf(V!Now.mm, V!Now.byte) EXCEPT ![p] = BytesOf(t.mm[p], t.byte)]
      BY OthersVal
    <3>2. QED BY <2>1, <3>1, NowIs
  <2>6. BytesOf(t.mm[p], t.byte) \in V!Abstract!Contents
    BY <1>0, BytesIn
  <2>7. V!Abstract!Exec(p)
    BY <1>1, <2>5, <2>6, SpacesMap DEF V!Abstract!Exec
  <2>8. QED BY <2>1, <2>4, <2>5, <2>7
<1>4. QED BY <1>2, <1>3

\* do_execve changes the memory of one process.
LEMMA SpacesExec ==
  ASSUME SpacesInv, NEW p \in Space, NEW image \in Image, NEW b \in Byte, V!Exec(p, image, b)
  PROVE  SpacesInv' /\ V!Abstract!Exec(p)
<1> DEFINE t == V!Load(V!Drop(V!Now, p), p, image, b)
<1>1. Others(V!Now, t, p) /\ (t.halted \/ Whole(t.mm[p]))
  BY LoadOthers DEF SpacesInv
<1>2. V!Becomes(t)
  BY Zenon DEF V!Exec
<1> HIDE DEF t
<1>3. QED BY <1>1, <1>2, StepOfOne

\* And so does one that fails.
LEMMA SpacesExecFails ==
  ASSUME SpacesInv, NEW p \in Space, NEW image \in Image, V!ExecFails(p, image)
  PROVE  SpacesInv' /\ V!Abstract!Exec(p)
<1> DEFINE t == V!Drop(V!MapPages(V!Give(V!Drop(V!Now, p), p, V!PGDIR), p, image), p)
<1>1. Others(V!Now, t, p) /\ Whole(t.mm[p])
  BY LoadFailsOthers DEF SpacesInv
<1>2. V!Becomes(t)
  BY Zenon DEF V!ExecFails
<1> HIDE DEF t
<1>3. QED BY <1>1, <1>2, StepOfOne

\* An mm with a directory has pages.
LEMMA HasPages ==
  ASSUME SpacesInv, NEW p \in Space, V!Has(mm[p])
  PROVE  Whole(mm[p]) /\ V!PGDIR \in DOMAIN mm[p].at /\ V!PagesOf(mm[p]) # {}
         /\ DOMAIN ValOf(mm, byte)[p] = V!PagesOf(mm[p])
BY DEF SpacesInv, V!Has, Whole, ValOf, BytesOf

\* do_exit leaves nothing.
LEMMA SpacesExit ==
  ASSUME SpacesInv, ~halted, NEW p \in Space, V!Exit(p)
  PROVE  SpacesInv' /\ V!Abstract!Exec(p) /\ V!Abstract!Exit(p)
<1> DEFINE t == V!Drop(V!Now, p)
<1>1. V!Now \in Store /\ V!Has(mm[p]) /\ V!Becomes(t)
  BY Zenon DEF SpacesInv, V!Exit
<1>2. Others(V!Now, t, p) /\ t.mm[p] = V!NoMm /\ DOMAIN V!NoMm.at = {} /\ t.halted = V!Now.halted
  BY <1>1, DropOthers
<1> HIDE DEF t
<1>3. Whole(t.mm[p])
  BY <1>2 DEF Whole
<1>4. /\ SpacesInv' /\ V!Abstract!Exec(p)
      /\ ~t.halted => ValOf(mm', byte') = [ValOf(mm, byte) EXCEPT ![p] = BytesOf(t.mm[p], t.byte)]
  BY <1>1, <1>2, <1>3, StepOfOne
<1>5. V!PagesOf(t.mm[p]) = {}
  BY <1>2 DEF V!PagesOf
<1>6. BytesOf(t.mm[p], t.byte) = V!Abstract!Nothing
  BY <1>5 DEF BytesOf, V!Abstract!Nothing
<1>7. DOMAIN ValOf(mm, byte)[p] # {}
  BY <1>1, HasPages
<1>8. ~t.halted
  BY <1>2, NowIs
<1>9. [q \in Space |-> [v \in V!PagesOf(mm[q]) |-> byte[mm[q].at[<<"page", v>>]]]]' = ValOf(mm', byte')
  BY Zenon DEF ValOf, BytesOf
<1>10. ValOf(mm', byte') = [ValOf(mm, byte) EXCEPT ![p] = V!Abstract!Nothing]
  BY <1>4, <1>6, <1>8
<1>11. QED BY <1>4, <1>7, <1>9, <1>10, SpacesMap DEF V!Abstract!Exit, V!Abstract!Has

\* do_fork gives the child what the parent has.
LEMMA SpacesFork ==
  ASSUME SpacesInv, NEW p \in Space, NEW q \in Space, V!Fork(p, q)
  PROVE  SpacesInv' /\ V!Abstract!Exec(q) /\ (halted' \/ V!Abstract!Fork(p, q))
<1> DEFINE s == V!Now
           t == [CopyAll(V!Give(s, q, V!PGDIR), p, q, V!PagesOf(s.mm[p])) EXCEPT !.mm[q].vma = s.mm[p].vma]
<1>1. s \in Store /\ V!Has(mm[p]) /\ ~V!Has(mm[q]) /\ s.mm = mm /\ s.byte = byte
  BY NowIs DEF SpacesInv, V!Fork
<1>2. V!Becomes(t)
  <2>1. V!Becomes([CopyAll(V!Give(s, q, V!PGDIR), p, q, V!PagesOf(mm[p])) EXCEPT !.mm[q].vma = mm[p].vma])
    BY Zenon DEF V!Fork, CopyAll
  <2> HIDE DEF s
  <2>2. QED BY <1>1, <2>1
<1>3. p # q /\ DOMAIN s.mm[q].at = {} /\ Whole(s.mm[p]) /\ V!PGDIR \in DOMAIN s.mm[p].at
  BY <1>1 DEF SpacesInv, V!Has, Whole
<1> HIDE DEF s
<1>4. /\ Others(s, t, q)
      /\ t.halted \/ (Whole(t.mm[q]) /\ BytesOf(t.mm[q], t.byte) = BytesOf(s.mm[p], s.byte))
  BY <1>1, <1>3, ForkCopies
<1> HIDE DEF t
<1>5. /\ SpacesInv' /\ V!Abstract!Exec(q) /\ halted' = t.halted
      /\ ~t.halted => ValOf(mm', byte') = [ValOf(mm, byte) EXCEPT ![q] = BytesOf(t.mm[q], t.byte)]
  <2>1. Others(V!Now, t, q) /\ (t.halted \/ Whole(t.mm[q]))
    BY <1>4 DEF s
  <2>2. QED BY <1>2, <2>1, StepOfOne
<1>6. ASSUME ~t.halted PROVE V!Abstract!Fork(p, q)
  <2>1. BytesOf(t.mm[q], t.byte) = ValOf(mm, byte)[p]
    BY <1>1, <1>4, <1>6 DEF ValOf
  <2>2. DOMAIN ValOf(mm, byte)[p] # {}
    BY <1>1, HasPages
  <2>3. DOMAIN ValOf(mm, byte)[q] = {}
    <3>1. V!PagesOf(mm[q]) = {}
      BY <1>1, <1>3 DEF V!PagesOf
    <3>2. QED BY <3>1 DEF ValOf, BytesOf
  <2>4. [r \in Space |-> [v \in V!PagesOf(mm[r]) |-> byte[mm[r].at[<<"page", v>>]]]]' = ValOf(mm', byte')
    BY Zenon DEF ValOf, BytesOf
  <2>5. ValOf(mm', byte') = [ValOf(mm, byte) EXCEPT ![q] = ValOf(mm, byte)[p]]
    BY <1>5, <1>6, <2>1
  <2>6. QED BY <2>2, <2>3, <2>4, <2>5, SpacesMap DEF V!Abstract!Fork, V!Abstract!Has
<1>7. QED BY <1>5, <1>6

\* A store writes its byte.
LEMMA SpacesWrite ==
  ASSUME SpacesInv, NEW p \in Space, NEW v \in V!VPage, NEW b \in Byte, V!Write(p, v, b)
  PROVE  SpacesInv' /\ V!Abstract!Exec(p) /\ (halted' \/ V!Abstract!Write(p, v, b))
<1> DEFINE s == V!Now
           t == V!Put(V!MapPage(s, p, v), p, v, b)
           g == ValOf(mm, byte)[p]
           h == [w \in DOMAIN g \cup {v} |-> IF w = v THEN b ELSE g[w]]
<1>1. s \in Store /\ V!Has(mm[p]) /\ V!Becomes(t)
  BY Zenon DEF SpacesInv, V!Write
<1>2. s.mm = mm /\ s.byte = byte /\ Whole(s.mm[p]) /\ V!PGDIR \in DOMAIN s.mm[p].at
  BY <1>1, NowIs DEF SpacesInv, V!Has
<1> HIDE DEF s
<1>3. /\ Others(s, t, p)
      /\ t.halted \/ (Whole(t.mm[p]) /\ BytesOf(t.mm[p], t.byte) =
              [w \in DOMAIN BytesOf(s.mm[p], s.byte) \cup {v} |->
                 IF w = v THEN b ELSE BytesOf(s.mm[p], s.byte)[w]])
  BY <1>1, <1>2, WriteWrites
<1> HIDE DEF t
<1>4. BytesOf(s.mm[p], s.byte) = g
  BY <1>2 DEF ValOf
<1>5. t.halted \/ BytesOf(t.mm[p], t.byte) = h
  <2> HIDE DEF g
  <2>1. QED BY <1>3, <1>4
<1> HIDE DEF h
<1>6. /\ SpacesInv' /\ V!Abstract!Exec(p) /\ halted' = t.halted
      /\ ~t.halted => ValOf(mm', byte') = [ValOf(mm, byte) EXCEPT ![p] = BytesOf(t.mm[p], t.byte)]
  <2>1. Others(V!Now, t, p) /\ (t.halted \/ Whole(t.mm[p]))
    BY <1>3 DEF s
  <2>2. QED BY <1>1, <2>1, StepOfOne
<1>7. ASSUME ~t.halted PROVE V!Abstract!Write(p, v, b)
  <2>1. DOMAIN g # {}
    BY <1>1, HasPages
  <2>2. [r \in Space |-> [w \in V!PagesOf(mm[r]) |-> byte[mm[r].at[<<"page", w>>]]]]' = ValOf(mm', byte')
    BY Zenon DEF ValOf, BytesOf
  <2>3. ValOf(mm', byte') = [ValOf(mm, byte) EXCEPT ![p] = h]
    BY <1>5, <1>6, <1>7
  <2>4. QED BY <2>1, <2>2, <2>3, SpacesMap DEF V!Abstract!Write, V!Abstract!Has, h, g
<1>8. QED BY <1>6, <1>7

\* A wild access halts the kernel.
LEMMA SpacesWild ==
  ASSUME SpacesInv, NEW p \in Space, V!WildAccess(p)
  PROVE  SpacesInv' /\ V!Abstract!Exec(p) /\ halted'
<1> DEFINE t == [V!Now EXCEPT !.halted = TRUE]
<1>1. V!Now \in Store /\ halted' = TRUE /\ mm' = mm /\ free' = free /\ byte' = byte
  BY Zenon DEF SpacesInv, V!WildAccess
<1>2. t.halted = TRUE /\ t.mm = mm /\ t.free = free /\ t.byte = byte
  BY DEF V!Now
<1>3. t \in Store
  <2>1. V!Now \in Records /\ OnePlace(V!Now)
    BY <1>1 DEF Store
  <2>2. t \in Records
    BY <2>1 DEF Records
  <2>3. OnePlace(t)
    BY <2>1, <1>2, NowIs DEF OnePlace
  <2>4. QED BY <2>2, <2>3 DEF Store
<1>4. V!Becomes(t)
  BY <1>1, <1>2 DEF V!Becomes
<1>5. Others(V!Now, t, p)
  BY <1>1, <1>2, <1>3, NowIs DEF Others
<1> HIDE DEF t
<1>6. SpacesInv' /\ V!Abstract!Exec(p)
  BY <1>2, <1>4, <1>5, StepOfOne
<1>7. QED BY <1>1, <1>6

\* No process has a memory at first.
LEMMA SpacesInit == PartsInit => SpacesInv /\ V!Abstract!Init
<1> SUFFICES ASSUME V!Init PROVE SpacesInv /\ V!Abstract!Init
  BY DEF PartsInit
<1>1. /\ mm = [p \in Space |-> V!NoMm] /\ free = V!Frame /\ byte = [f \in V!Frame |-> 0]
      /\ halted = FALSE /\ 0 \in Byte
  BY SpacesConstants DEF V!Init
<1>2. V!NoMm \in Memory /\ V!NoMm.at = [e \in {} |-> 0] /\ DOMAIN V!NoMm.at = {}
  <2>1. [e \in {} |-> 0] \in [{} -> V!Frame] /\ {} \in SUBSET Entry
    OBVIOUS
  <2>2. [e \in {} |-> 0] \in Tables
    BY <2>1 DEF Tables
  <2>3. QED BY <2>2 DEF V!NoMm, Memory
<1>3. \A p \in Space : mm[p] = V!NoMm
  BY <1>1
<1>4. V!Now \in Store
  <2>1. V!Now \in Records
    BY <1>1, <1>2 DEF V!Now, Records
  <2>2. OnePlace(V!Now)
    BY <1>2, <1>3, NowIs DEF OnePlace
  <2>3. QED BY <2>1, <2>2 DEF Store
<1>5. \A p \in Space : Whole(mm[p])
  BY <1>2, <1>3 DEF Whole
<1>6. V!PagesOf(V!NoMm) = {}
  BY <1>2 DEF V!PagesOf
<1>7. [p \in Space |-> [v \in V!PagesOf(mm[p]) |-> byte[mm[p].at[<<"page", v>>]]]]
        = [p \in Space |-> V!Abstract!Nothing]
  BY <1>3, <1>6 DEF V!Abstract!Nothing
<1>8. QED BY <1>4, <1>5, <1>7 DEF SpacesInv, V!Abstract!Init

\* What the calls of one process do is seen by Spaces.
LEMMA SpacesCalls ==
  ASSUME SpacesInv, V!Next
  PROVE  SpacesInv' /\ \E p \in Space : V!Abstract!Exec(p)
<1>0. ~halted
  BY DEF V!Next
<1>1. PICK p \in Space :
        \/ \E image \in Image, b \in Byte : V!Exec(p, image, b)
        \/ \E image \in Image : V!ExecFails(p, image)
        \/ V!Exit(p) \/ V!WildAccess(p)
        \/ \E q \in Space : V!Fork(p, q)
        \/ \E v \in V!VPage, b \in Byte : V!Write(p, v, b)
  BY DEF V!Next
<1>2. ASSUME NEW image \in Image, NEW b \in Byte, V!Exec(p, image, b)
      PROVE  SpacesInv' /\ \E r \in Space : V!Abstract!Exec(r)
  BY <1>2, SpacesExec
<1>3. ASSUME NEW image \in Image, V!ExecFails(p, image)
      PROVE  SpacesInv' /\ \E r \in Space : V!Abstract!Exec(r)
  BY <1>3, SpacesExecFails
<1>4. V!Exit(p) => SpacesInv' /\ \E r \in Space : V!Abstract!Exec(r)
  BY <1>0, SpacesExit
<1>5. V!WildAccess(p) => SpacesInv' /\ \E r \in Space : V!Abstract!Exec(r)
  BY SpacesWild
<1>6. ASSUME NEW q \in Space, V!Fork(p, q)
      PROVE  SpacesInv' /\ \E r \in Space : V!Abstract!Exec(r)
  BY <1>6, SpacesFork
<1>7. ASSUME NEW v \in V!VPage, NEW b \in Byte, V!Write(p, v, b)
      PROVE  SpacesInv' /\ \E r \in Space : V!Abstract!Exec(r)
  BY <1>7, SpacesWrite
<1>8. QED BY <1>1, <1>2, <1>3, <1>4, <1>5, <1>6, <1>7

\* Every call keeps the invariant, and is what Spaces says of it.
LEMMA SpacesStep == SpacesInv /\ V!Next => SpacesInv' /\ V!Agrees
<1> SUFFICES ASSUME SpacesInv, V!Next PROVE SpacesInv' /\ V!Agrees
  OBVIOUS
<1>0. ~halted
  BY DEF V!Next
<1>1. SpacesInv' /\ V!Abstract!Next
  BY SpacesCalls DEF V!Abstract!Next
<1>2. ASSUME NEW p \in Space, NEW q \in Space, V!Fork(p, q)
      PROVE  halted' \/ V!Abstract!Fork(p, q)
  BY <1>2, SpacesFork
<1>3. ASSUME NEW p \in Space, NEW v \in V!VPage, NEW b \in Byte, V!Write(p, v, b)
      PROVE  halted' \/ V!Abstract!Write(p, v, b)
  BY <1>3, SpacesWrite
<1>4. ASSUME NEW p \in Space, V!Exit(p) PROVE V!Abstract!Exit(p)
  BY <1>0, <1>4, SpacesExit
<1>5. QED BY <1>1, <1>2, <1>3, <1>4 DEF V!Agrees

\* The invariant holds of the sum of the parts.
LEMMA SpacesInvHolds == PartsSpec => []SpacesInv
<1>1. SpacesInv /\ [PartsNext]_partsVars => SpacesInv'
  <2>1. SpacesInv /\ V!Next => SpacesInv'
    BY SpacesStep
  <2>2. SpacesInv /\ UNCHANGED spaces => SpacesInv'
    BY DEF spaces, SpacesInv, V!Now
  <2>3. [PartsNext]_partsVars => V!Next \/ UNCHANGED spaces
    BY DEF PartsNext, partsVars, Numbers
  <2>4. QED BY <2>1, <2>2, <2>3
<1>2. QED BY <1>1, SpacesInit, PTL DEF PartsSpec

\* A frame has at most one place, one entry of one process's tables or the free list: no
\* call of the page tables of pmm.c and vmm.c gives a frame that somebody has.  That
\* every frame has a place is not stated; those of lost tables have none.
THEOREM SpacesCorrect == PartsSpec => []FramesOnce
<1>1. SpacesInv => FramesOnce
  <2> SUFFICES ASSUME SpacesInv PROVE V!FramesOnce
    BY DEF FramesOnce
  <2>1. OnePlace(V!Now)
    BY DEF SpacesInv, Store
  <2>2. QED BY <2>1, NowIs DEF OnePlace, V!FramesOnce, V!FramesOf
<1>2. QED BY <1>1, SpacesInvHolds, PTL

\* The page tables implement Spaces: exec, fork, exit and a store change the memory of
\* one process, and fork copies, a store writes its byte, exit leaves nothing.
THEOREM SpacesRefine == PartsSpec => SpacesImplement
<1>1. SpacesInv /\ [PartsNext]_partsVars => [part = "spaces" => V!Agrees]_spaces
  BY SpacesStep DEF PartsNext, partsVars, Numbers, spaces
<1>2. QED BY <1>1, SpacesInvHolds, SpacesInit, PTL DEF PartsSpec, SpacesImplement
==============================================================================
