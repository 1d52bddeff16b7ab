--------------------------------- MODULE Pids ---------------------------------
(* The numbers of processes, get_pid of kern/process/proc.c, as do_fork calls   *)
(* it.  last_pid was given last, and no process has a number between it and     *)
(* next_safe, so most calls do not look at the list.  One step per process that *)
(* the search passes; forks and waits do not come in between, interrupts are    *)
(* off.                                                                          *)
EXTENDS Integers, Sequences, SequencesExt

CONSTANTS MAX_PID, MAX_PROCESS

\* static_assert(MAX_PID > MAX_PROCESS)
PidsAssumption == MAX_PROCESS \in Nat \ {0} /\ MAX_PID \in Nat /\ MAX_PID > MAX_PROCESS

VARIABLES
  last_pid, next_safe,
  proc_list,  \* the numbers of the processes, the youngest first
  le          \* where the search is, 0 when there is none

vars == <<last_pid, next_safe, proc_list, le>>

\* mutant: stays with the last number
WrapSticks(n) == IF n >= MAX_PID THEN MAX_PID - 1 ELSE n

\* at the end of the numbers the search begins again with 1
Wrap(n) == IF n >= MAX_PID THEN 1 ELSE n

\* set_links of the new process
Links(pid) == proc_list' = <<pid>> \o proc_list

\* nr_process counts the idle process too
MayFork == le = 0 /\ Len(proc_list) + 1 < MAX_PROCESS

\* mutant: the last number before next_safe is not told from the others
KnownFreeLate(n) == n < MAX_PID /\ n <= next_safe

\* the next number is known to be free
KnownFree(n) == n < MAX_PID /\ n < next_safe

Gives ==
  /\ MayFork /\ KnownFree(last_pid + 1)
  /\ last_pid' = last_pid + 1 /\ Links(last_pid + 1) /\ UNCHANGED <<next_safe, le>>

Searches ==
  /\ MayFork /\ ~KnownFree(last_pid + 1)
  /\ last_pid' = Wrap(last_pid + 1) /\ next_safe' = MAX_PID /\ le' = 1
  /\ UNCHANGED proc_list

Searching == le \in DOMAIN proc_list

\* the number is taken, and the next one may be free
Advances ==
  /\ Searching /\ proc_list[le] = last_pid /\ last_pid + 1 < next_safe
  /\ last_pid' = last_pid + 1 /\ le' = le + 1 /\ UNCHANGED <<next_safe, proc_list>>

\* goto repeat
Repeats ==
  /\ Searching /\ proc_list[le] = last_pid /\ last_pid + 1 >= next_safe
  /\ last_pid' = Wrap(last_pid + 1) /\ next_safe' = MAX_PID /\ le' = 1
  /\ UNCHANGED proc_list

Passes ==
  /\ Searching /\ proc_list[le] # last_pid
  /\ next_safe' = IF last_pid < proc_list[le] /\ proc_list[le] < next_safe
                  THEN proc_list[le] ELSE next_safe
  /\ le' = le + 1 /\ UNCHANGED <<last_pid, proc_list>>

Finds ==
  /\ le = Len(proc_list) + 1
  /\ Links(last_pid) /\ le' = 0 /\ UNCHANGED <<last_pid, next_safe>>

GetPid == Advances \/ Repeats \/ Passes \/ Finds

\* remove_links, when the parent has waited for a zombie
Reaps ==
  /\ le = 0 /\ \E i \in DOMAIN proc_list : proc_list' = RemoveAt(proc_list, i)
  /\ UNCHANGED <<last_pid, next_safe, le>>

Init == last_pid = MAX_PID /\ next_safe = MAX_PID /\ proc_list = <<>> /\ le = 0

Next == Gives \/ Searches \/ GetPid \/ Reaps

Spec == Init /\ [][Next]_vars

\* the search is a loop that runs on
FairSpec == Spec /\ WF_vars(GetPid)

------------------------------------------------------------------------------
\* No two processes have the same number, however often the numbers were gone
\* through and whoever has ended in the meantime ("alloc a unique pid").
Unique ==
  /\ \A i, j \in DOMAIN proc_list : proc_list[i] = proc_list[j] => i = j
  /\ \A i \in DOMAIN proc_list : proc_list[i] \in 1..(MAX_PID - 1)

\* A search that starts again when it comes to next_safe does end.
Ends == (le > 0) ~> (le = 0)
=============================================================================
