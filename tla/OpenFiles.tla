------------------------------ MODULE OpenFiles ------------------------------
(* What the calls on files promise the processes: a table of descriptors per  *)
(* process, a working directory, and files whose content changes only when    *)
(* somebody who has them open changes them.  Nothing is counted or cached here.     *)
EXTENDS Naturals

CONSTANTS Proc, First, Fd, Dir, Root, File, Value, Empty, NONE

Node == Dir \cup File
Desc == [node : Node, writable : BOOLEAN]

VARIABLES
  state,    \* "unborn", "alive" or "gone"
  file,     \* the descriptors of every process
  pwd,      \* its working directory
  content   \* of every node

vars == <<state, file, pwd, content>>

Init ==
  /\ state = [p \in Proc |-> IF p = First THEN "alive" ELSE "unborn"]
  /\ file = [p \in Proc |-> [fd \in Fd |-> NONE]]
  /\ pwd = [p \in Proc |-> IF p = First THEN Root ELSE NONE]
  /\ content \in [Node -> {Empty}]

Alive(p) == state[p] = "alive"
Described(p) == {file[p][fd] : fd \in Fd} \ {NONE}

Open(p, fd, d) ==
  /\ Alive(p) /\ file[p][fd] = NONE
  /\ file' = [file EXCEPT ![p][fd] = d]
  /\ \/ UNCHANGED content
     \/ d.node \in File /\ content' = [content EXCEPT ![d.node] = Empty]
  /\ UNCHANGED <<state, pwd>>

Close(p, S) ==
  /\ Alive(p)
  /\ file' = [file EXCEPT ![p] = [fd \in Fd |-> IF fd \in S THEN NONE ELSE file[p][fd]]]
  /\ UNCHANGED <<state, pwd, content>>

Dup(p, from, to) ==
  /\ Alive(p) /\ file[p][from] # NONE /\ file[p][to] = NONE
  /\ file' = [file EXCEPT ![p][to] = file[p][from]]
  /\ UNCHANGED <<state, pwd, content>>

\* through any descriptor: a seek behind the end lengthens a file
Update(p, n, v) ==
  /\ Alive(p)
  /\ \E d \in Described(p) : d.node = n
  /\ content' = [content EXCEPT ![n] = v]
  /\ UNCHANGED <<state, file, pwd>>

Chdir(p, d) ==
  /\ Alive(p) /\ pwd' = [pwd EXCEPT ![p] = d] /\ UNCHANGED <<state, file, content>>

Fork(p, c) ==
  /\ Alive(p) /\ state[c] = "unborn"
  /\ state' = [state EXCEPT ![c] = "alive"]
  /\ file' = [file EXCEPT ![c] = file[p]]
  /\ pwd' = [pwd EXCEPT ![c] = pwd[p]]
  /\ UNCHANGED content

\* What a process leaves in its table when it is gone is of no interest to others.
Exit(p) ==
  /\ Alive(p) /\ state' = [state EXCEPT ![p] = "gone"]
  /\ file' \in [Proc -> [Fd -> Desc \cup {NONE}]]
  /\ \A q \in Proc \ {p} : file'[q] = file[q]
  /\ UNCHANGED <<pwd, content>>

Next == \E p \in Proc :
  \/ \E fd \in Fd, d \in Desc : Open(p, fd, d)
  \/ \E S \in SUBSET Fd : Close(p, S)
  \/ \E from, to \in Fd : Dup(p, from, to)
  \/ \E n \in File, v \in Value : Update(p, n, v)
  \/ \E d \in Dir : Chdir(p, d)
  \/ \E c \in Proc : Fork(p, c)
  \/ Exit(p)

Spec == Init /\ [][Next]_vars
=============================================================================
