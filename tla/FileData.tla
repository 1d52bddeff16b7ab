------------------------------ MODULE FileData ------------------------------
(* Files as their users see them: bytes, and handles with positions of their  *)
(* own.  A write may stop short, and a seek behind the end may fail, when the  *)
(* disk is full; nothing else changes what a file holds.                       *)
EXTENDS Integers

CONSTANTS File, Handle, Byte, Zero, MaxFile, MaxIO, CLOSED

VARIABLES
  content,  \* of every file: a function from the offsets below its size
  handle    \* CLOSED, or the file and the position

vars == <<content, handle>>

Size(f) == IF content[f] = <<>> THEN 0 ELSE CHOOSE n \in 1..MaxFile : DOMAIN content[f] = 0..n-1
Pos == 0..MaxFile

\* the content c with n bytes x at o, and zeros in the gap in front of them
Put(c, size, o, n, x) ==
  [k \in 0..(IF o + n > size THEN o + n ELSE size) - 1 |->
     IF o <= k /\ k < o + n THEN x ELSE IF k < size THEN c[k] ELSE Zero]

Init == content = [f \in File |-> <<>>] /\ handle = [h \in Handle |-> CLOSED]

Open(h, f) ==
  /\ handle[h] = CLOSED
  /\ \E p \in {0, Size(f)} : handle' = [handle EXCEPT ![h] = [file |-> f, pos |-> p]]
  /\ UNCHANGED content

Truncate(h, f) ==
  /\ handle[h] = CLOSED
  /\ handle' = [handle EXCEPT ![h] = [file |-> f, pos |-> 0]]
  /\ content' = [content EXCEPT ![f] = <<>>]

Close(h) == handle' = [handle EXCEPT ![h] = CLOSED] /\ UNCHANGED content

Write(h, n, x) ==
  /\ handle[h] # CLOSED
  /\ LET f == handle[h].file
         o == handle[h].pos
     IN /\ handle' = [handle EXCEPT ![h].pos = o + n]
        /\ content' = [content EXCEPT ![f] = IF n = 0 THEN @ ELSE Put(@, Size(f), o, n, x)]

Seek(h, p) ==
  /\ handle[h] # CLOSED
  /\ handle' = [handle EXCEPT ![h].pos = p]
  /\ LET f == handle[h].file
     IN content' = [content EXCEPT ![f] = IF p <= Size(f) THEN @ ELSE Put(@, Size(f), p, 0, Zero)]

Next == \E h \in Handle :
  \/ \E f \in File : Open(h, f) \/ Truncate(h, f)
  \/ Close(h)
  \/ \E n \in 0..MaxIO, x \in Byte : Write(h, n, x)
  \/ \E p \in Pos : Seek(h, p)

Spec == Init /\ [][Next]_vars
=============================================================================
