-------------------------------- MODULE Stdin --------------------------------
(* The keyboard: kern/driver/console.c takes what was typed from the firmware,  *)
(* at every tick one character goes on to kern/fs/devs/dev_stdin.c, and          *)
(* processes that read stdin sleep until their buffer is full.  Everything that  *)
(* touches the two buffers runs with interrupts off.                             *)
EXTENDS Integers, Sequences, FiniteSets, SequencesExt

CONSTANTS
  Reader,
  CONSBUFSIZE, STDIN_BUFSIZE,
  MaxLen,                     \* bound of the length that is asked for
  MaxTyped                    \* bound of the characters typed

StdinAssumption == {CONSBUFSIZE, STDIN_BUFSIZE, MaxLen, MaxTyped} \subseteq Nat \ {0}

VARIABLES
  typed,         \* so many keys were pressed; the n-th character is n, 0 is none
  cons,          \* buf, rpos and wpos
  stdin_buffer, p_rpos, p_wpos,
  wait_queue,    \* the readers in it, first one first
  pc,            \* where each reader is
  wakeup_flags,  \* of its wait_t
  left,          \* what is missing of its len
  killed,        \* PF_EXITING
  overrun        \* a character was lost

vars == <<typed, cons, stdin_buffer, p_rpos, p_wpos, wait_queue, pc, wakeup_flags, left,
          killed, overrun>>

Least(a, b) == IF a <= b THEN a ELSE b

\* what the two buffers hold, in the order in which it will be read
Unread == [n \in 1..(p_wpos - p_rpos) |-> stdin_buffer[(p_rpos + n - 1) % STDIN_BUFSIZE]]
Pending == [n \in 1..((cons.wpos - cons.rpos) % CONSBUFSIZE) |->
              cons.buf[(cons.rpos + n - 1) % CONSBUFSIZE]]

\* cons_intr takes n characters, the next ones typed
Fill(n) ==
  [cons EXCEPT
     !.buf = [i \in DOMAIN @ |->
                LET put == {k \in 1..n : (cons.wpos + k - 1) % CONSBUFSIZE = i}
                IN IF put = {} THEN @[i] ELSE typed + CHOOSE k \in put : \A h \in put : h <= k],
     !.wpos = (@ + n) % CONSBUFSIZE]

\* mutant: the last place of the ring is not used
GrabShort(c) == IF c.rpos = c.wpos THEN c ELSE [c EXCEPT !.rpos = (@ + 1) % (CONSBUFSIZE - 1)]

\* cons_getc takes the first character, if there is one
Grab(c) == IF c.rpos = c.wpos THEN c ELSE [c EXCEPT !.rpos = (@ + 1) % CONSBUFSIZE]

\* wakeup_queue
Wakes ==
  LET all == {wait_queue[i] : i \in DOMAIN wait_queue} IN
  /\ wait_queue' = <<>>
  /\ pc' = [r \in Reader |-> IF r \in all THEN "ready" ELSE pc[r]]
  /\ wakeup_flags' = [r \in Reader |-> IF r \in all THEN "WT_KBD" ELSE wakeup_flags[r]]

\* dev_stdin_write(cons_getc()) of a timer interrupt that finds n characters
Tick(n) ==
  /\ typed + n <= MaxTyped
  /\ typed' = typed + n
  /\ LET full == Fill(n)
         c == IF full.rpos = full.wpos THEN 0 ELSE full.buf[full.rpos]
         room == p_wpos - p_rpos < STDIN_BUFSIZE
     IN /\ cons' = Grab(full)
        /\ overrun' = (overrun \/ Len(Pending) + n >= CONSBUFSIZE \/ (c # 0 /\ ~room))
        /\ IF c = 0 THEN UNCHANGED <<stdin_buffer, p_wpos, wait_queue, pc, wakeup_flags>>
           ELSE /\ stdin_buffer' = [stdin_buffer EXCEPT ![p_wpos % STDIN_BUFSIZE] = c]
                /\ p_wpos' = IF room THEN p_wpos + 1 ELSE p_wpos
                /\ Wakes
  /\ UNCHANGED <<p_rpos, left, killed>>

\* the loop of dev_stdin_read for r, which wants len more, with the queue q
Takes(r, len, q) ==
  LET k == Least(len, p_wpos - p_rpos) IN
  /\ p_rpos' = p_rpos + k
  /\ left' = [left EXCEPT ![r] = len - k]
  /\ IF k = len
     THEN /\ pc' = [pc EXCEPT ![r] = "user"]
          /\ wait_queue' = q /\ UNCHANGED wakeup_flags
     ELSE /\ pc' = [pc EXCEPT ![r] = "asleep"]
          /\ wait_queue' = Append(q, r)
          /\ wakeup_flags' = [wakeup_flags EXCEPT ![r] = "WT_INTERRUPTED"]

\* read(stdin, len); a killed process exits when it is back in user mode
Reads(r, len) ==
  /\ pc[r] = "user" /\ r \notin killed
  /\ Takes(r, len, wait_queue)
  /\ UNCHANGED <<typed, cons, stdin_buffer, p_wpos, killed, overrun>>

\* mutant: leaves the queue without looking at the buffer again
GivesUp(r) ==
  /\ pc[r] = "ready"
  /\ LET q == RemoveFirst(wait_queue, r) IN
     IF wakeup_flags[r] = "WT_KBD" /\ p_wpos > p_rpos THEN Takes(r, left[r], q)
     ELSE /\ pc' = [pc EXCEPT ![r] = "asleep"] /\ wait_queue' = q
          /\ UNCHANGED <<p_rpos, left, wakeup_flags>>
  /\ UNCHANGED <<typed, cons, stdin_buffer, p_wpos, killed, overrun>>

\* after schedule(): wait_current_del, and goto try_again or break
Resumes(r) ==
  /\ pc[r] = "ready"
  /\ LET q == RemoveFirst(wait_queue, r) IN
     IF wakeup_flags[r] = "WT_KBD" THEN Takes(r, left[r], q)
     ELSE /\ pc' = [pc EXCEPT ![r] = "user"] /\ wait_queue' = q
          /\ UNCHANGED <<p_rpos, left, wakeup_flags>>
  /\ UNCHANGED <<typed, cons, stdin_buffer, p_wpos, killed, overrun>>

\* do_kill: WT_KBD can be interrupted; the wait_t stays in the queue
Kill(r) ==
  /\ r \notin killed /\ killed' = killed \cup {r}
  /\ pc' = [pc EXCEPT ![r] = IF @ = "asleep" THEN "ready" ELSE @]
  /\ UNCHANGED <<typed, cons, stdin_buffer, p_rpos, p_wpos, wait_queue, wakeup_flags, left,
                 overrun>>

Init ==
  /\ typed = 0
  /\ cons = [buf |-> [i \in 0..(CONSBUFSIZE - 1) |-> 0], rpos |-> 0, wpos |-> 0]
  /\ stdin_buffer = [i \in 0..(STDIN_BUFSIZE - 1) |-> 0] /\ p_rpos = 0 /\ p_wpos = 0
  /\ wait_queue = <<>>
  /\ pc = [r \in Reader |-> "user"]
  /\ wakeup_flags = [r \in Reader |-> "WT_INTERRUPTED"]
  /\ left = [r \in Reader |-> 0]
  /\ killed = {} /\ overrun = FALSE

Next ==
  \/ \E n \in 0..MaxTyped : Tick(n)
  \/ \E r \in Reader : Resumes(r) \/ Kill(r) \/ \E len \in 1..MaxLen : Reads(r, len)

Spec == Init /\ [][Next]_vars

\* ticks come, even when nothing is typed, and readers that are ready run
FairSpec == Spec /\ WF_vars(Tick(0)) /\ \A r \in Reader : WF_vars(Resumes(r))

------------------------------------------------------------------------------
\* Nothing is lost, doubled or exchanged: until a buffer overruns, what the readers
\* got and what the two buffers hold is what was typed, however the positions wrap.
KeptInOrder ==
  ~overrun => Unread \o Pending = [n \in 1..(typed - p_rpos) |-> p_rpos + n]

\* No reader sleeps beside characters: one that finds that others were faster and
\* goes to sleep again is back in the queue, for the next character.
SleeperHasNothing ==
  \A r \in Reader : pc[r] = "asleep" => p_rpos = p_wpos /\ Contains(wait_queue, r)
=============================================================================
