--------------------------------- MODULE Vfs ---------------------------------
(* Descriptors, working directories and the inode cache: kern/fs/file.c,      *)
(* fs.c, vfs/ and the inode operations of sfs/sfs_inode.c that they reach,    *)
(* with what do_fork, do_execve and do_exit do with them (process/proc.c).    *)
(* No call blocks while it holds a lock of the file system and the kernel is   *)
(* not preempted, so a call is one action.  The content of a node stands for  *)
(* what its disk inode says: that, not the data, is what the cache keeps.     *)
(* A name is the node it leads to: a search takes a reference to the directory *)
(* it starts in and drops it.  Devices, which are never closed, and positions  *)
(* (Sfs.tla) are left out.  Three calls have no step because they end in a      *)
(* failed assertion, for want of an operation of directories: O_CREAT of a     *)
(* name that does not exist (vop_create), O_CREAT of a directory               *)
(* (vop_truncate) and execve of one (vop_tryseek).                             *)
EXTENDS Integers, FiniteSets

CONSTANTS
  Proc, First,     \* user processes; First is the one that init starts
  Fd,              \* descriptors, numbered from 0
  Dir, Root, File,
  Value, Empty,    \* the contents of a file; a truncated one is Empty
  NONE,
  MaxLeak          \* bounds the opens with O_EXCL that find a node, one of them

VfsAssumption ==
  /\ First \in Proc /\ Root \in Dir /\ Empty \in Value
  /\ Dir \cap File = {}
  /\ NONE \notin Dir \cup File \cup [node : Dir \cup File, writable : BOOLEAN]
  /\ IsFiniteSet(Proc) /\ IsFiniteSet(Fd) /\ Fd \subseteq Nat /\ \E fd \in Fd : fd >= 2
  /\ MaxLeak \in Nat

ASSUME VfsAssumption

Node == Dir \cup File
Desc == [node : Node, writable : BOOLEAN]

VARIABLES
  state,   \* of every process: "unborn", "alive" or "gone"
  file,    \* the fd_array of its files_struct
  pwd,
  inode,   \* of every node: reference and open count, the inode in memory
           \* and on the disk, and whether they may differ
  leaked   \* references that no variable of the kernel holds any more

vars == <<state, file, pwd, inode, leaked>>

Runs(p) == state[p] = "alive"

------------------------------------------------------------------------------
(* The inode cache. *)

\* sfs_load_inode: the inode in memory if there is one, otherwise the disk's
Got(i) ==
  IF i.ref = 0 THEN [i EXCEPT !.ref = 1, !.mem = i.disk, !.dirty = FALSE]
  ELSE [i EXCEPT !.ref = @ + 1]

\* mutant: marks the inode clean and does not write it
SyncedNot(i) == [i EXCEPT !.dirty = FALSE]

\* sfs_fsync
Synced(i) == IF i.dirty THEN [i EXCEPT !.dirty = FALSE, !.disk = i.mem] ELSE i

\* mutant: the last close leaves the inode dirty
OpenDecLazy(i, k) == [i EXCEPT !.opens = @ - k]

\* inode_open_dec, k times; the last one closes the file
OpenDec(i, k) ==
  IF k > 0 /\ i.opens = k THEN Synced([i EXCEPT !.opens = 0])
  ELSE [i EXCEPT !.opens = @ - k]

\* inode_ref_dec, k times; the last one reclaims the inode
RefDec(i, k) ==
  IF k > 0 /\ i.ref = k THEN [Synced(i) EXCEPT !.ref = 0] ELSE [i EXCEPT !.ref = @ - k]

\* vfs_close, k times
Closed(i, k) == RefDec(OpenDec(i, k), k)

\* sfs_truncfile and sfs_io, as far as the disk inode goes.  A file is what it says and
\* not its blocks: that blocks++ of sfs_bmap_load_nolock does not mark the inode dirty
\* when an enlargement fails half-way (sfs_inode.c:364) is in Sfs, not here.
Changed(i, v) == IF i.mem = v THEN i ELSE [i EXCEPT !.mem = v, !.dirty = TRUE]

------------------------------------------------------------------------------
(* The descriptor table. *)

Free(p) == {fd \in Fd : file[p][fd] = NONE}
Lowest(S) == CHOOSE fd \in S : \A x \in S : fd <= x  \* fd_array_alloc(NO_FD)

\* how many descriptors in S of p lead to n
Uses(p, S, n) == Cardinality({fd \in S : file[p][fd] # NONE /\ file[p][fd].node = n})

ClosesAll(p, S) == inode' = [n \in Node |-> Closed(inode[n], Uses(p, S, n))]

\* mutant: a descriptor is copied without counting it as an open
AnotherUncounted(i, k) == [i EXCEPT !.ref = @ + k]

\* fd_array_dup, k times
Another(i, k) == [i EXCEPT !.ref = @ + k, !.opens = @ + k]

\* vfs_open of a node that exists, once its flags are accepted
Opened(i, empties) ==
  LET o == [Got(i) EXCEPT !.opens = @ + 1] IN IF empties THEN Changed(o, Empty) ELSE o

\* file_open.  O_TRUNC, which asks for write access, and O_CREAT, which does not,
\* both empty a file that exists; a directory is only opened for reading.
Open(p, n, writable, empties) ==
  /\ Runs(p) /\ Free(p) # {}
  /\ n \in Dir => ~writable /\ ~empties
  /\ inode' = [inode EXCEPT ![n] = Opened(@, empties)]
  /\ file' = [file EXCEPT ![p][Lowest(Free(p))] = [node |-> n, writable |-> writable]]
  /\ UNCHANGED <<state, pwd, leaked>>

\* O_CREAT | O_EXCL of a node that exists: the reference of the search stays
OpenExists(p, n) ==
  /\ Runs(p) /\ Free(p) # {}
  /\ leaked[n] < MaxLeak /\ \A m \in Node \ {n} : leaked[m] = 0
  /\ inode' = [inode EXCEPT ![n] = Got(@)]
  /\ leaked' = [leaked EXCEPT ![n] = @ + 1]
  /\ UNCHANGED <<state, file, pwd>>

\* A directory opened for writing is let go again (vop_ref_dec).  The other
\* failures, of the flags or for want of a descriptor, come before the search.
OpenFails(p, n) ==
  /\ Runs(p) /\ Free(p) # {} /\ n \in Dir
  /\ inode' = [inode EXCEPT ![n] = RefDec(Got(@), 1)]
  /\ UNCHANGED <<state, file, pwd, leaked>>

Close(p, fd) ==
  /\ Runs(p) /\ file[p][fd] # NONE
  /\ ClosesAll(p, {fd})
  /\ file' = [file EXCEPT ![p][fd] = NONE]
  /\ UNCHANGED <<state, pwd, leaked>>

\* file_dup: onto a descriptor in use it fails with E_BUSY
Dup(p, from, to) ==
  /\ Runs(p) /\ file[p][from] # NONE /\ file[p][to] = NONE
  /\ file' = [file EXCEPT ![p][to] = file[p][from]]
  /\ inode' = [inode EXCEPT ![file[p][from].node] = Another(@, 1)]
  /\ UNCHANGED <<state, pwd, leaked>>

\* file_write
Write(p, fd, v) ==
  /\ Runs(p) /\ file[p][fd] # NONE
  /\ file[p][fd].writable /\ file[p][fd].node \in File
  /\ inode' = [inode EXCEPT ![file[p][fd].node] = Changed(@, v)]
  /\ UNCHANGED <<state, file, pwd, leaked>>

\* file_seek beyond the end of the file truncates it to the new length
\* (sfs_tryseek), whatever the file was opened for
Seek(p, fd, v) ==
  /\ Runs(p) /\ file[p][fd] # NONE
  /\ file[p][fd].node \in File /\ v # Empty
  /\ inode' = [inode EXCEPT ![file[p][fd].node] = Changed(@, v)]
  /\ UNCHANGED <<state, file, pwd, leaked>>

\* file_fsync
Fsync(p, fd) ==
  /\ Runs(p) /\ file[p][fd] # NONE
  /\ inode' = [inode EXCEPT ![file[p][fd].node] = Synced(@)]
  /\ UNCHANGED <<state, file, pwd, leaked>>

\* what vfs_chdir does to the old and to the new directory
Moved(i, n, old, new) ==
  IF n = new THEN Got(i) ELSE IF n = old THEN RefDec(i, 1) ELSE i

\* vfs_chdir; a node that is no directory, or already is the current one, changes
\* nothing
Chdir(p, d) ==
  /\ Runs(p) /\ pwd[p] # d
  /\ pwd' = [pwd EXCEPT ![p] = d]
  /\ inode' = [n \in Node |-> Moved(inode[n], n, pwd[p], d)]
  /\ UNCHANGED <<state, file, leaked>>

------------------------------------------------------------------------------
(* Processes. *)

\* copy_files.  When do_fork fails later, put_files takes back all of it.
Fork(p, c) ==
  /\ Runs(p) /\ state[c] = "unborn"
  /\ state' = [state EXCEPT ![c] = "alive"]
  /\ file' = [file EXCEPT ![c] = file[p]]
  /\ pwd' = [pwd EXCEPT ![c] = pwd[p]]
  /\ inode' = [n \in Node |->
                 LET i == Another(inode[n], Uses(p, Fd, n))
                 IN IF n = pwd[p] THEN [i EXCEPT !.ref = @ + 1] ELSE i]
  /\ UNCHANGED leaked

Above == {fd \in Fd : fd >= 2}  \* files_closeall keeps standard input and output

\* do_execve: the program is opened, read and closed again
Exec(p) ==
  /\ Runs(p)
  /\ file' = [file EXCEPT ![p] = [fd \in Fd |-> IF fd \in Above THEN NONE ELSE @[fd]]]
  /\ ClosesAll(p, Above)
  /\ UNCHANGED <<state, pwd, leaked>>

\* The program cannot be loaded: load_icode returns without closing it, and the
\* process exits.
ExecFails(p, n) ==
  /\ Runs(p)
  /\ LET kept == [fd \in Fd |-> IF fd \in Above THEN NONE ELSE file[p][fd]]
         fd == Lowest({x \in Fd : kept[x] = NONE})
     IN file' = [file EXCEPT ![p] = [kept EXCEPT ![fd] = [node |-> n, writable |-> FALSE]]]
  /\ inode' = [m \in Node |-> LET i == Closed(inode[m], Uses(p, Above, m))
                              IN IF m = n THEN [Got(i) EXCEPT !.opens = @ + 1] ELSE i]
  /\ state' = [state EXCEPT ![p] = "gone"]
  /\ UNCHANGED <<pwd, leaked>>

\* do_exit does not touch the files_struct, and nothing does afterwards
Exit(p) ==
  /\ Runs(p)
  /\ state' = [state EXCEPT ![p] = "gone"]
  /\ UNCHANGED <<file, pwd, inode, leaked>>

------------------------------------------------------------------------------
\* init has made the root of the disk its directory and the boot file system; its
\* first child has taken over the directory
Kept(n) == IF n = Root THEN 2 ELSE 0
Init ==
  /\ state = [p \in Proc |-> IF p = First THEN "alive" ELSE "unborn"]
  /\ file = [p \in Proc |-> [fd \in Fd |-> NONE]]
  /\ pwd = [p \in Proc |-> IF p = First THEN Root ELSE NONE]
  /\ inode = [n \in Node |-> [ref |-> IF n = Root THEN 3 ELSE 0, opens |-> 0,
                              mem |-> Empty, disk |-> Empty, dirty |-> FALSE]]
  /\ leaked = [n \in Node |-> 0]

Next == \E p \in Proc :
  \/ \E n \in Node : \/ \E writable, empties \in BOOLEAN : Open(p, n, writable, empties)
                     \/ OpenExists(p, n) \/ OpenFails(p, n)
  \/ \E fd \in Fd : \/ Close(p, fd)
                    \/ \E to \in Fd : Dup(p, fd, to)
                    \/ \E v \in Value : Write(p, fd, v) \/ Seek(p, fd, v)
                    \/ Fsync(p, fd)
  \/ \E d \in Dir : Chdir(p, d)
  \/ \E c \in Proc : Fork(p, c)
  \/ Exec(p) \/ (\E n \in File : ExecFails(p, n)) \/ Exit(p)

Spec == Init /\ [][Next]_vars

------------------------------------------------------------------------------
\* Every reference is accounted for: those of the descriptors and directories of
\* all processes, the living and the gone, of init and the boot file system, and those that
\* were lost; an inode is as often open as there are descriptors for it.
Descriptors(n) ==
  Cardinality({x \in Proc \X Fd : file[x[1]][x[2]] # NONE /\ file[x[1]][x[2]].node = n})
CountsExact ==
  \A n \in Node :
    /\ inode[n].opens = Descriptors(n)
    /\ inode[n].ref = Descriptors(n) + Cardinality({p \in Proc : pwd[p] = n})
                      + Kept(n) + leaked[n]

\* What is on the disk is behind what is in memory only while the file is open:
\* the last vfs_close writes it back, however many processes shared the file, and
\* a reclaimed inode is never ahead of the disk.
ClosedIsClean ==
  \A n \in Node : inode[n].opens = 0 \/ inode[n].ref = 0 =>
                    ~inode[n].dirty /\ (inode[n].ref > 0 => inode[n].mem = inode[n].disk)

\* Whatever is cached, reclaimed and loaded again, the processes see files whose
\* content only a write, a seek or an open that truncates changes.
Content(n) == IF inode[n].ref > 0 THEN inode[n].mem ELSE inode[n].disk
Abstract == INSTANCE OpenFiles WITH content <- [n \in Node |-> Content(n)]
Implements == Abstract!Spec

\* "O_RDONLY 0 // open for reading only" (libs/unistd.h:42): a file changes only
\* in steps before or after which somebody has it open for writing.
OpenToWrite(n) ==
  \E p \in Proc, fd \in Fd : file[p][fd] # NONE /\ file[p][fd] = [node |-> n, writable |-> TRUE]
ReadersKeep ==
  [][\A n \in File : OpenToWrite(n) \/ OpenToWrite(n)' \/ Content(n)' = Content(n)]_vars
=============================================================================
