--------------------------------- MODULE Sfs ---------------------------------
(* The files of the simple file system, kern/fs/sfs/sfs_inode.c: the map from *)
(* the offsets of a file to disk blocks through direct entries and one         *)
(* indirect block, the free map, and the inode in memory and on the disk, with *)
(* the positions that fs/file.c keeps per descriptor.  Calls are atomic (see   *)
(* Vfs.tla).  Data is read and written in place; only inodes are cached.  The   *)
(* disk is in memory, so its operations do not fail; it can be full.            *)
(* A write or read of more than a block is cut up by sysfile_read and           *)
(* sysfile_write (IOBUF_SIZE = SFS_BLKSIZE), so n is at most a block here.      *)
EXTENDS Integers, FiniteSets, Sequences

CONSTANTS
  File, Handle,        \* descriptors, of all processes
  NBlocks,             \* data blocks of the disk
  NDirect, NEntries,   \* SFS_NDIRECT, SFS_BLK_NENTRY
  BlockSize,
  Byte, Zero,
  TruncatesShared,     \* may a file be truncated while somebody has it open?
  SeekTo,              \* the positions that are sought
  CLOSED

MaxFile == (NDirect + NEntries) * BlockSize  \* bounds the positions

SfsAssumption ==
  /\ {NBlocks, NDirect, NEntries, BlockSize} \subseteq Nat \ {0}
  /\ Zero \in Byte
  /\ TruncatesShared \in BOOLEAN
  /\ SeekTo \subseteq 0..MaxFile

ASSUME SfsAssumption

Block == 1..NBlocks
NoBlock == 0

VARIABLES
  fs,       \* free map, its count of unused blocks, the blocks, the inodes in
            \* memory with their dirty flags, and the inodes on the disk
  handle,   \* of every descriptor: CLOSED, or its file and position
  halted    \* an assertion has failed

vars == <<fs, handle, halted>>

NoInode == [size |-> 0, blocks |-> 0, direct |-> [i \in 0..NDirect-1 |-> NoBlock],
            indirect |-> NoBlock]
Cleared == [data |-> [i \in 0..BlockSize-1 |-> Zero],
            entry |-> [i \in 0..NEntries-1 |-> NoBlock]]

------------------------------------------------------------------------------
(* Blocks. *)

\* sfs_block_alloc: the lowest free block (bitmap_alloc), cleared
New(s) == CHOOSE b \in s.free : \A c \in s.free : b <= c
Alloc(s) == [s EXCEPT !.free = @ \ {New(s)}, !.unused = @ - 1, !.block[New(s)] = Cleared]

\* sfs_block_free
FreeBlock(s, b) == [s EXCEPT !.free = @ \cup {b}, !.unused = @ + 1]

\* the block of a file at an index, NoBlock if there is none
Mapped(s, din, i) ==
  IF i < NDirect THEN din.direct[i]
  ELSE IF din.indirect = NoBlock THEN NoBlock
       ELSE s.block[din.indirect].entry[i - NDirect]

\* how many blocks sfs_bmap_get_nolock allocates to map the index
Needed(s, din, i) ==
  IF Mapped(s, din, i) # NoBlock THEN 0
  ELSE IF i < NDirect \/ din.indirect # NoBlock THEN 1 ELSE 2

\* mutant: the indirect block just allocated stays allocated
KeepsIndirect(s, din, i) == IF Needed(s, din, i) = 2 /\ s.free # {} THEN Alloc(s) ELSE s

\* failed_cleanup of sfs_bmap_get_sub_nolock
GivesBack(s, din, i) ==
  IF Needed(s, din, i) = 2 /\ s.free # {} THEN FreeBlock(Alloc(s), New(s)) ELSE s

\* sfs_bmap_get_nolock with create.  An entry added to an indirect block that is
\* there does not make the inode dirty.
Get(s, f, i) ==
  LET din == s.din[f]
      a == Alloc(s)
  IN CASE Needed(s, din, i) = 0 -> s
       [] Needed(s, din, i) > Cardinality(s.free) -> GivesBack(s, din, i)
       [] OTHER ->
          IF i < NDirect
          THEN [a EXCEPT !.din[f].direct[i] = New(s), !.dirty[f] = TRUE]
          ELSE IF din.indirect # NoBlock
          THEN [a EXCEPT !.block[din.indirect].entry[i - NDirect] = New(s)]
          ELSE [Alloc(a) EXCEPT !.block[New(s)].entry[i - NDirect] = New(a),
                                !.din[f].indirect = New(s), !.dirty[f] = TRUE]

\* What a call has done so far: the file system, whether it goes on, whether an
\* assertion has failed, and the bytes read or the number of bytes written.
Begin(s) == [s |-> s, ok |-> TRUE, bad |-> FALSE, bytes |-> <<>>]

\* sfs_bmap_load_nolock: the index just behind the last block appends one
Load(a, f, i) ==
  LET blocks == a.s.din[f].blocks
      got == Get(a.s, f, i)
  IN CASE i > blocks -> [a EXCEPT !.ok = FALSE, !.bad = TRUE]
       [] i < blocks -> IF Mapped(a.s, a.s.din[f], i) # NoBlock THEN a
                        ELSE [a EXCEPT !.ok = FALSE, !.bad = TRUE]
       [] i = blocks -> IF Mapped(got, got.din[f], i) = NoBlock
                        THEN [a EXCEPT !.s = got, !.ok = FALSE]
                        ELSE [a EXCEPT !.s = [got EXCEPT !.din[f].blocks = @ + 1]]

\* sfs_bmap_truncate_nolock: the last block; an indirect block stays
Shrink(s, f) ==
  LET i == s.din[f].blocks - 1
      b == Mapped(s, s.din[f], i)
      t == IF b = NoBlock THEN s
           ELSE IF i < NDirect
           THEN [FreeBlock(s, b) EXCEPT !.din[f].direct[i] = NoBlock]
           ELSE [FreeBlock(s, b) EXCEPT
                   !.block[s.din[f].indirect].entry[i - NDirect] = NoBlock]
  IN [t EXCEPT !.din[f].blocks = i, !.dirty[f] = TRUE]

------------------------------------------------------------------------------
(* sfs_truncfile *)

BlocksFor(len) == (len + BlockSize - 1) \div BlockSize

Resized(a, f, len) == [a EXCEPT !.s.din[f].size = len, !.s.dirty[f] = TRUE]

\* its loop over the n blocks behind the last one, until one fails
Grown(s, f, n) ==
  LET first == s.din[f].blocks
      after[k \in 0..n] ==
        IF k = 0 THEN Begin(s)
        ELSE LET a == after[k - 1] IN IF a.ok THEN Load(a, f, first + k - 1) ELSE a
  IN after[n]

\* and the one over the last n blocks
Shrunk(s, f, n) ==
  LET after[k \in 0..n] == IF k = 0 THEN s ELSE Shrink(after[k - 1], f)
  IN after[n]

Truncate(s, f, len) ==
  LET din == s.din[f]
      to == BlocksFor(len)
      grown == Grown(s, f, to - din.blocks)
  IN IF din.size = len THEN [Begin(s) EXCEPT !.bad = (to # din.blocks)]
     ELSE IF to < din.blocks THEN Resized(Begin(Shrunk(s, f, din.blocks - to)), f, len)
     ELSE IF grown.ok THEN Resized(grown, f, len) ELSE grown

------------------------------------------------------------------------------
(* sfs_io_nolock *)

\* mutant: the first block is always taken to its end
PiecesLong(o, e) ==
  LET b == o \div BlockSize IN <<[index |-> b, from |-> o % BlockSize, to |-> BlockSize]>>

\* The blocks touched between offsets o and e: the rest of the first one, a whole
\* one, and the beginning of the last.
Pieces(o, e) ==
  LET skip == o % BlockSize # 0
      first == o \div BlockSize
      whole == e \div BlockSize - first
      next == IF skip THEN first + 1 ELSE first
      left == IF skip THEN whole - 1 ELSE whole
      head == [index |-> first, from |-> o % BlockSize,
               to |-> IF whole # 0 THEN BlockSize ELSE e - first * BlockSize]
      body == [index |-> next, from |-> 0, to |-> BlockSize]
      tail == [index |-> next + left, from |-> 0, to |-> e % BlockSize]
  IN IF skip /\ whole = 0 THEN <<head>>
     ELSE (IF skip THEN <<head>> ELSE <<>>) \o (IF left > 0 THEN <<body>> ELSE <<>>)
          \o (IF e % BlockSize # 0 THEN <<tail>> ELSE <<>>)

Length(p) == p.to - p.from

\* one piece, read or filled with x
Move(a, f, p, write, x) ==
  LET l == Load(a, f, p.index)
      b == Mapped(l.s, l.s.din[f], p.index)
      old == l.s.block[b].data
  IN IF ~a.ok THEN a
     ELSE IF ~l.ok THEN l
     ELSE IF write
     THEN [l EXCEPT !.s.block[b].data =
                      [i \in DOMAIN old |-> IF p.from <= i /\ i < p.to THEN x ELSE old[i]],
                    !.bytes = @ \o [i \in 1..Length(p) |-> x]]
     ELSE [l EXCEPT !.bytes = @ \o [i \in 1..Length(p) |-> old[p.from + i - 1]]]

\* mutant: the size grows by what was written, wherever that was
LongerByLength(a, f, o) ==
  LET n == Len(a.bytes)
  IN IF n > a.s.din[f].size THEN [a EXCEPT !.s.din[f].size = n, !.s.dirty[f] = TRUE] ELSE a

\* the end of sfs_io_nolock, reached after a failure too
Longer(a, f, o) ==
  LET n == o + Len(a.bytes)
  IN IF n > a.s.din[f].size THEN [a EXCEPT !.s.din[f].size = n, !.s.dirty[f] = TRUE] ELSE a

\* what follows the pieces, unless an assertion has stopped the kernel
Out(a, f, o) == IF a.bad THEN a ELSE Longer(a, f, o)

\* the pieces ps, until one fails
Moved(s, f, ps, write, x) ==
  LET after[k \in 0..Len(ps)] ==
        IF k = 0 THEN Begin(s) ELSE Move(after[k - 1], f, ps[k], write, x)
  IN after[Len(ps)]

IO(s, f, o, n, write, x) ==
  LET size == s.din[f].size
      e == IF ~write /\ o + n > size THEN size ELSE o + n
  IN IF n = 0 \/ (~write /\ o >= size) THEN Begin(s)
     ELSE Out(Moved(s, f, Pieces(o, e), write, x), f, o)

------------------------------------------------------------------------------
\* What a call leaves behind: a failed assertion stops the kernel.
Ends(a) == IF a.bad THEN halted' = TRUE /\ UNCHANGED <<fs, handle>>
           ELSE UNCHANGED halted

Users(f) == {h \in Handle : handle[h] # CLOSED /\ handle[h].file = f}

\* file_open; O_APPEND only sets the position once
AppendAt(f) == fs.din[f].size

Open(h, f, append) ==
  /\ ~halted /\ handle[h] = CLOSED
  /\ handle' = [handle EXCEPT ![h] = [file |-> f, pos |-> IF append THEN AppendAt(f) ELSE 0]]
  /\ UNCHANGED <<fs, halted>>

\* with O_TRUNC or O_CREAT
OpenTruncates(h, f) ==
  /\ ~halted /\ handle[h] = CLOSED
  /\ TruncatesShared \/ Users(f) = {}
  /\ LET a == Truncate(fs, f, 0)
     IN /\ Ends(a)
        /\ ~a.bad => /\ fs' = a.s
                     /\ handle' = [handle EXCEPT ![h] = [file |-> f, pos |-> 0]]

\* sfs_fsync
Synced(s, f) == IF s.dirty[f] THEN [s EXCEPT !.dirty[f] = FALSE, !.ondisk[f] = s.din[f]] ELSE s

\* vfs_close by the last user: the inode is written if it is dirty, reclaimed, and
\* read from the disk again when somebody opens the file
Reclaimed(s, f) == LET t == Synced(s, f) IN [t EXCEPT !.din[f] = t.ondisk[f]]

Close(h) ==
  /\ ~halted /\ handle[h] # CLOSED
  /\ LET f == handle[h].file
     IN fs' = IF Users(f) = {h} THEN Reclaimed(fs, f) ELSE fs
  /\ handle' = [handle EXCEPT ![h] = CLOSED]
  /\ UNCHANGED halted

\* file_read and file_write
Transfer(h, n, write, x) ==
  /\ ~halted /\ handle[h] # CLOSED
  /\ handle[h].pos + n <= MaxFile
  /\ LET a == IO(fs, handle[h].file, handle[h].pos, n, write, x)
     IN /\ Ends(a)
        /\ ~a.bad => /\ fs' = a.s
                     /\ handle' = [handle EXCEPT ![h].pos = @ + Len(a.bytes)]

Write(h, n, x) == Transfer(h, n, TRUE, x)
Read(h, n) == Transfer(h, n, FALSE, Zero)

\* file_seek and sfs_tryseek: behind the end the file is enlarged first
Seek(h, p) ==
  /\ ~halted /\ handle[h] # CLOSED
  /\ LET f == handle[h].file
         a == IF p > fs.din[f].size THEN Truncate(fs, f, p) ELSE Begin(fs)
     IN /\ Ends(a)
        /\ ~a.bad => /\ fs' = a.s
                     /\ handle' = IF a.ok THEN [handle EXCEPT ![h].pos = p] ELSE handle

Fsync(h) ==
  /\ ~halted /\ handle[h] # CLOSED
  /\ fs' = Synced(fs, handle[h].file)
  /\ UNCHANGED <<handle, halted>>

Init ==
  /\ fs = [free |-> Block, unused |-> NBlocks, block |-> [b \in Block |-> Cleared],
           din |-> [f \in File |-> NoInode], dirty |-> [f \in File |-> FALSE],
           ondisk |-> [f \in File |-> NoInode]]
  /\ handle = [h \in Handle |-> CLOSED]
  /\ halted = FALSE

Next == \E h \in Handle :
  \/ \E f \in File : OpenTruncates(h, f) \/ \E append \in BOOLEAN : Open(h, f, append)
  \/ Close(h) \/ Fsync(h)
  \/ \E n \in 1..BlockSize : Read(h, n) \/ \E x \in Byte \ {Zero} : Write(h, n, x)
  \/ \E p \in SeekTo : Seek(h, p)

Spec == Init /\ [][Next]_vars

------------------------------------------------------------------------------
Index == 0..NDirect+NEntries-1
Uses(b) ==
  Cardinality({x \in File \X Index : Mapped(fs, fs.din[x[1]], x[2]) = b})
  + Cardinality({f \in File : fs.din[f].indirect = b})

\* A block of the disk is free or belongs to one file, in one place, whatever was
\* enlarged, cut off, failed for want of room or reclaimed; a file has its blocks.
BlocksExact ==
  /\ \A b \in Block : Uses(b) = IF b \in fs.free THEN 0 ELSE 1
  /\ fs.unused = Cardinality(fs.free)
  /\ \A f \in File, i \in Index :
       i < fs.din[f].blocks => Mapped(fs, fs.din[f], i) # NoBlock

Content(f) ==
  [o \in 0..fs.din[f].size-1 |->
     LET b == Mapped(fs, fs.din[f], o \div BlockSize)
     IN IF b = NoBlock THEN Zero ELSE fs.block[b].data[o % BlockSize]]

\* Bytes come back as they were written, whatever blocks the two were cut into.
ReadsBack ==
  \A f \in File, o \in 0..MaxFile-1, n \in 1..BlockSize :
    BlocksFor(fs.din[f].size) <= fs.din[f].blocks =>
      LET size == fs.din[f].size
          bytes == IO(fs, f, o, n, FALSE, Zero).bytes
      IN /\ Len(bytes) = IF o >= size THEN 0 ELSE IF o + n > size THEN size - o ELSE n
         /\ \A k \in DOMAIN bytes : bytes[k] = Content(f)[o + k - 1]

\* A write changes the bytes it covers in the file it goes to and nothing else, a
\* seek fills up with zeros, and what is reclaimed comes back as it was, with the
\* disk full or not, and blocks passing from one file to another.
Abstract == INSTANCE FileData WITH content <- [f \in File |-> Content(f)],
                                   MaxIO <- BlockSize
Implements == Abstract!Spec

\* "assert(index <= din->blocks)" (sfs_inode.c:356) and "assert(tblks ==
\* din->blocks)" (sfs_inode.c:945).
NoAssertFails == ~halted
=============================================================================
