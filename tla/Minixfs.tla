------------------------------- MODULE Minixfs -------------------------------
(***************************************************************************)
(* finding_filesystems/minixfs.c: chmod, chown, creating, writing and      *)
(* reading files of one directory.  A call is one action.                  *)
(*                                                                         *)
(* An inode has the numbers of its blocks, the direct ones and those of    *)
(* the indirect block in one sequence, its size and its attributes; times  *)
(* are left out.  The routines of minixfs_utils are external: they find    *)
(* inodes and hand out free inodes and blocks, or fail.                    *)
(***************************************************************************)
EXTENDS Integers, Sequences, SequencesExt

CONSTANTS Paths,
          block_size, NUM_DIRECT_BLOCKS,
          NumIndirect,    \* block numbers in a block
          DataBlocks,     \* number of data blocks of the file system
          InodeCount,     \* inodes for files
          DirEntries,     \* directory entries in a block
          Transfers,      \* offset and number of bytes of reads and writes
          Bytes,          \* what is written
          Modes, Ids, KEEP,
          MaxFsCalls      \* bound on the calls made

UNWRITTEN == 0            \* no byte

ASSUME MinixfsAssumption ==
  /\ block_size \in Nat \ {0} /\ NUM_DIRECT_BLOCKS \in Nat /\ NumIndirect \in Nat
  /\ DataBlocks \in Nat /\ Transfers \subseteq Nat \X Nat /\ UNWRITTEN \notin Bytes

VARIABLES inode,          \* of the paths that exist
          disk,           \* the bytes of the blocks, <<block, position>>
          fs_status,      \* "ok", or "wild" (memory that is no block was used)
          strayed,        \* bytes went to another block than the file's
          miscounted,     \* a write did not begin at the end of its file
          expected,       \* history: what was written last at each position
          fs_calls

fs_vars == <<inode, disk, fs_status, strayed, miscounted, expected, fs_calls>>

max_size == (NUM_DIRECT_BLOCKS + NumIndirect) * block_size
Offsets == 0 .. max_size

FsInit ==
  /\ inode = <<>> /\ expected = <<>>
  /\ disk = [c \in (1 .. DataBlocks) \X (0 .. block_size - 1) |-> UNWRITTEN]
  /\ fs_status = "ok" /\ strayed = FALSE /\ miscounted = FALSE /\ fs_calls = 0

Existing == DOMAIN inode
FsCall == fs_status = "ok" /\ fs_calls < MaxFsCalls /\ fs_calls' = fs_calls + 1
With(f, p, v) == [q \in DOMAIN f \cup {p} |-> IF q = p THEN v ELSE f[q]]

-----------------------------------------------------------------------------
(* Attributes *)

\* A call for a path that does not exist changes nothing, here and below.
minixfs_chmod(p, mode) ==
  /\ FsCall /\ p \in Existing
  /\ inode' = [inode EXCEPT ![p].mode = mode]
  /\ UNCHANGED <<disk, fs_status, strayed, miscounted, expected>>

minixfs_chown(p, owner, group) ==
  /\ FsCall /\ p \in Existing
  /\ inode' = [inode EXCEPT ![p].uid = IF owner = KEEP THEN @ ELSE owner,
                            ![p].gid = IF group = KEEP THEN @ ELSE group]
  /\ UNCHANGED <<disk, fs_status, strayed, miscounted, expected>>

-----------------------------------------------------------------------------
(* Blocks *)

FreeBlocks ==
  (1 .. DataBlocks) \ UNION {{inode[p].indirect} \cup Range(inode[p].blocks) : p \in Existing}

\* The k-th free block: they are handed out from the lowest number on.
FreeBlock(k) == CHOOSE b \in FreeBlocks : Cardinality({c \in FreeBlocks : c < b}) = k - 1

\* The names a directory takes: it is full when its direct blocks would be.  It
\* has one block, and no other is taken for a name that does not fit.
DirectoryFull == Cardinality(Existing) >= NUM_DIRECT_BLOCKS * DirEntries
DirectoryBeyond == Cardinality(Existing) >= DirEntries

NewInode == [blocks |-> <<>>, indirect |-> 0, size |-> 0, mode |-> 0, uid |-> 0, gid |-> 0]
minixfs_create_inode_for_path(p) ==
  IF DirectoryFull \/ Cardinality(Existing) = InodeCount THEN {} ELSE {With(inode, p, NewInode)}

Expected(p) == IF p \in Existing THEN expected[p] ELSE [k \in Offsets |-> UNWRITTEN]

\* A file is created by its first write, or alone.
Create(p) ==
  /\ FsCall /\ p \notin Existing
  /\ inode' \in minixfs_create_inode_for_path(p)
  /\ fs_status' = IF DirectoryBeyond THEN "wild" ELSE "ok"
  /\ expected' = With(expected, p, Expected(p))
  /\ UNCHANGED <<disk, strayed, miscounted>>

\* File i with k more blocks, and one for indirect numbers if there are so many.
NewIndirect(i, k) == i.indirect = 0 /\ Len(i.blocks) + k > NUM_DIRECT_BLOCKS
Enough(i, k) == k + (IF NewIndirect(i, k) THEN 1 ELSE 0) <= Cardinality(FreeBlocks)
FileGrown(i, k) ==
  [i EXCEPT !.blocks = @ \o [j \in 1 .. k |-> FreeBlock(j)],
            !.indirect = IF NewIndirect(i, k) THEN FreeBlock(k + 1) ELSE @]

\* At least n blocks for file i, or a failure that may leave it some of them.
minixfs_min_blockcount(i, n) ==
  LET more == IF n > Len(i.blocks) THEN n - Len(i.blocks) ELSE 0 IN
  IF Enough(i, more) THEN {[ok |-> TRUE, file |-> FileGrown(i, more)]}
  ELSE {[ok |-> FALSE, file |-> FileGrown(i, k)] : k \in {k \in 0 .. more - 1 : Enough(i, k)}}

\* Byte n of a transfer that begins at off.  In the first block of a transfer
\* the offset is added to the block's address as a number of blocks; writing
\* adds it as a number of bytes as well, reading does not.
First(off, n) == (off + n) \div block_size = off \div block_size

\* Slip: the index of the block is not advanced.
Slip_IndexKept(i, off, n) ==
  i.blocks[off \div block_size + 1] + (IF First(off, n) THEN off % block_size ELSE 0)

help_datablock(i, off, n) ==
  i.blocks[(off + n) \div block_size + 1] + (IF First(off, n) THEN off % block_size ELSE 0)

WriteCell(i, off, n) == <<help_datablock(i, off, n), (off + n) % block_size>>
ReadCell(i, off, n) ==
  <<help_datablock(i, off, n), IF First(off, n) THEN n ELSE (off + n) % block_size>>

-----------------------------------------------------------------------------
(* Writing and reading *)

RequiredBlocks(n) == (n + block_size - 1) \div block_size

\* The bytes go to the blocks of i, or to memory that is none.
Written(p, x, off, n, i) ==
  LET cells == {WriteCell(i, off, k) : k \in 0 .. n - 1} IN
  /\ inode' = With(inode, p, [i EXCEPT !.size = @ + n])
  /\ IF cells \subseteq DOMAIN disk /\ (p \in Existing \/ ~DirectoryBeyond)
       THEN /\ disk' = [c \in DOMAIN disk |-> IF c \in cells THEN x ELSE disk[c]]
            /\ UNCHANGED fs_status
       ELSE fs_status' = "wild" /\ UNCHANGED disk
  /\ strayed' = (strayed \/ off % block_size # 0)
  /\ miscounted' = (miscounted \/ off # i.size)
  /\ expected' = With(expected, p,
       [k \in Offsets |-> IF k \in off .. off + n - 1 THEN x ELSE Expected(p)[k]])

\* A file that was created stays when there are no blocks for what is written.
minixfs_write(p, x, off, n) ==
  /\ FsCall /\ off + n <= max_size
  /\ \E made \in IF p \in Existing THEN {inode} ELSE minixfs_create_inode_for_path(p) :
       \E outcome \in minixfs_min_blockcount(made[p], RequiredBlocks(off + n)) :
         \/ outcome.ok /\ Written(p, x, off, n, outcome.file)
         \/ /\ ~outcome.ok
            /\ inode' = With(made, p, outcome.file)
            /\ fs_status' = IF p \notin Existing /\ DirectoryBeyond THEN "wild" ELSE "ok"
            /\ expected' = With(expected, p, Expected(p))
            /\ UNCHANGED <<disk, strayed, miscounted>>

\* What a read returns.  The rest of the file is computed without a sign: from
\* an offset behind the end it is larger than any count.
TotalBytes(i, off, n) ==
  IF off > i.size THEN n ELSE Min({i.size - off, n})
ReadBytes(i, off, n) ==
  [k \in 1 .. TotalBytes(i, off, n) |-> disk[ReadCell(i, off, k - 1)]]

\* Reading changes nothing, unless it uses a block the file does not have, or
\* one behind the last.
minixfs_read(p, off, n) ==
  /\ FsCall /\ p \in Existing
  /\ LET i == inode[p]
         beyond == \E k \in 0 .. TotalBytes(i, off, n) - 1 :
                     \/ (off + k) \div block_size >= Len(i.blocks)
                     \/ help_datablock(i, off, k) > DataBlocks
     IN  fs_status' = IF beyond THEN "wild" ELSE fs_status
  /\ UNCHANGED <<inode, disk, strayed, miscounted, expected>>

FsNext ==
  \E p \in Paths :
    \/ \E mode \in Modes : minixfs_chmod(p, mode)
    \/ \E owner, group \in Ids \cup {KEEP} : minixfs_chown(p, owner, group)
    \/ Create(p)
    \/ \E t \in Transfers :
         minixfs_read(p, t[1], t[2]) \/ \E x \in Bytes : minixfs_write(p, x, t[1], t[2])

FsSpec == FsInit /\ [][FsNext]_fs_vars

-----------------------------------------------------------------------------
(* Properties *)

\* A file whose writes began at block boundaries gives back what was written
\* last when it is read from a block boundary on, within its size and its
\* blocks, and has no block in common with another file, also when a write
\* fails for want of blocks after the file was created.  A write inside a block
\* goes to other blocks, of other files as well (minixfs.c:228); one that does
\* not begin at the end of the file counts bytes twice or not at all, and the
\* size is that of the contents only without such writes (minixfs.c:237).
FilesReadBack ==
  fs_status = "ok" /\ ~strayed =>
    \A p \in Existing :
      LET i == inode[p] IN
      /\ \A off \in Offsets, n \in 1 .. max_size :
           (off % block_size = 0 /\ off + n <= Min({i.size, Len(i.blocks) * block_size})) =>
             LET bytes == ReadBytes(i, off, n) IN
             \A k \in 1 .. n :
               expected[p][off + k - 1] # UNWRITTEN => bytes[k] = expected[p][off + k - 1]
      /\ \A r \in Existing \ {p} : Range(i.blocks) \cap Range(inode[r].blocks) = {}
      /\ ~miscounted => i.size = Cardinality({k \in Offsets : expected[p][k] # UNWRITTEN})
=============================================================================
