------------------------------ MODULE FileSystem ------------------------------
(***************************************************************************)
(* The file system of the kernel: an image in memory with an inode table,  *)
(* two bitmaps and data blocks, and one table of open descriptors for all  *)
(* processes.                                                              *)
(*                                                                         *)
(* One action is one system call: the kernel runs them with interrupts     *)
(* off, so calls of different processes interleave but never overlap.      *)
(* Nothing ties a descriptor or a path to a process, hence the calls have  *)
(* no process argument.                                                    *)
(*                                                                         *)
(* Offsets, lengths and sizes count cells.  A block has CellsPerBlock of   *)
(* them; a cell of a directory is one directory entry, a cell of a file is *)
(* data.  A cell whose first byte is zero is Zero in both.                 *)
(***************************************************************************)
EXTENDS Integers, Sequences, FiniteSets, SequencesExt

CONSTANTS
    NInodes,        \* FS_MAX_INODES
    NBlocks,        \* data blocks of the image, the superblock's block count
    InodeBlocks,    \* FS_INODE_BLOCKS
    CellsPerBlock,  \* FS_DIRENTS_PER_BLOCK
    Fds,            \* descriptors of files, 2..FS_MAX_FD - 1
    Names,          \* path components
    MaxDepth,       \* bound on the components of a path
    MaxPos,         \* bound on the position set by lseek
    MaxWrite,       \* bound on the length of a write
    MaxSize,        \* bound on the size of a directory: one that was overwritten
                    \*   through a descriptor takes new entries for ever
    Payload,        \* the kinds of cells that programs write
    CarefulNames,   \* do programs avoid mkdir and rename onto a name in use and
                    \*   rename to below a file or below itself
    CarefulFds      \* do programs avoid unlink and rmdir of an open inode and
                    \*   directories opened for writing

ASSUME FileSystemAssumption ==
    /\ NInodes \in Nat \ {0}
    /\ NBlocks \in Nat \ {0}
    /\ InodeBlocks \in Nat \ {0}
    /\ CellsPerBlock \in Nat \ {0}
    /\ Fds \subseteq Nat \ {0, 1}
    /\ MaxDepth \in Nat \ {0}
    /\ MaxPos \in Nat
    /\ MaxWrite \in Nat
    /\ MaxSize \in Nat
    /\ Payload \subseteq {"zero", "data", "entry"}
    /\ CarefulNames \in BOOLEAN
    /\ CarefulFds \in BOOLEAN

VARIABLES
    node_type,      \* DiskInode.node_type
    size,           \* DiskInode.size: entries of a directory, length of a file
    blocks,         \* DiskInode.blocks, 0 where there is none
    free_map,       \* the set bits of the block bitmap
    free_blocks,    \* FS_SB_FREE_BLOCKS
    inode_map,      \* the set bits of the inode bitmap
    free_inodes,    \* FS_SB_FREE_INODES
    content,        \* the cells of each data block
    fds             \* the OpenFile of each descriptor

vars == <<node_type, size, blocks, free_map, free_blocks, inode_map,
          free_inodes, content, fds>>

Inodes == 0 .. NInodes - 1
Root == 0
Blocks == 1 .. NBlocks
Slots == 0 .. InodeBlocks - 1
Cells == 0 .. CellsPerBlock - 1
Capacity == InodeBlocks * CellsPerBlock
NoInode == -1

\* Paths without repeated or trailing slashes; <<>> is the root.
Paths == UNION {[1 .. k -> Names] : k \in 0 .. MaxDepth}
NamedPaths == Paths \ {<<>>}

Zero == [kind |-> "zero"]
Data == [kind |-> "data"]
Entry(n, i) == [kind |-> "entry", name |-> n, inode |-> i]
Entries == {Entry(n, i) : n \in Names, i \in Inodes}
CellValues == {Zero, Data} \cup Entries

Closed == [valid |-> FALSE, inode |-> 0, flags |-> "ro", pos |-> 0]
NoBlocks == [s \in Slots |-> 0]
ZeroBlock == [c \in Cells |-> Zero]

(* Every field of the image and of the descriptor table stays in its       *)
(* range; in particular free_block is never given "no block", and no inode *)
(* points outside the image.                                               *)
TypeOK ==
    /\ node_type \in [Inodes -> {"free", "file", "dir"}]
    /\ size \in [Inodes -> Nat]
    /\ blocks \in [Inodes -> [Slots -> Blocks \cup {0}]]
    /\ free_map \subseteq Blocks
    /\ free_blocks \in Nat
    /\ inode_map \subseteq Inodes
    /\ free_inodes \in Nat
    /\ content \in [Blocks -> [Cells -> CellValues]]
    /\ fds \in [Fds -> [valid : BOOLEAN, inode : Inodes,
                        flags : {"ro", "rw"}, pos : Nat]]

-----------------------------------------------------------------------------
(* Directories and paths.                                                  *)

\* The block slots that a scan sees: it stops at the first one without a block.
Scanned(d) == {s \in Slots : \A t \in 0 .. s : blocks[d][t] # 0}

\* find_in and remove_entry: the first entry with this name, as <<slot, cell>>.
Matches(d, n) ==
    {p \in Scanned(d) \X Cells :
        LET e == content[blocks[d][p[1]]][p[2]]
        IN  e.kind = "entry" /\ e.name = n}

Before(p, q) == p[1] < q[1] \/ (p[1] = q[1] /\ p[2] < q[2])
First(S) == CHOOSE p \in S : \A q \in S \ {p} : Before(p, q)

find_in(d, n) ==
    IF node_type[d] = "dir" /\ Matches(d, n) # {}
    THEN LET p == First(Matches(d, n))
         IN  content[blocks[d][p[1]]][p[2]].inode
    ELSE NoInode

resolve(path) ==
    LET walk[k \in 0 .. Len(path)] ==
            IF k = 0 THEN Root
            ELSE IF walk[k - 1] = NoInode THEN NoInode
            ELSE find_in(walk[k - 1], path[k])
    IN  walk[Len(path)]

\* What a path names, at most one inode; split_path: the directory that its
\* last component is looked up in.
Named(path) == {resolve(path)} \cap Inodes
Parent(path) == Named(Front(path))

\* The content once the entry called n has left directory d.
Removed(d, n) ==
    LET p == First(Matches(d, n))
    IN  [content EXCEPT ![blocks[d][p[1]]][p[2]] = Zero]

-----------------------------------------------------------------------------
(* add_entry, on the inodes bl, sizes sz and content cn that its caller has *)
(* already changed.                                                         *)

\* A slot where the search for room ends: a zero cell or no block at all.
HasRoom(bl, cn, d, s) ==
    bl[d][s] # 0 => \E c \in Cells : cn[bl[d][s]][c] = Zero

FirstRoom(bl, cn, d, s) ==
    /\ HasRoom(bl, cn, d, s)
    /\ \A t \in 0 .. s - 1 : ~ HasRoom(bl, cn, d, t)

CanAdd(bl, cn, d) ==
    \E s \in Slots : FirstRoom(bl, cn, d, s) /\ (bl[d][s] = 0 => free_map # {})

\* alloc_block takes the lowest set bit of the bitmap.
NoneBelow(b, S) == \A c \in S : b <= c
Decrement(n) == IF n > 0 THEN n - 1 ELSE 0

AddEntry(bl, sz, cn, d, e) ==
    \E s \in Slots :
        /\ FirstRoom(bl, cn, d, s)
        /\ \/ /\ bl[d][s] # 0
              /\ \E c \in Cells :
                    /\ cn[bl[d][s]][c] = Zero
                    /\ \A x \in 0 .. c - 1 : cn[bl[d][s]][x] # Zero
                    /\ content' = [cn EXCEPT ![bl[d][s]][c] = e]
              /\ blocks' = bl
              /\ UNCHANGED <<free_map, free_blocks>>
           \/ /\ bl[d][s] = 0
              /\ \E b \in free_map :
                    /\ NoneBelow(b, free_map)
                    /\ content' = [cn EXCEPT ![b] = [ZeroBlock EXCEPT ![0] = e]]
                    /\ blocks' = [bl EXCEPT ![d][s] = b]
                    /\ free_map' = free_map \ {b}
              /\ free_blocks' = Decrement(free_blocks)
        /\ sz[d] < MaxSize
        /\ size' = [sz EXCEPT ![d] = @ + 1]

-----------------------------------------------------------------------------
(* Names: create, mkdir, unlink, rmdir, rename.                            *)

diskVars == <<node_type, size, blocks, free_map, free_blocks, inode_map,
              free_inodes, content>>

IsOpen(i) == \E f \in Fds : fds[f].valid /\ fds[f].inode = i

\* create_at found an inode i and room for its entry in the parent.
CreateAt(path, type, i) ==
    \E d \in Parent(path) :
        /\ node_type[d] = "dir"
        /\ NoneBelow(i, inode_map)
        /\ LET bl == [blocks EXCEPT ![i] = NoBlocks]
               sz == [size EXCEPT ![i] = 0]
           IN  AddEntry(bl, sz, content, d, Entry(Last(path), i))
        /\ node_type' = [node_type EXCEPT ![i] = type]
        /\ inode_map' = inode_map \ {i}
        /\ free_inodes' = Decrement(free_inodes)

\* create_at found an inode but no room: it has cleared the inode and frees it.
CreateFails(path) ==
    \E d \in Parent(path), i \in inode_map :
        /\ CarefulNames => resolve(path) = NoInode
        /\ node_type[d] = "dir"
        /\ NoneBelow(i, inode_map)
        /\ blocks' = [blocks EXCEPT ![i] = NoBlocks]
        /\ ~ CanAdd(blocks', content, d)
        /\ size' = [size EXCEPT ![i] = 0]
        /\ node_type' = [node_type EXCEPT ![i] = "free"]
        /\ free_inodes' = Decrement(free_inodes) + 1
        /\ UNCHANGED <<free_map, free_blocks, inode_map, content, fds>>

Mkdir(path) ==
    /\ CarefulNames => resolve(path) = NoInode
    /\ \E i \in inode_map : CreateAt(path, "dir", i)
    /\ UNCHANGED fds

\* Mutant: the size of the directory is not decremented.
LeftBehind_KeepsSize(d) == size

LeftBehind(d) == [size EXCEPT ![d] = Decrement(@)]

RemoveEntry(d, n) == content' = Removed(d, n) /\ size' = LeftBehind(d)

\* Mutant: the inode goes on pointing to the freed blocks.
FreeSlots_KeepsPointers(i, S) ==
    /\ free_map' = free_map \cup {blocks[i][s] : s \in S}
    /\ free_blocks' = free_blocks + Cardinality(S)
    /\ UNCHANGED blocks

\* The blocks in these slots of inode i are freed.
FreeSlots(i, S) ==
    /\ free_map' = free_map \cup {blocks[i][s] : s \in S}
    /\ free_blocks' = free_blocks + Cardinality(S)
    /\ blocks' = [blocks EXCEPT ![i] =
                    [s \in Slots |-> IF s \in S THEN 0 ELSE blocks[i][s]]]

\* Mutant: slots without a block as well.
UsedFrom_All(i, first) == {s \in Slots : s >= first}

\* The slots from the given one on that hold a block.
UsedFrom(i, first) == {s \in Slots : s >= first /\ blocks[i][s] # 0}

\* Mutant: the freed inode keeps its type.
FreeInode_KeepsType(i) ==
    /\ UNCHANGED node_type
    /\ inode_map' = inode_map \cup {i}
    /\ free_inodes' = free_inodes + 1

FreeInode(i) ==
    /\ node_type' = [node_type EXCEPT ![i] = "free"]
    /\ inode_map' = inode_map \cup {i}
    /\ free_inodes' = free_inodes + 1

\* remove_entry and release_inode.
Release(path, i) ==
    \E d \in Parent(path) :
        /\ CarefulFds => ~ IsOpen(i)
        /\ RemoveEntry(d, Last(path))
        /\ FreeSlots(i, UsedFrom(i, 0))
        /\ FreeInode(i)
        /\ UNCHANGED fds

Unlink(path) ==
    \E i \in Named(path) : node_type[i] = "file" /\ Release(path, i)

\* Mutant: the directory need not be empty.
Rmdir_Nonempty(path) ==
    \E i \in Named(path) \ {Root} : node_type[i] = "dir" /\ Release(path, i)

Rmdir(path) ==
    \E i \in Named(path) \ {Root} :
        node_type[i] = "dir" /\ size[i] = 0 /\ Release(path, i)

\* The part of rename that both outcomes share; the entry is to go to p.
RenameFrom(old, new, p) ==
    /\ CarefulNames => /\ resolve(new) = NoInode
                       /\ node_type[p] = "dir"
                       /\ ~ IsPrefix(old, new)
    /\ UNCHANGED <<node_type, inode_map, free_inodes, fds>>

Rename(old, new) ==
    \E i \in Named(old), d \in Parent(old), p \in Parent(new) :
        /\ RenameFrom(old, new, p)
        /\ AddEntry(blocks, LeftBehind(d), Removed(d, Last(old)), p,
                    Entry(Last(new), i))

\* Mutant: the entry goes back under the name it was to get.
RenameRollsBack_NewName(old, new) ==
    \E i \in Named(old), d \in Parent(old), p \in Parent(new) :
        /\ RenameFrom(old, new, p)
        /\ ~ CanAdd(blocks, Removed(d, Last(old)), p)
        /\ AddEntry(blocks, LeftBehind(d), Removed(d, Last(old)), d,
                    Entry(Last(new), i))

\* No room at the destination: the entry goes back where it was.  The cell that
\* it has just left is free, so this add_entry, whose result rename ignores,
\* finds room.
RenameRollsBack(old, new) ==
    \E i \in Named(old), d \in Parent(old), p \in Parent(new) :
        /\ RenameFrom(old, new, p)
        /\ ~ CanAdd(blocks, Removed(d, Last(old)), p)
        /\ AddEntry(blocks, LeftBehind(d), Removed(d, Last(old)), d,
                    Entry(Last(old), i))

-----------------------------------------------------------------------------
(* Descriptors: open, close, lseek, write, ftruncate, readchar.            *)

\* The first free slot from 2 on; open fails when there is none.
TakeSlot(i, flags) ==
    LET unused == {f \in Fds : ~ fds[f].valid}
    IN  \/ unused = {} /\ UNCHANGED fds
        \/ \E f \in unused :
              /\ NoneBelow(f, unused)
              /\ fds' = [fds EXCEPT ![f] = [valid |-> TRUE, inode |-> i,
                                          flags |-> flags, pos |-> 0]]

Open(path, flags) ==
    \E i \in Named(path) :
        /\ CarefulFds => (node_type[i] = "dir" => flags = "ro")
        /\ TakeSlot(i, flags)
        /\ UNCHANGED diskVars

\* open with FS_OPEN_CREATE of a path that does not resolve.  The file stays
\* when the descriptor table is full.
OpenCreates(path) ==
    /\ resolve(path) = NoInode
    /\ \E i \in inode_map : CreateAt(path, "file", i) /\ TakeSlot(i, "rw")

Close(f) ==
    /\ fds' = [fds EXCEPT ![f] = Closed]
    /\ UNCHANGED diskVars

\* set_position does not look at valid.
Seek(f, pos) ==
    /\ fds' = [fds EXCEPT ![f].pos = pos]
    /\ UNCHANGED diskVars

\* readchar from a redirected input: one cell, if it is there.
ReadNext(f) ==
    LET i == fds[f].inode
        s == fds[f].pos \div CellsPerBlock
    IN  /\ fds[f].valid /\ fds[f].pos < size[i]
        /\ s \in Slots /\ blocks[i][s] # 0
        /\ fds' = [fds EXCEPT ![f].pos = @ + 1]
        /\ UNCHANGED diskVars

Written == {v \in CellValues : v.kind \in Payload}

\* The slots in lo .. hi - 1 (in cells) of inode i that have no block yet.
Missing(i, lo, hi) ==
    {s \in Slots : /\ s >= lo \div CellsPerBlock
                   /\ s * CellsPerBlock < hi
                   /\ blocks[i][s] = 0}

\* The loop of fs_descriptors_write over the blocks it touches: slots without a
\* block get the lowest free ones in order (got) until none is left, and the
\* loop ends there, at the end of the inode, or after n cells.  v is what the
\* program's buffer holds.
Write(f, n, v) ==
    LET i == fds[f].inode
        off == fds[f].pos
        missing == Missing(i, off, off + n)
        served == {s \in missing :
                      Cardinality({t \in missing : t < s}) < Cardinality(free_map)}
        ends == {InodeBlocks} \cup (missing \ served)
    IN  /\ fds[f].valid /\ fds[f].flags = "rw"
        /\ \E stop \in ends, got \in [served -> free_map] :
            LET room == stop * CellsPerBlock - off
                done == IF room < 0 THEN 0 ELSE IF n > room THEN room ELSE n
                taken == {got[s] : s \in served}
                bl == [s \in Slots |-> IF s \in served THEN got[s] ELSE blocks[i][s]]
                written(b, c) == \E s \in Slots :
                    /\ bl[s] = b
                    /\ s * CellsPerBlock + c \in off .. off + done - 1
            IN  /\ NoneBelow(stop, ends)
                /\ \A s, t \in served : s < t => got[s] < got[t]
                /\ \A b \in free_map \ taken : \A c \in taken : c < b
                /\ blocks' = [blocks EXCEPT ![i] = bl]
                /\ free_map' = free_map \ taken
                /\ content' = [b \in Blocks |-> [c \in Cells |->
                                 IF written(b, c) THEN v
                                 ELSE IF b \in taken THEN Zero
                                 ELSE content[b][c]]]
                /\ size' = IF off + done > size[i]
                           THEN [size EXCEPT ![i] = off + done] ELSE size
                /\ fds' = [fds EXCEPT ![f].pos = off + done]
        /\ free_blocks' = IF free_blocks > Cardinality(served)
                          THEN free_blocks - Cardinality(served) ELSE 0
        /\ UNCHANGED <<node_type, inode_map, free_inodes>>

\* Mutant: the partly filled last block is dropped.
Keep_RoundsDown(length) == length \div CellsPerBlock

\* Mutant: a block more when the length is a multiple of the block size.
Keep_OneMore(length) == length \div CellsPerBlock + 1

\* The block slots that a file of this length keeps.
Keep(length) == (length + CellsPerBlock - 1) \div CellsPerBlock

Truncate(f, length) ==
    LET i == fds[f].inode
    IN  /\ fds[f].valid /\ fds[f].flags = "rw" /\ length < size[i]
        /\ FreeSlots(i, UsedFrom(i, Keep(length)))
        /\ size' = [size EXCEPT ![i] = length]
        /\ UNCHANGED <<node_type, inode_map, free_inodes, content, fds>>

-----------------------------------------------------------------------------
\* The image that build_fs_image makes of no entries, mounted by files_init.
Init ==
    /\ node_type = [i \in Inodes |-> IF i = Root THEN "dir" ELSE "free"]
    /\ size = [i \in Inodes |-> 0]
    /\ blocks = [i \in Inodes |-> [s \in Slots |->
                    IF i = Root /\ s = 0 THEN 1 ELSE 0]]
    /\ free_map = Blocks \ {1}
    /\ free_blocks = NBlocks - 1
    /\ inode_map = Inodes \ {Root}
    /\ free_inodes = NInodes - 1
    /\ content = [b \in Blocks |-> ZeroBlock]
    /\ fds = [f \in Fds |-> Closed]

Next ==
    \/ \E path \in NamedPaths :
          \/ Mkdir(path) \/ CreateFails(path) \/ OpenCreates(path)
          \/ Unlink(path) \/ Rmdir(path)
    \/ \E old, new \in NamedPaths : Rename(old, new) \/ RenameRollsBack(old, new)
    \/ \E path \in Paths, flags \in {"ro", "rw"} : Open(path, flags)
    \/ \E f \in Fds :
          \/ Close(f) \/ ReadNext(f)
          \/ \E pos \in 0 .. MaxPos : Seek(f, pos)
          \/ \E n \in 1 .. MaxWrite, v \in Written : Write(f, n, v)
          \/ \E length \in 0 .. Capacity : Truncate(f, length)

Spec == Init /\ [][Next]_vars

-----------------------------------------------------------------------------
(* Properties.                                                             *)

(* No block belongs to two places and no block in use is free: whatever    *)
(* programs unlink, truncate or write through stale descriptors, entries   *)
(* forged in a directory included, writing one file never changes another  *)
(* (fs_allocator_alloc_block, fs_allocator_free_block).                    *)
BlocksExclusive ==
    \A i, j \in Inodes, s, t \in Slots :
        blocks[i][s] # 0 =>
            /\ blocks[i][s] \notin free_map
            /\ blocks[i][s] = blocks[j][t] => i = j /\ s = t

(* The superblock's counters are the numbers of set bits, so the "if free  *)
(* > 0" of the allocators never hides a miscount, and the inode bitmap     *)
(* agrees with the inode types, whatever create_at had to undo.            *)
CountsExact ==
    /\ free_blocks = Cardinality(free_map)
    /\ free_inodes = Cardinality(inode_map)
    /\ inode_map = {i \in Inodes : node_type[i] = "free"}

(* Careful programs: every file and directory has exactly one path, so     *)
(* none is lost by a rename, a failed create or the removal of a directory *)
(* that still had entries, and none is reachable twice.                    *)
OnePath ==
    \A i \in Inodes :
        Cardinality({path \in Paths : resolve(path) = i}) =
            IF node_type[i] = "free" THEN 0 ELSE 1

(* Careful programs: the size of a directory, which rmdir tests, is the    *)
(* number of names that can be looked up in it.                            *)
SizeCountsEntries ==
    \A d \in Inodes : node_type[d] = "dir" =>
        size[d] = Cardinality({n \in Names : find_in(d, n) # NoInode})

(* Careful programs: a block is in use only as part of a file or directory  *)
(* that exists, in a file before its end, so a truncate gives back all that *)
(* it cuts off, also at the edge of a block and after a write that found no *)
(* more blocks, and everything comes back after the last unlink.            *)
NoLeak ==
    \A b \in Blocks \ free_map :
        \E i \in Inodes \ inode_map : \E s \in Slots :
            /\ blocks[i][s] = b
            /\ node_type[i] = "file" => s * CellsPerBlock < size[i]

Touches(path) ==
    \/ Mkdir(path) \/ OpenCreates(path) \/ Unlink(path) \/ Rmdir(path)
    \/ \E other \in NamedPaths : Rename(path, other) \/ Rename(other, path)

(* Careful programs: a call changes what a path names only if that path or *)
(* one it starts with is an argument of a call that succeeds; in           *)
(* particular a rename that finds no room leaves every name as it was, and *)
(* so do write and ftruncate.                                              *)
NamesFrame ==
    [][\A path \in Paths : resolve(path)' # resolve(path) =>
        \E p \in NamedPaths : IsPrefix(p, path) /\ Touches(p)]_vars

\* Cell k of a file, as read finds it.
CellAt(i, k) ==
    LET s == k \div CellsPerBlock
    IN  IF s \in Slots /\ blocks[i][s] # 0
        THEN content[blocks[i][s]][k % CellsPerBlock] ELSE Zero

(* Careful programs: a byte of a file changes only by a write through one  *)
(* of its descriptors that covers it, by a truncate below it or with the   *)
(* file; truncate keeps the part of the last block that is left, and no    *)
(* call on another file or directory reaches it.                           *)
FilesFrame ==
    [][\A i \in Inodes : node_type[i] = "file" =>
        \A k \in 0 .. size[i] - 1 : CellAt(i, k)' # CellAt(i, k) =>
            \/ node_type'[i] = "free"
            \/ \E f \in Fds : fds[f].valid /\ fds[f].inode = i /\
                 \/ \E n \in 1 .. MaxWrite, v \in Written :
                      Write(f, n, v) /\ k \in fds[f].pos .. fds'[f].pos - 1
                 \/ \E length \in 0 .. k : Truncate(f, length)]_vars
=============================================================================
