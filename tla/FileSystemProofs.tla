--------------------------- MODULE FileSystemProofs ---------------------------
(***************************************************************************)
(* Theorems about the file system, for images, directories and tables of   *)
(* any size.  For programs that are not careful: blocks have one owner and *)
(* the counters of the superblock are exact.  For careful programs         *)
(* (CarefulNames, CarefulFds): the directories form a tree, so no block    *)
(* leaks, the sizes of directories count their names, everything has       *)
(* exactly one path, and a call changes no name and no byte but the ones   *)
(* it is given.                                                            *)
(***************************************************************************)
EXTENDS FileSystem, FiniteSetTheorems, NaturalsInduction, WellFoundedInduction,
        SequenceTheorems, TLAPS

\* BlocksExclusive of other inodes and another bitmap than the current ones.
Exclusive(bl, fm) ==
    \A i, j \in Inodes, s, t \in Slots :
        bl[i][s] # 0 =>
            /\ bl[i][s] \notin fm
            /\ bl[i][s] = bl[j][t] => i = j /\ s = t

InodeBlocksType == [Inodes -> [Slots -> Blocks \cup {0}]]

DiskTypeOK ==
    /\ node_type \in [Inodes -> {"free", "file", "dir"}]
    /\ size \in [Inodes -> Nat]
    /\ blocks \in InodeBlocksType
    /\ free_map \subseteq Blocks
    /\ free_blocks \in Nat
    /\ inode_map \subseteq Inodes
    /\ free_inodes \in Nat
    /\ content \in [Blocks -> [Cells -> CellValues]]

FdsType == [Fds -> [valid : BOOLEAN, inode : Inodes, flags : {"ro", "rw"}, pos : Nat]]

LEMMA TypeSplit == TypeOK <=> DiskTypeOK /\ fds \in FdsType
BY DEF TypeOK, DiskTypeOK, FdsType, InodeBlocksType

LEMMA ExclusiveNow == BlocksExclusive <=> Exclusive(blocks, free_map)
BY DEF BlocksExclusive, Exclusive

(* The sets of the model are what the arithmetic needs. *)
LEMMA Constants ==
    /\ Inodes \subseteq Nat /\ Root \in Inodes
    /\ Slots \subseteq Nat /\ 0 \in Slots
    /\ Blocks \subseteq Nat /\ 1 \in Blocks /\ 0 \notin Blocks
    /\ Cells \subseteq Nat /\ 0 \in Cells
    /\ IsFiniteSet(Inodes) /\ IsFiniteSet(Slots) /\ IsFiniteSet(Blocks)
    /\ Cardinality(Inodes) = NInodes /\ Cardinality(Blocks) = NBlocks
<1>1. IsFiniteSet(Inodes) /\ Cardinality(Inodes) = NInodes
  <2>1. 0 \in Int /\ NInodes - 1 \in Int /\ ~(0 > NInodes - 1)
    BY FileSystemAssumption
  <2> QED BY <2>1, FS_Interval, FileSystemAssumption DEF Inodes
<1>2. IsFiniteSet(Blocks) /\ Cardinality(Blocks) = NBlocks
  <2>1. 1 \in Int /\ NBlocks \in Int /\ ~(1 > NBlocks)
    BY FileSystemAssumption
  <2> QED BY <2>1, FS_Interval, FileSystemAssumption DEF Blocks
<1>3. IsFiniteSet(Slots)
  <2>1. 0 \in Int /\ InodeBlocks - 1 \in Int
    BY FileSystemAssumption
  <2> QED BY <2>1, FS_Interval DEF Slots
<1>4. /\ Inodes \subseteq Nat /\ Root \in Inodes
      /\ Slots \subseteq Nat /\ 0 \in Slots
      /\ Blocks \subseteq Nat /\ 1 \in Blocks /\ 0 \notin Blocks
      /\ Cells \subseteq Nat /\ 0 \in Cells
  BY FileSystemAssumption DEF Inodes, Root, Slots, Blocks, Cells
<1> QED BY <1>1, <1>2, <1>3, <1>4

(* The cells that calls write are cell values. *)
LEMMA CellTypes ==
    /\ Zero \in CellValues /\ Data \in CellValues
    /\ ZeroBlock \in [Cells -> CellValues]
    /\ \A path \in NamedPaths, i \in Inodes : Entry(Last(path), i) \in CellValues
<1>1. Zero \in CellValues /\ Data \in CellValues
  BY DEF CellValues
<1>2. ZeroBlock \in [Cells -> CellValues]
  BY <1>1 DEF ZeroBlock
<1>3. ASSUME NEW path \in NamedPaths, NEW i \in Inodes
      PROVE  Entry(Last(path), i) \in CellValues
  <2>1. PICK k \in 0 .. MaxDepth : path \in [1 .. k -> Names]
    BY DEF NamedPaths, Paths
  <2>2. k # 0
    <3> SUFFICES ASSUME k = 0 PROVE FALSE
      OBVIOUS
    <3>1. path = <<>>
      BY <2>1
    <3> QED BY <3>1 DEF NamedPaths
  <2>3. Len(path) = k /\ k \in 1 .. k
    BY <2>1, <2>2, FileSystemAssumption
  <2>4. Last(path) \in Names
    BY <2>1, <2>3 DEF Last
  <2> QED BY <2>4 DEF CellValues, Entries
<1> QED BY <1>1, <1>2, <1>3

-----------------------------------------------------------------------------
(* add_entry.                                                              *)

(* It keeps the types, the exclusive ownership and the count of free       *)
(* blocks.                                                                 *)
LEMMA AddEntryStep ==
    ASSUME NEW bl \in InodeBlocksType, NEW sz \in [Inodes -> Nat],
           NEW cn \in [Blocks -> [Cells -> CellValues]],
           NEW d \in Inodes, NEW e \in CellValues,
           DiskTypeOK, Exclusive(bl, free_map),
           free_blocks = Cardinality(free_map),
           AddEntry(bl, sz, cn, d, e)
    PROVE  /\ size' \in [Inodes -> Nat]
           /\ blocks' \in InodeBlocksType
           /\ free_map' \subseteq Blocks
           /\ free_blocks' \in Nat
           /\ content' \in [Blocks -> [Cells -> CellValues]]
           /\ Exclusive(blocks', free_map')
           /\ free_blocks' = Cardinality(free_map')
<1>1. PICK s \in Slots :
        /\ \/ /\ bl[d][s] # 0
              /\ \E c \in Cells : content' = [cn EXCEPT ![bl[d][s]][c] = e]
              /\ blocks' = bl
              /\ UNCHANGED <<free_map, free_blocks>>
           \/ /\ bl[d][s] = 0
              /\ \E b \in free_map :
                    /\ content' = [cn EXCEPT ![b] = [ZeroBlock EXCEPT ![0] = e]]
                    /\ blocks' = [bl EXCEPT ![d][s] = b]
                    /\ free_map' = free_map \ {b}
              /\ free_blocks' = Decrement(free_blocks)
        /\ size' = [sz EXCEPT ![d] = @ + 1]
  BY DEF AddEntry
<1>2. size' \in [Inodes -> Nat]
  BY <1>1
<1>3. free_map \subseteq Blocks /\ free_blocks \in Nat /\ IsFiniteSet(free_map)
  BY Constants, FS_Subset DEF DiskTypeOK
<1>4. CASE bl[d][s] # 0
  <2>1. PICK c \in Cells : content' = [cn EXCEPT ![bl[d][s]][c] = e]
    BY <1>1, <1>4
  <2>2. bl[d][s] \in Blocks
    BY <1>4 DEF InodeBlocksType
  <2>3. [cn[bl[d][s]] EXCEPT ![c] = e] \in [Cells -> CellValues]
    BY <2>2
  <2>4. content' \in [Blocks -> [Cells -> CellValues]]
    BY <2>1, <2>2, <2>3
  <2> QED BY <1>1, <1>2, <1>3, <1>4, <2>4
<1>5. CASE bl[d][s] = 0
  <2>1. PICK b \in free_map :
          /\ content' = [cn EXCEPT ![b] = [ZeroBlock EXCEPT ![0] = e]]
          /\ blocks' = [bl EXCEPT ![d][s] = b]
          /\ free_map' = free_map \ {b}
    BY <1>1, <1>5
  <2>2. content' \in [Blocks -> [Cells -> CellValues]]
    BY <2>1, CellTypes, Constants
  <2>3. b \in Blocks /\ b # 0
    BY <1>3, Constants
  <2>4. blocks' \in InodeBlocksType
    BY <2>1, <2>3 DEF InodeBlocksType
  <2>5. \A i \in Inodes, t \in Slots :
          blocks'[i][t] = IF i = d /\ t = s THEN b ELSE bl[i][t]
    BY <2>1 DEF InodeBlocksType
  <2>6. Exclusive(blocks', free_map')
    BY <2>1, <2>3, <2>5 DEF Exclusive
  <2>7. Cardinality(free_map') = Cardinality(free_map) - 1
    BY <1>3, <2>1, FS_RemoveElement
  <2>8. Cardinality(free_map) # 0
    BY <1>3, FS_EmptySet
  <2>9. free_blocks' = Cardinality(free_map') /\ free_blocks' \in Nat
    BY <1>1, <1>3, <1>5, <2>7, <2>8 DEF Decrement
  <2> QED BY <1>2, <1>3, <2>1, <2>2, <2>4, <2>6, <2>9
<1> QED BY <1>4, <1>5

-----------------------------------------------------------------------------
(* Freeing and taking blocks.                                              *)

(* The image of a set under an injective function has its size. *)
LEMMA ImageSize ==
    ASSUME NEW S, IsFiniteSet(S), NEW T, NEW f \in [S -> T],
           \A x, y \in S : f[x] = f[y] => x = y
    PROVE  /\ IsFiniteSet({f[x] : x \in S})
           /\ Cardinality({f[x] : x \in S}) = Cardinality(S)
<1> DEFINE I == {f[x] : x \in S}
<1>1. f \in Bijection(S, I)
  BY DEF Bijection, Injection, Surjection, IsInjective
<1>2. ExistsBijection(S, I)
  BY <1>1 DEF ExistsBijection
<1> QED BY <1>2, FS_Bijection

(* Freed blocks were owned once, so each adds one to the free ones. *)
LEMMA FreeSlotsStep ==
    ASSUME DiskTypeOK, BlocksExclusive, free_blocks = Cardinality(free_map),
           NEW i \in Inodes, NEW first, FreeSlots(i, UsedFrom(i, first))
    PROVE  /\ blocks' \in InodeBlocksType
           /\ free_map' \subseteq Blocks
           /\ free_blocks' \in Nat
           /\ Exclusive(blocks', free_map')
           /\ free_blocks' = Cardinality(free_map')
<1> DEFINE S == UsedFrom(i, first)
           f == [s \in S |-> blocks[i][s]]
           T == {f[s] : s \in S}
<1>1. S \subseteq Slots /\ \A s \in S : blocks[i][s] # 0
  BY DEF UsedFrom
<1>2. /\ free_map' = free_map \cup T
      /\ free_blocks' = free_blocks + Cardinality(S)
      /\ blocks' = [blocks EXCEPT ![i] =
                     [s \in Slots |-> IF s \in S THEN 0 ELSE blocks[i][s]]]
  BY DEF FreeSlots
<1>3. IsFiniteSet(S) /\ IsFiniteSet(free_map)
  BY <1>1, Constants, FS_Subset DEF DiskTypeOK
<1>4. f \in [S -> Blocks] /\ \A s \in S : f[s] = blocks[i][s] /\ f[s] \notin free_map
  BY <1>1 DEF DiskTypeOK, InodeBlocksType, BlocksExclusive
<1>5. \A s, t \in S : f[s] = f[t] => s = t
  BY <1>1, <1>4 DEF BlocksExclusive
<1> HIDE DEF S, f
<1>6. IsFiniteSet(T) /\ Cardinality(T) = Cardinality(S)
  BY <1>3, <1>4, <1>5, ImageSize
<1>7. T \cap free_map = {} /\ T \subseteq Blocks
  BY <1>4
<1>8. Cardinality(free_map') = Cardinality(free_map) + Cardinality(S)
  <2>1. Cardinality(free_map \cup T) =
          Cardinality(free_map) + Cardinality(T) - Cardinality(free_map \cap T)
    BY <1>3, <1>6, FS_Union
  <2>2. Cardinality(free_map \cap T) = 0
    BY <1>7, FS_EmptySet
  <2>3. Cardinality(free_map) \in Nat /\ Cardinality(T) \in Nat
    BY <1>3, <1>6, FS_CardinalityType
  <2> QED BY <1>2, <1>6, <2>1, <2>2, <2>3
<1>9. Cardinality(S) \in Nat /\ free_blocks \in Nat
  BY <1>3, FS_CardinalityType DEF DiskTypeOK
<1>10. free_blocks' = Cardinality(free_map') /\ free_blocks' \in Nat
  BY <1>2, <1>8, <1>9
<1>11. blocks' \in InodeBlocksType
  BY <1>2 DEF DiskTypeOK, InodeBlocksType
<1>12. \A j \in Inodes, t \in Slots :
         blocks'[j][t] = IF j = i /\ t \in S THEN 0 ELSE blocks[j][t]
  BY <1>2 DEF DiskTypeOK, InodeBlocksType
<1>13. \A j \in Inodes, t \in Slots :
         blocks'[j][t] # 0 => blocks'[j][t] = blocks[j][t] /\ blocks[j][t] \notin T
  <2> SUFFICES ASSUME NEW j \in Inodes, NEW t \in Slots, blocks'[j][t] # 0
               PROVE  blocks'[j][t] = blocks[j][t] /\ blocks[j][t] \notin T
    OBVIOUS
  <2>1. blocks'[j][t] = blocks[j][t] /\ ~(j = i /\ t \in S)
    BY <1>12
  <2>2. \A s \in S : blocks[j][t] # blocks[i][s]
    BY <1>1, <2>1 DEF BlocksExclusive
  <2> QED BY <1>4, <2>1, <2>2
<1>14. Exclusive(blocks', free_map')
  BY <1>2, <1>12, <1>13 DEF Exclusive, BlocksExclusive
<1>15. free_map' \subseteq Blocks
  BY <1>2, <1>7 DEF DiskTypeOK
<1> QED BY <1>10, <1>11, <1>14, <1>15

-----------------------------------------------------------------------------
(* One lemma for each kind of call.  FsInvariant is the inductive          *)
(* invariant.                                                              *)

FsInvariant == TypeOK /\ BlocksExclusive /\ CountsExact

Counted ==
    /\ free_inodes = Cardinality(inode_map)
    /\ inode_map = {i \in Inodes : node_type[i] = "free"}

(* A path names inodes only. *)
LEMMA NamedInodes ==
    \A path : Named(path) \subseteq Inodes /\ Parent(path) \subseteq Inodes
BY DEF Named, Parent

(* The parts of the invariant, and how they come back together. *)
LEMMA Parts ==
    FsInvariant <=> /\ DiskTypeOK /\ fds \in FdsType
                    /\ Exclusive(blocks, free_map)
                    /\ free_blocks = Cardinality(free_map)
                    /\ Counted
BY TypeSplit, ExclusiveNow DEF FsInvariant, CountsExact, Counted

LEMMA Together ==
    ASSUME DiskTypeOK', fds' \in FdsType, Exclusive(blocks', free_map'),
           free_blocks' = Cardinality(free_map'), Counted'
    PROVE  FsInvariant'
BY DEF FsInvariant, TypeOK, DiskTypeOK, FdsType, InodeBlocksType,
       BlocksExclusive, Exclusive, CountsExact, Counted

(* Taking the inode i and giving it back. *)
LEMMA InodeCounts ==
    ASSUME FsInvariant, NEW i \in Inodes
    PROVE  /\ i \in inode_map =>
                /\ Cardinality(inode_map \ {i}) = Decrement(free_inodes)
                /\ Decrement(free_inodes) + 1 = free_inodes
           /\ i \notin inode_map => Cardinality(inode_map \cup {i}) = free_inodes + 1
           /\ Decrement(free_inodes) \in Nat
<1>1. inode_map \subseteq Inodes /\ free_inodes \in Nat /\ free_inodes = Cardinality(inode_map)
  BY DEF FsInvariant, TypeOK, CountsExact
<1>2. IsFiniteSet(inode_map)
  BY <1>1, Constants, FS_Subset
<1>3. Decrement(free_inodes) \in Nat
  BY <1>1 DEF Decrement
<1>4. CASE i \in inode_map
  <2>1. Cardinality(inode_map) # 0
    BY <1>2, <1>4, FS_EmptySet
  <2>2. Cardinality(inode_map \ {i}) = Cardinality(inode_map) - 1
    BY <1>2, <1>4, FS_RemoveElement
  <2>3. free_inodes > 0
    BY <1>1, <2>1
  <2> QED BY <1>1, <1>3, <1>4, <2>2, <2>3 DEF Decrement
<1>5. CASE i \notin inode_map
  <2>1. Cardinality(inode_map \cup {i}) = Cardinality(inode_map) + 1
    BY <1>2, <1>5, FS_AddElement
  <2> QED BY <1>1, <1>3, <1>5, <2>1
<1> QED BY <1>4, <1>5

(* Clearing the block pointers of an inode keeps the rest exclusive. *)
LEMMA ClearedExclusive ==
    ASSUME FsInvariant, NEW i \in Inodes
    PROVE  LET bl == [blocks EXCEPT ![i] = NoBlocks]
           IN  bl \in InodeBlocksType /\ Exclusive(bl, free_map)
<1> DEFINE bl == [blocks EXCEPT ![i] = NoBlocks]
<1>1. blocks \in InodeBlocksType /\ Exclusive(blocks, free_map)
  BY Parts DEF DiskTypeOK
<1>2. NoBlocks \in [Slots -> Blocks \cup {0}] /\ \A s \in Slots : NoBlocks[s] = 0
  BY DEF NoBlocks
<1>3. bl \in InodeBlocksType
  BY <1>1, <1>2 DEF InodeBlocksType
<1>4. \A j \in Inodes, t \in Slots : bl[j][t] = IF j = i THEN 0 ELSE blocks[j][t]
  BY <1>1, <1>2 DEF InodeBlocksType
<1> HIDE DEF bl
<1>5. Exclusive(bl, free_map)
  BY <1>1, <1>4 DEF Exclusive
<1> QED BY <1>3, <1>5 DEF bl

(* create_at that succeeds. *)
LEMMA CreateStep ==
    ASSUME FsInvariant, NEW path \in NamedPaths, NEW type \in {"file", "dir"},
           NEW i \in inode_map, CreateAt(path, type, i), fds' \in FdsType
    PROVE  FsInvariant'
<1> DEFINE bl == [blocks EXCEPT ![i] = NoBlocks]
           sz == [size EXCEPT ![i] = 0]
<1>1. DiskTypeOK /\ Counted /\ free_blocks = Cardinality(free_map)
  BY Parts
<1>2. i \in Inodes
  BY <1>1 DEF DiskTypeOK
<1>3. PICK d \in Inodes :
        /\ AddEntry(bl, sz, content, d, Entry(Last(path), i))
        /\ node_type' = [node_type EXCEPT ![i] = type]
        /\ inode_map' = inode_map \ {i}
        /\ free_inodes' = Decrement(free_inodes)
  BY NamedInodes DEF CreateAt
<1>4. bl \in InodeBlocksType /\ Exclusive(bl, free_map)
  BY <1>2, ClearedExclusive
<1>5. sz \in [Inodes -> Nat] /\ content \in [Blocks -> [Cells -> CellValues]]
  BY <1>1 DEF DiskTypeOK
<1>6. Entry(Last(path), i) \in CellValues
  BY <1>2, CellTypes
<1> HIDE DEF bl, sz
<1>7. /\ size' \in [Inodes -> Nat]
      /\ blocks' \in InodeBlocksType
      /\ free_map' \subseteq Blocks
      /\ free_blocks' \in Nat
      /\ content' \in [Blocks -> [Cells -> CellValues]]
      /\ Exclusive(blocks', free_map')
      /\ free_blocks' = Cardinality(free_map')
  BY <1>1, <1>3, <1>4, <1>5, <1>6, AddEntryStep
<1>8. node_type' \in [Inodes -> {"free", "file", "dir"}]
  BY <1>1, <1>3 DEF DiskTypeOK
<1>9. free_inodes' = Cardinality(inode_map') /\ free_inodes' \in Nat
  BY <1>2, <1>3, InodeCounts
<1>10. inode_map' = {j \in Inodes : node_type'[j] = "free"}
  BY <1>1, <1>3 DEF Counted, DiskTypeOK
<1>11. DiskTypeOK' /\ Counted'
  BY <1>7, <1>8, <1>9, <1>10 DEF DiskTypeOK, Counted
<1> QED BY <1>7, <1>11, Together

(* create_at that finds no room. *)
LEMMA CreateFailsStep ==
    ASSUME FsInvariant, NEW path, CreateFails(path)
    PROVE  FsInvariant'
<1>1. DiskTypeOK /\ Counted /\ free_blocks = Cardinality(free_map) /\ fds \in FdsType
  BY Parts
<1>2. PICK i \in inode_map :
        /\ blocks' = [blocks EXCEPT ![i] = NoBlocks]
        /\ size' = [size EXCEPT ![i] = 0]
        /\ node_type' = [node_type EXCEPT ![i] = "free"]
        /\ free_inodes' = Decrement(free_inodes) + 1
        /\ UNCHANGED <<free_map, free_blocks, inode_map, content, fds>>
  BY DEF CreateFails
<1>3. i \in Inodes
  BY <1>1 DEF DiskTypeOK
<1>4. blocks' \in InodeBlocksType /\ Exclusive(blocks', free_map')
  BY <1>2, <1>3, ClearedExclusive
<1>5. free_inodes' = free_inodes
  BY <1>2, <1>3, InodeCounts
<1>6. node_type' = node_type
  BY <1>1, <1>2 DEF Counted, DiskTypeOK
<1>7. DiskTypeOK' /\ Counted'
  BY <1>1, <1>2, <1>4, <1>5, <1>6 DEF DiskTypeOK, Counted
<1> QED BY <1>1, <1>2, <1>4, <1>7, Together

(* An entry leaves a directory. *)
LEMMA RemovedType ==
    ASSUME DiskTypeOK, NEW d \in Inodes, NEW n
    PROVE  /\ Removed(d, n) \in [Blocks -> [Cells -> CellValues]]
           /\ LeftBehind(d) \in [Inodes -> Nat]
<1>1. content \in [Blocks -> [Cells -> CellValues]] /\ size \in [Inodes -> Nat]
  BY DEF DiskTypeOK
<1>2. LeftBehind(d) \in [Inodes -> Nat]
  BY <1>1 DEF LeftBehind, Decrement
<1> DEFINE b == blocks[d][First(Matches(d, n))[1]]
           c == First(Matches(d, n))[2]
<1>3. Removed(d, n) = [content EXCEPT ![b][c] = Zero]
  BY DEF Removed
<1> HIDE DEF b, c
<1>4. Zero \in CellValues
  BY CellTypes
<1>5. [content[b] EXCEPT ![c] = Zero] \in [Cells -> CellValues] \/ b \notin Blocks
  BY <1>1, <1>4
<1>6. Removed(d, n) \in [Blocks -> [Cells -> CellValues]]
  BY <1>1, <1>3, <1>5
<1> QED BY <1>2, <1>6

(* unlink and rmdir. *)
LEMMA ReleaseStep ==
    ASSUME FsInvariant, NEW path, NEW i \in Inodes, node_type[i] # "free",
           Release(path, i)
    PROVE  FsInvariant'
<1>1. DiskTypeOK /\ Counted /\ BlocksExclusive /\ free_blocks = Cardinality(free_map)
      /\ fds \in FdsType
  BY Parts, ExclusiveNow
<1>2. PICK d \in Inodes :
        /\ RemoveEntry(d, Last(path))
        /\ FreeSlots(i, UsedFrom(i, 0))
        /\ FreeInode(i)
        /\ UNCHANGED fds
  BY NamedInodes DEF Release
<1>3. content' \in [Blocks -> [Cells -> CellValues]] /\ size' \in [Inodes -> Nat]
  BY <1>1, <1>2, RemovedType DEF RemoveEntry
<1>4. /\ blocks' \in InodeBlocksType
      /\ free_map' \subseteq Blocks
      /\ free_blocks' \in Nat
      /\ Exclusive(blocks', free_map')
      /\ free_blocks' = Cardinality(free_map')
  BY <1>1, <1>2, FreeSlotsStep
<1>5. i \notin inode_map
  BY <1>1 DEF Counted
<1>6. /\ node_type' = [node_type EXCEPT ![i] = "free"]
      /\ inode_map' = inode_map \cup {i}
      /\ free_inodes' = free_inodes + 1
  BY <1>2 DEF FreeInode
<1>7. free_inodes' = Cardinality(inode_map')
  BY <1>5, <1>6, InodeCounts
<1>8. node_type' \in [Inodes -> {"free", "file", "dir"}]
  BY <1>1, <1>6 DEF DiskTypeOK
<1>9. inode_map' \subseteq Inodes /\ free_inodes' \in Nat
  BY <1>1, <1>6 DEF DiskTypeOK
<1>10. inode_map' = {j \in Inodes : node_type'[j] = "free"}
  BY <1>1, <1>6 DEF DiskTypeOK, Counted
<1>11. DiskTypeOK' /\ Counted'
  BY <1>3, <1>4, <1>7, <1>8, <1>9, <1>10 DEF DiskTypeOK, Counted
<1> QED BY <1>1, <1>2, <1>4, <1>11, Together

(* Both outcomes of rename: an entry moves to some directory p. *)
LEMMA RenameStep ==
    ASSUME FsInvariant, NEW d \in Inodes, NEW n, NEW p \in Inodes,
           NEW e \in CellValues,
           AddEntry(blocks, LeftBehind(d), Removed(d, n), p, e),
           UNCHANGED <<node_type, inode_map, free_inodes, fds>>
    PROVE  FsInvariant'
<1>1. /\ DiskTypeOK /\ Counted /\ Exclusive(blocks, free_map)
      /\ free_blocks = Cardinality(free_map) /\ fds \in FdsType
  BY Parts
<1>2. blocks \in InodeBlocksType
  BY <1>1 DEF DiskTypeOK
<1>3. /\ size' \in [Inodes -> Nat]
      /\ blocks' \in InodeBlocksType
      /\ free_map' \subseteq Blocks
      /\ free_blocks' \in Nat
      /\ content' \in [Blocks -> [Cells -> CellValues]]
      /\ Exclusive(blocks', free_map')
      /\ free_blocks' = Cardinality(free_map')
  BY <1>1, <1>2, RemovedType, AddEntryStep
<1>4. DiskTypeOK' /\ Counted'
  BY <1>1, <1>3 DEF DiskTypeOK, Counted
<1> QED BY <1>1, <1>3, <1>4, Together

(* open takes a slot for an inode. *)
LEMMA TakeSlotStep ==
    ASSUME fds \in FdsType, NEW i \in Inodes, NEW flags \in {"ro", "rw"},
           TakeSlot(i, flags)
    PROVE  fds' \in FdsType
<1>1. CASE UNCHANGED fds
  BY <1>1
<1>2. ASSUME NEW f \in Fds,
             fds' = [fds EXCEPT ![f] = [valid |-> TRUE, inode |-> i,
                                        flags |-> flags, pos |-> 0]]
      PROVE  fds' \in FdsType
  <2>1. [valid |-> TRUE, inode |-> i, flags |-> flags, pos |-> 0]
          \in [valid : BOOLEAN, inode : Inodes, flags : {"ro", "rw"}, pos : Nat]
    OBVIOUS
  <2> QED BY <1>2, <2>1 DEF FdsType
<1> QED BY <1>1, <1>2 DEF TakeSlot

(* The disk stays as it is. *)
LEMMA DiskUnchanged ==
    ASSUME FsInvariant, UNCHANGED diskVars, fds' \in FdsType
    PROVE  FsInvariant'
<1>1. /\ DiskTypeOK /\ Counted /\ Exclusive(blocks, free_map)
      /\ free_blocks = Cardinality(free_map)
  BY Parts
<1> QED BY <1>1, Together DEF diskVars, DiskTypeOK, Counted

(* ftruncate. *)
LEMMA TruncateStep ==
    ASSUME FsInvariant, NEW f \in Fds, NEW length \in Nat, Truncate(f, length)
    PROVE  FsInvariant'
<1>1. /\ DiskTypeOK /\ Counted /\ BlocksExclusive
      /\ free_blocks = Cardinality(free_map) /\ fds \in FdsType
  BY Parts, ExclusiveNow
<1>2. fds[f].inode \in Inodes
  BY <1>1 DEF FdsType
<1>3. /\ FreeSlots(fds[f].inode, UsedFrom(fds[f].inode, Keep(length)))
      /\ size' = [size EXCEPT ![fds[f].inode] = length]
      /\ UNCHANGED <<node_type, inode_map, free_inodes, content, fds>>
  BY DEF Truncate
<1>4. /\ blocks' \in InodeBlocksType
      /\ free_map' \subseteq Blocks
      /\ free_blocks' \in Nat
      /\ Exclusive(blocks', free_map')
      /\ free_blocks' = Cardinality(free_map')
  BY <1>1, <1>2, <1>3, FreeSlotsStep
<1>5. size' \in [Inodes -> Nat]
  BY <1>1, <1>3 DEF DiskTypeOK
<1>6. DiskTypeOK' /\ Counted'
  BY <1>1, <1>3, <1>4, <1>5 DEF DiskTypeOK, Counted
<1> QED BY <1>1, <1>3, <1>4, <1>6, Together

(* Blocks taken from the free ones for slots that had none. *)
LEMMA TakenStep ==
    ASSUME FsInvariant, NEW i \in Inodes, NEW S \in SUBSET Slots,
           \A s \in S : blocks[i][s] = 0,
           NEW got \in [S -> free_map],
           \A s, t \in S : s < t => got[s] < got[t],
           blocks' = [blocks EXCEPT ![i] =
                        [s \in Slots |-> IF s \in S THEN got[s] ELSE blocks[i][s]]],
           free_map' = free_map \ {got[s] : s \in S},
           free_blocks' = IF free_blocks > Cardinality(S)
                          THEN free_blocks - Cardinality(S) ELSE 0
    PROVE  /\ blocks' \in InodeBlocksType
           /\ free_map' \subseteq Blocks
           /\ free_blocks' \in Nat
           /\ Exclusive(blocks', free_map')
           /\ free_blocks' = Cardinality(free_map')
<1> DEFINE T == {got[s] : s \in S}
<1>1. /\ DiskTypeOK /\ Exclusive(blocks, free_map)
      /\ free_blocks = Cardinality(free_map)
  BY Parts
<1>2. IsFiniteSet(S) /\ IsFiniteSet(free_map) /\ free_map \subseteq Blocks
  BY <1>1, Constants, FS_Subset DEF DiskTypeOK
<1>3. \A s, t \in S : got[s] = got[t] => s = t
  <2> SUFFICES ASSUME NEW s \in S, NEW t \in S, s # t PROVE got[s] # got[t]
    OBVIOUS
  <2>1. s \in Nat /\ t \in Nat /\ got[s] \in Nat /\ got[t] \in Nat
    BY <1>2, Constants
  <2>2. s < t \/ t < s
    BY <2>1
  <2>3. got[s] < got[t] \/ got[t] < got[s]
    BY <2>2
  <2> QED BY <2>1, <2>3
<1>4. IsFiniteSet(T) /\ Cardinality(T) = Cardinality(S)
  <2>1. got \in Bijection(S, T)
    <3>1. got \in [S -> T] /\ \A t \in T : \E s \in S : got[s] = t
      OBVIOUS
    <3> HIDE DEF T
    <3> QED BY ONLY <1>3, <3>1 DEF Bijection, Injection, Surjection, IsInjective
  <2> HIDE DEF T
  <2>2. ExistsBijection(S, T)
    BY ONLY <2>1 DEF ExistsBijection
  <2> QED BY ONLY <1>2, <2>2, FS_Bijection
<1>5. T \subseteq free_map
  OBVIOUS
<1>6. Cardinality(free_map') = Cardinality(free_map) - Cardinality(S)
  <2>1. Cardinality(free_map \ T) = Cardinality(free_map) - Cardinality(free_map \cap T)
    BY <1>2, FS_Difference
  <2>2. free_map \cap T = T
    BY <1>5
  <2> QED BY <1>4, <2>1, <2>2
<1>7. Cardinality(S) <= Cardinality(free_map) /\ Cardinality(S) \in Nat
      /\ Cardinality(free_map) \in Nat
  BY <1>2, <1>4, <1>5, FS_Subset, FS_CardinalityType
<1>8. free_blocks' = Cardinality(free_map') /\ free_blocks' \in Nat
  BY <1>1, <1>6, <1>7
<1>9. \A s \in S : got[s] \in Blocks /\ got[s] # 0
  BY <1>2, Constants
<1>10. blocks' \in InodeBlocksType
  BY <1>1, <1>9 DEF DiskTypeOK, InodeBlocksType
<1>11. \A j \in Inodes, t \in Slots :
         blocks'[j][t] = IF j = i /\ t \in S THEN got[t] ELSE blocks[j][t]
  BY <1>1 DEF DiskTypeOK, InodeBlocksType
<1>12. \A j \in Inodes, t \in Slots, s \in S :
         blocks[j][t] # 0 => blocks[j][t] # got[s]
  BY <1>1 DEF Exclusive
<1>13. Exclusive(blocks', free_map')
  <2> SUFFICES ASSUME NEW j \in Inodes, NEW k \in Inodes, NEW s \in Slots,
                      NEW t \in Slots, blocks'[j][s] # 0
               PROVE  /\ blocks'[j][s] \notin free_map'
                      /\ blocks'[j][s] = blocks'[k][t] => j = k /\ s = t
    BY DEF Exclusive
  <2>1. CASE j = i /\ s \in S
    BY <1>3, <1>9, <1>11, <1>12, <2>1
  <2>2. CASE ~(j = i /\ s \in S)
    BY <1>1, <1>11, <1>12, <2>2 DEF Exclusive
  <2> QED BY <2>1, <2>2
<1> QED BY <1>2, <1>8, <1>10, <1>13

(* write. *)
LEMMA WriteStep ==
    ASSUME FsInvariant, NEW f \in Fds, NEW n \in Nat, NEW v \in CellValues,
           Write(f, n, v)
    PROVE  FsInvariant'
<1> DEFINE i == fds[f].inode
           off == fds[f].pos
           missing == Missing(i, off, off + n)
           served == {s \in missing :
                        Cardinality({t \in missing : t < s}) < Cardinality(free_map)}
           ends == {InodeBlocks} \cup (missing \ served)
<1>1. DiskTypeOK /\ Counted /\ fds \in FdsType
  BY Parts
<1>2. i \in Inodes /\ off \in Nat
  BY <1>1 DEF FdsType
<1>3. missing \subseteq Slots /\ served \subseteq missing
      /\ \A s \in missing : blocks[i][s] = 0
  BY DEF Missing
<1>4. served \in SUBSET Slots /\ ends \subseteq Nat /\ \A s \in served : blocks[i][s] = 0
  BY <1>3, Constants, FileSystemAssumption
<1>5. /\ \E stop \in ends, got \in [served -> free_map] :
            LET room == stop * CellsPerBlock - off
                done == IF room < 0 THEN 0 ELSE IF n > room THEN room ELSE n
                taken == {got[s] : s \in served}
                bl == [s \in Slots |-> IF s \in served THEN got[s] ELSE blocks[i][s]]
                written(b, c) == \E s \in Slots :
                    /\ bl[s] = b
                    /\ s * CellsPerBlock + c \in off .. off + done - 1
            IN  /\ \A s, t \in served : s < t => got[s] < got[t]
                /\ blocks' = [blocks EXCEPT ![i] = bl]
                /\ free_map' = free_map \ taken
                /\ content' = [b \in Blocks |-> [c \in Cells |->
                                 IF written(b, c) THEN v
                                 ELSE IF b \in taken THEN Zero
                                 ELSE content[b][c]]]
                /\ size' = IF off + done > size[i]
                           THEN [size EXCEPT ![i] = off + done] ELSE size
                /\ fds' = [fds EXCEPT ![f].pos = off + done]
      /\ free_blocks' = IF free_blocks > Cardinality(served)
                        THEN free_blocks - Cardinality(served) ELSE 0
      /\ UNCHANGED <<node_type, inode_map, free_inodes>>
  BY ZenonT(60) DEF Write
<1> HIDE DEF i, off, missing, served, ends
<1>6. PICK stop \in ends, got \in [served -> free_map] :
        LET room == stop * CellsPerBlock - off
            done == IF room < 0 THEN 0 ELSE IF n > room THEN room ELSE n
            taken == {got[s] : s \in served}
            bl == [s \in Slots |-> IF s \in served THEN got[s] ELSE blocks[i][s]]
            written(b, c) == \E s \in Slots :
                /\ bl[s] = b
                /\ s * CellsPerBlock + c \in off .. off + done - 1
        IN  /\ \A s, t \in served : s < t => got[s] < got[t]
            /\ blocks' = [blocks EXCEPT ![i] = bl]
            /\ free_map' = free_map \ taken
            /\ content' = [b \in Blocks |-> [c \in Cells |->
                             IF written(b, c) THEN v
                             ELSE IF b \in taken THEN Zero
                             ELSE content[b][c]]]
            /\ size' = IF off + done > size[i]
                       THEN [size EXCEPT ![i] = off + done] ELSE size
            /\ fds' = [fds EXCEPT ![f].pos = off + done]
  BY <1>5
<1> DEFINE room == stop * CellsPerBlock - off
           done == IF room < 0 THEN 0 ELSE IF n > room THEN room ELSE n
<1>7. off + done \in Nat
  BY <1>2, <1>4, FileSystemAssumption
<1>8. /\ blocks' \in InodeBlocksType
      /\ free_map' \subseteq Blocks
      /\ free_blocks' \in Nat
      /\ Exclusive(blocks', free_map')
      /\ free_blocks' = Cardinality(free_map')
  <2>1. /\ \A s, t \in served : s < t => got[s] < got[t]
        /\ blocks' = [blocks EXCEPT ![i] =
              [s \in Slots |-> IF s \in served THEN got[s] ELSE blocks[i][s]]]
        /\ free_map' = free_map \ {got[s] : s \in served}
    BY <1>6
  <2>2. free_blocks' = IF free_blocks > Cardinality(served)
                       THEN free_blocks - Cardinality(served) ELSE 0
    BY <1>5
  <2>3. got \in [served -> free_map] /\ FsInvariant
    BY <1>6
  <2> QED BY ONLY <1>2, <1>4, <2>1, <2>2, <2>3, TakenStep
<1>9. content' \in [Blocks -> [Cells -> CellValues]]
  BY <1>1, <1>6, CellTypes DEF DiskTypeOK
<1>10. /\ size' = IF off + done > size[i]
                  THEN [size EXCEPT ![i] = off + done] ELSE size
       /\ fds' = [fds EXCEPT ![f].pos = off + done]
  BY <1>6
<1> HIDE DEF room, done
<1>11. size' \in [Inodes -> Nat]
  BY <1>1, <1>2, <1>7, <1>10 DEF DiskTypeOK
<1>12. fds' \in FdsType
  BY <1>1, <1>7, <1>10 DEF FdsType
<1>13. DiskTypeOK' /\ Counted'
  BY <1>1, <1>5, <1>8, <1>9, <1>11 DEF DiskTypeOK, Counted
<1> QED BY <1>8, <1>12, <1>13, Together

-----------------------------------------------------------------------------
(* The image that is mounted satisfies the invariant. *)
LEMMA InitInvariant == Init => FsInvariant
<1> SUFFICES ASSUME Init PROVE FsInvariant
  OBVIOUS
<1>1. IsFiniteSet(Blocks) /\ Cardinality(Blocks) = NBlocks /\ 1 \in Blocks
      /\ IsFiniteSet(Inodes) /\ Cardinality(Inodes) = NInodes /\ Root \in Inodes
      /\ 0 \notin Blocks
  BY Constants
<1>2. free_blocks = Cardinality(free_map) /\ free_blocks \in Nat
  <2>1. Cardinality(Blocks \ {1}) = NBlocks - 1
    BY <1>1, FS_RemoveElement
  <2> QED BY <2>1, FileSystemAssumption DEF Init
<1>3. free_inodes = Cardinality(inode_map) /\ free_inodes \in Nat
  <2>1. Cardinality(Inodes \ {Root}) = NInodes - 1
    BY <1>1, FS_RemoveElement
  <2> QED BY <2>1, FileSystemAssumption DEF Init
<1>4. inode_map = {i \in Inodes : node_type[i] = "free"}
  BY DEF Init
<1>5. \A i \in Inodes, s \in Slots : blocks[i][s] = IF i = Root /\ s = 0 THEN 1 ELSE 0
  BY DEF Init
<1>6. Exclusive(blocks, free_map)
  BY <1>5 DEF Exclusive, Init
<1>7. fds \in FdsType
  <2>1. Closed \in [valid : BOOLEAN, inode : Inodes, flags : {"ro", "rw"}, pos : Nat]
    BY <1>1 DEF Closed, Root
  <2> QED BY <2>1 DEF Init, FdsType
<1>8. blocks \in InodeBlocksType
  BY <1>1 DEF Init, InodeBlocksType
<1>9. DiskTypeOK
  BY <1>2, <1>3, <1>8, CellTypes DEF Init, DiskTypeOK
<1> QED BY <1>2, <1>3, <1>4, <1>6, <1>7, <1>9, Parts DEF Counted

(* Every call keeps it. *)
LEMMA StepInvariant == FsInvariant /\ [Next]_vars => FsInvariant'
<1> SUFFICES ASSUME FsInvariant, [Next]_vars PROVE FsInvariant'
  OBVIOUS
<1>0. DiskTypeOK /\ fds \in FdsType
  BY Parts
<1>1. ASSUME NEW path \in NamedPaths, Mkdir(path) PROVE FsInvariant'
  BY <1>0, <1>1, CreateStep DEF Mkdir
<1>2. ASSUME NEW path \in NamedPaths, CreateFails(path) PROVE FsInvariant'
  BY <1>2, CreateFailsStep
<1>3. ASSUME NEW path \in NamedPaths, OpenCreates(path) PROVE FsInvariant'
  <2>1. PICK i \in inode_map : CreateAt(path, "file", i) /\ TakeSlot(i, "rw")
    BY <1>3 DEF OpenCreates
  <2>2. i \in Inodes
    BY <1>0 DEF DiskTypeOK
  <2>3. fds' \in FdsType
    BY <1>0, <2>1, <2>2, TakeSlotStep
  <2> QED BY <2>1, <2>3, CreateStep
<1>4. ASSUME NEW path \in NamedPaths, Unlink(path) PROVE FsInvariant'
  BY <1>4, NamedInodes, ReleaseStep DEF Unlink
<1>5. ASSUME NEW path \in NamedPaths, Rmdir(path) PROVE FsInvariant'
  BY <1>5, NamedInodes, ReleaseStep DEF Rmdir
<1>6. ASSUME NEW old \in NamedPaths, NEW new \in NamedPaths, Rename(old, new)
      PROVE FsInvariant'
  <2>1. PICK i \in Inodes, d \in Inodes, p \in Inodes :
          /\ AddEntry(blocks, LeftBehind(d), Removed(d, Last(old)), p,
                      Entry(Last(new), i))
          /\ UNCHANGED <<node_type, inode_map, free_inodes, fds>>
    BY <1>6, NamedInodes DEF Rename, RenameFrom
  <2>2. Entry(Last(new), i) \in CellValues
    BY CellTypes
  <2> QED BY <2>1, <2>2, RenameStep
<1>7. ASSUME NEW old \in NamedPaths, NEW new \in NamedPaths, RenameRollsBack(old, new)
      PROVE FsInvariant'
  <2>1. PICK i \in Inodes, d \in Inodes :
          /\ AddEntry(blocks, LeftBehind(d), Removed(d, Last(old)), d,
                      Entry(Last(old), i))
          /\ UNCHANGED <<node_type, inode_map, free_inodes, fds>>
    BY <1>7, NamedInodes DEF RenameRollsBack, RenameFrom
  <2>2. Entry(Last(old), i) \in CellValues
    BY CellTypes
  <2> QED BY <2>1, <2>2, RenameStep
<1>8. ASSUME NEW path \in Paths, NEW flags \in {"ro", "rw"}, Open(path, flags)
      PROVE FsInvariant'
  <2>1. PICK i \in Inodes : TakeSlot(i, flags) /\ UNCHANGED diskVars
    BY <1>8, NamedInodes DEF Open
  <2>2. fds' \in FdsType
    BY <1>0, <2>1, TakeSlotStep
  <2> QED BY <2>1, <2>2, DiskUnchanged
<1>9. ASSUME NEW f \in Fds, Close(f) PROVE FsInvariant'
  <2>1. Closed \in [valid : BOOLEAN, inode : Inodes, flags : {"ro", "rw"}, pos : Nat]
    BY Constants DEF Closed, Root
  <2>2. fds' \in FdsType
    BY <1>0, <1>9, <2>1 DEF Close, FdsType
  <2> QED BY <1>9, <2>2, DiskUnchanged DEF Close
<1>10. ASSUME NEW f \in Fds, ReadNext(f) PROVE FsInvariant'
  <2>1. fds' \in FdsType
    BY <1>0, <1>10 DEF ReadNext, FdsType
  <2> QED BY <1>10, <2>1, DiskUnchanged DEF ReadNext
<1>11. ASSUME NEW f \in Fds, NEW pos \in 0 .. MaxPos, Seek(f, pos) PROVE FsInvariant'
  <2>1. pos \in Nat
    BY FileSystemAssumption
  <2>2. fds' \in FdsType
    BY <1>0, <1>11, <2>1 DEF Seek, FdsType
  <2> QED BY <1>11, <2>2, DiskUnchanged DEF Seek
<1>12. ASSUME NEW f \in Fds, NEW n \in 1 .. MaxWrite, NEW v \in Written,
              Write(f, n, v)
       PROVE FsInvariant'
  <2>1. n \in Nat /\ v \in CellValues
    BY FileSystemAssumption DEF Written
  <2> QED BY <1>12, <2>1, WriteStep
<1>13. ASSUME NEW f \in Fds, NEW length \in 0 .. Capacity, Truncate(f, length)
       PROVE FsInvariant'
  <2>1. length \in Nat
    BY FileSystemAssumption DEF Capacity
  <2> QED BY <1>13, <2>1, TruncateStep
<1>14. CASE UNCHANGED vars
  BY <1>0, <1>14, DiskUnchanged DEF vars, diskVars
<1> QED BY <1>1, <1>2, <1>3, <1>4, <1>5, <1>6, <1>7, <1>8, <1>9, <1>10, <1>11,
           <1>12, <1>13, <1>14 DEF Next

(* FsInvariant is an invariant of the file system. *)
THEOREM FileSystemInvariant == Spec => []FsInvariant
BY InitInvariant, StepInvariant, PTL DEF Spec

(* Inodes, bitmaps, blocks and descriptors keep their types under every    *)
(* sequence of file system calls.                                          *)
THEOREM FileSystemTypeOK == Spec => []TypeOK
<1>1. FsInvariant => TypeOK
  BY DEF FsInvariant
<1> QED BY <1>1, FileSystemInvariant, PTL

(* No block ever has two owners or is both owned and free, for every image *)
(* size, whatever programs do with stale descriptors: alloc_block hands    *)
(* out only blocks that free_block or the image builder gave back.         *)
THEOREM FileSystemBlocksExclusive == Spec => []BlocksExclusive
<1>1. FsInvariant => BlocksExclusive
  BY DEF FsInvariant
<1> QED BY <1>1, FileSystemInvariant, PTL

(* The counters of the superblock are always the numbers of set bits and   *)
(* the inode bitmap is always the set of inodes of type free: create_at's  *)
(* undo, write's partial allocation and truncate keep them in step.        *)
THEOREM FileSystemCountsExact == Spec => []CountsExact
<1>1. FsInvariant => CountsExact
  BY DEF FsInvariant
<1> QED BY <1>1, FileSystemInvariant, PTL


-----------------------------------------------------------------------------
(* The entries of all directories: <<directory, slot, cell, name, inode>>.  *)

Places == Inodes \X Slots \X Cells \X Names \X Inodes

IsEntry(nt, bl, cn, d, s, c, n, i) ==
    nt[d] = "dir" /\ bl[d][s] # 0 /\ cn[bl[d][s]][c] = Entry(n, i)

Ents(nt, bl, cn) == {x \in Places : IsEntry(nt, bl, cn, x[1], x[2], x[3], x[4], x[5])}

ContentType == [Blocks -> [Cells -> CellValues]]
TypesType == [Inodes -> {"free", "file", "dir"}]

LEMMA PlaceIs ==
    /\ \A x \in Places : /\ x[1] \in Inodes /\ x[2] \in Slots /\ x[3] \in Cells
                         /\ x[4] \in Names /\ x[5] \in Inodes
                         /\ x = <<x[1], x[2], x[3], x[4], x[5]>>
    /\ \A d \in Inodes, s \in Slots, c \in Cells, n \in Names, i \in Inodes :
         /\ <<d, s, c, n, i>> \in Places
         /\ <<d, s, c, n, i>>[1] = d /\ <<d, s, c, n, i>>[2] = s /\ <<d, s, c, n, i>>[3] = c
         /\ <<d, s, c, n, i>>[4] = n /\ <<d, s, c, n, i>>[5] = i
BY DEF Places

LEMMA SamePlace ==
    ASSUME NEW x \in Places, NEW y \in Places,
           x[1] = y[1], x[2] = y[2], x[3] = y[3], x[4] = y[4], x[5] = y[5]
    PROVE  x = y
BY PlaceIs

LEMMA EntsIs ==
    ASSUME NEW nt, NEW bl, NEW cn
    PROVE  /\ \A d \in Inodes, s \in Slots, c \in Cells, n \in Names, i \in Inodes :
                <<d, s, c, n, i>> \in Ents(nt, bl, cn) <=> IsEntry(nt, bl, cn, d, s, c, n, i)
           /\ \A x \in Ents(nt, bl, cn) :
                x \in Places /\ IsEntry(nt, bl, cn, x[1], x[2], x[3], x[4], x[5])
           /\ \A x \in Places :
                IsEntry(nt, bl, cn, x[1], x[2], x[3], x[4], x[5]) => x \in Ents(nt, bl, cn)
<1>1. \A x : x \in Ents(nt, bl, cn) <=> x \in Places /\ IsEntry(nt, bl, cn, x[1], x[2], x[3], x[4], x[5])
  BY Zenon DEF Ents
<1>2. ASSUME NEW d \in Inodes, NEW s \in Slots, NEW c \in Cells, NEW n \in Names, NEW i \in Inodes
      PROVE  <<d, s, c, n, i>> \in Ents(nt, bl, cn) <=> IsEntry(nt, bl, cn, d, s, c, n, i)
  <2> DEFINE x == <<d, s, c, n, i>>
  <2>1. x \in Places /\ x[1] = d /\ x[2] = s /\ x[3] = c /\ x[4] = n /\ x[5] = i
    BY PlaceIs
  <2> HIDE DEF x
  <2>2. x \in Ents(nt, bl, cn) <=> IsEntry(nt, bl, cn, d, s, c, n, i)
    BY Zenon, <1>1, <2>1
  <2> QED BY <2>2 DEF x
<1> QED BY Zenon, <1>1, <1>2

\* An entry tells its name and its inode, and is not a zero cell.
LEMMA EntryIs ==
    \A n, i : /\ Entry(n, i).kind = "entry" /\ Entry(n, i).name = n /\ Entry(n, i).inode = i
              /\ Entry(n, i) # Zero /\ Entry(n, i) # Data
<1> TAKE n, i
<1>1. Entry(n, i).kind = "entry" /\ Entry(n, i).name = n /\ Entry(n, i).inode = i
  BY DEF Entry
<1>2. Zero.kind = "zero" /\ Data.kind = "data"
  BY DEF Zero, Data
<1>3. "entry" # "zero" /\ "entry" # "data"
  OBVIOUS
<1> QED BY Zenon, <1>1, <1>2, <1>3

LEMMA EntrySame == \A n, i, m, j : Entry(n, i) = Entry(m, j) => n = m /\ i = j
<1> SUFFICES ASSUME NEW n, NEW i, NEW m, NEW j, Entry(n, i) = Entry(m, j) PROVE n = m /\ i = j
  OBVIOUS
<1>1. Entry(n, i).name = n /\ Entry(m, j).name = m /\ Entry(n, i).inode = i /\ Entry(m, j).inode = j
  BY Zenon, EntryIs
<1> QED BY Zenon, <1>1

LEMMA EntryCell ==
    ASSUME NEW e \in CellValues, e.kind = "entry"
    PROVE  e.name \in Names /\ e.inode \in Inodes /\ e = Entry(e.name, e.inode)
<1>1. Zero.kind # "entry" /\ Data.kind # "entry"
  BY DEF Zero, Data
<1>2. e \in Entries
  BY <1>1 DEF CellValues
<1>3. PICK n \in Names, i \in Inodes : e = Entry(n, i)
  BY <1>2 DEF Entries
<1> QED BY Zenon, <1>3, EntryIs

\* What lies at a place determines the place's entry.
LEMMA OneEntryEach ==
    ASSUME NEW nt, NEW bl, NEW cn, NEW x \in Ents(nt, bl, cn), NEW y \in Ents(nt, bl, cn),
           x[1] = y[1], x[2] = y[2], x[3] = y[3]
    PROVE  x = y
<1>1. x \in Places /\ y \in Places /\ Entry(x[4], x[5]) = Entry(y[4], y[5])
  <2>1. /\ x \in Places /\ IsEntry(nt, bl, cn, x[1], x[2], x[3], x[4], x[5])
        /\ y \in Places /\ IsEntry(nt, bl, cn, y[1], y[2], y[3], y[4], y[5])
    BY Zenon, EntsIs
  <2>2. cn[bl[x[1]][x[2]]][x[3]] = Entry(x[4], x[5]) /\ cn[bl[y[1]][y[2]]][y[3]] = Entry(y[4], y[5])
    BY Zenon, <2>1 DEF IsEntry
  <2> QED BY Zenon, <2>1, <2>2
<1>2. x[4] = y[4] /\ x[5] = y[5]
  BY <1>1, EntrySame
<1> QED BY <1>1, <1>2, SamePlace

-----------------------------------------------------------------------------
(* What single changes do to the entries.                                   *)

\* The changes leave the directories' blocks alone.
LEMMA EntsFrame ==
    ASSUME NEW nt, NEW bl, NEW cn, NEW nt2, NEW bl2, NEW cn2,
           \A d \in Inodes : nt[d] = "dir" <=> nt2[d] = "dir",
           \A d \in Inodes, s \in Slots : nt[d] = "dir" =>
              bl2[d][s] = bl[d][s] /\ (bl[d][s] # 0 => \A c \in Cells : cn2[bl[d][s]][c] = cn[bl[d][s]][c])
    PROVE  Ents(nt2, bl2, cn2) = Ents(nt, bl, cn)
<1>1. ASSUME NEW x \in Places
      PROVE  IsEntry(nt2, bl2, cn2, x[1], x[2], x[3], x[4], x[5]) <=> IsEntry(nt, bl, cn, x[1], x[2], x[3], x[4], x[5])
  <2> DEFINE d == x[1]
             s == x[2]
             c == x[3]
             e == Entry(x[4], x[5])
  <2>1. d \in Inodes /\ s \in Slots /\ c \in Cells
    BY PlaceIs
  <2> HIDE DEF d, s, c, e
  <2>2. (nt2[d] = "dir" /\ bl2[d][s] # 0 /\ cn2[bl2[d][s]][c] = e) <=> (nt[d] = "dir" /\ bl[d][s] # 0 /\ cn[bl[d][s]][c] = e)
    <3>1. CASE nt[d] = "dir"
      <4>1. nt2[d] = "dir" /\ bl2[d][s] = bl[d][s]
        BY Zenon, <2>1, <3>1
      <4>2. bl[d][s] # 0 => cn2[bl[d][s]][c] = cn[bl[d][s]][c]
        BY Zenon, <2>1, <3>1
      <4> QED BY Zenon, <3>1, <4>1, <4>2
    <3>2. CASE nt[d] # "dir"
      BY Zenon, <2>1, <3>2
    <3> QED BY Zenon, <3>1, <3>2
  <2> QED BY Zenon, <2>2 DEF IsEntry, d, s, c, e
<1> QED BY Zenon, <1>1 DEF Ents

Put(cn, b, c, e) == [cn EXCEPT ![b][c] = e]

\* A cell of a directory is written: only the entry there changes.
LEMMA EntsCell ==
    ASSUME NEW nt \in TypesType, NEW bl \in InodeBlocksType, NEW cn \in ContentType, NEW fm, Exclusive(bl, fm),
           NEW d \in Inodes, NEW s \in Slots, NEW c \in Cells, nt[d] = "dir", bl[d][s] # 0,
           NEW e \in CellValues, NEW cn2, cn2 = Put(cn, bl[d][s], c, e),
           NEW x \in Places
    PROVE  IsEntry(nt, bl, cn2, x[1], x[2], x[3], x[4], x[5]) <=>
             IF x[1] = d /\ x[2] = s /\ x[3] = c THEN e = Entry(x[4], x[5])
             ELSE IsEntry(nt, bl, cn, x[1], x[2], x[3], x[4], x[5])
<1> DEFINE b == bl[d][s]
           j == x[1]
           t == x[2]
           k == x[3]
           g == Entry(x[4], x[5])
<1>1. j \in Inodes /\ t \in Slots /\ k \in Cells
  BY PlaceIs
<1>2. b \in Blocks /\ bl[j][t] \in Blocks \cup {0}
  BY <1>1 DEF InodeBlocksType
<1>3. ASSUME NEW b2 \in Blocks, NEW k2 \in Cells
      PROVE  cn2[b2][k2] = IF b2 = b /\ k2 = c THEN e ELSE cn[b2][k2]
  BY <1>2 DEF ContentType, Put
<1>4. bl[j][t] # 0 /\ bl[j][t] = b => j = d /\ t = s
  BY <1>1 DEF Exclusive
<1> HIDE DEF b, j, t, k, g
<1>5. (nt[j] = "dir" /\ bl[j][t] # 0 /\ cn2[bl[j][t]][k] = g) <=>
        IF j = d /\ t = s /\ k = c THEN e = g ELSE nt[j] = "dir" /\ bl[j][t] # 0 /\ cn[bl[j][t]][k] = g
  <2>1. CASE bl[j][t] = 0
    <3>1. ~(j = d /\ t = s)
      BY Zenon, <2>1
    <3> QED BY Zenon, <2>1, <3>1
  <2>2. CASE bl[j][t] # 0
    <3>1. bl[j][t] \in Blocks
      BY <1>2, <2>2
    <3>2. cn2[bl[j][t]][k] = IF bl[j][t] = b /\ k = c THEN e ELSE cn[bl[j][t]][k]
      BY <1>1, <1>3, <3>1
    <3>3. CASE j = d /\ t = s
      <4>1. bl[j][t] = b
        BY Zenon, <3>3 DEF b
      <4> QED BY Zenon, <3>2, <3>3, <4>1, <2>2
    <3>4. CASE ~(j = d /\ t = s)
      <4>1. bl[j][t] # b
        BY Zenon, <1>4, <2>2, <3>4
      <4> QED BY Zenon, <3>2, <3>4, <4>1
    <3> QED BY Zenon, <3>3, <3>4
  <2> QED BY Zenon, <2>1, <2>2
<1> QED BY Zenon, <1>5 DEF IsEntry, j, t, k, g

\* An entry leaves the directory.
LEMMA EntsRemove ==
    ASSUME NEW nt \in TypesType, NEW bl \in InodeBlocksType, NEW cn \in ContentType, NEW fm, Exclusive(bl, fm),
           NEW x \in Ents(nt, bl, cn), NEW cn2, cn2 = Put(cn, bl[x[1]][x[2]], x[3], Zero)
    PROVE  Ents(nt, bl, cn2) = Ents(nt, bl, cn) \ {x}
<1> DEFINE d == x[1]
           s == x[2]
           c == x[3]
<1>1. x \in Places /\ d \in Inodes /\ s \in Slots /\ c \in Cells /\ nt[d] = "dir" /\ bl[d][s] # 0
  <2>1. x \in Places /\ IsEntry(nt, bl, cn, x[1], x[2], x[3], x[4], x[5])
    BY Zenon, EntsIs
  <2>2. d \in Inodes /\ s \in Slots /\ c \in Cells
    BY <2>1, PlaceIs
  <2> QED BY Zenon, <2>1, <2>2 DEF IsEntry
<1>2. Zero \in CellValues /\ cn2 = Put(cn, bl[d][s], c, Zero)
  BY CellTypes
<1> HIDE DEF d, s, c
<1>3. ASSUME NEW y \in Places
      PROVE  IsEntry(nt, bl, cn2, y[1], y[2], y[3], y[4], y[5]) <=>
               IF y[1] = d /\ y[2] = s /\ y[3] = c THEN Zero = Entry(y[4], y[5])
               ELSE IsEntry(nt, bl, cn, y[1], y[2], y[3], y[4], y[5])
  BY <1>1, <1>2, EntsCell
<1>4. ASSUME NEW y \in Ents(nt, bl, cn2) PROVE y \in Ents(nt, bl, cn) \ {x}
  <2>1. y \in Places /\ IsEntry(nt, bl, cn2, y[1], y[2], y[3], y[4], y[5])
    BY Zenon, EntsIs
  <2>2. ~(y[1] = d /\ y[2] = s /\ y[3] = c) /\ IsEntry(nt, bl, cn, y[1], y[2], y[3], y[4], y[5])
    <3>1. Zero # Entry(y[4], y[5])
      BY EntryIs
    <3>2. IF y[1] = d /\ y[2] = s /\ y[3] = c THEN Zero = Entry(y[4], y[5])
          ELSE IsEntry(nt, bl, cn, y[1], y[2], y[3], y[4], y[5])
      BY Zenon, <1>3, <2>1
    <3> QED BY Zenon, <3>1, <3>2
  <2>3. y # x
    BY Zenon, <2>2 DEF d, s, c
  <2>4. y \in Ents(nt, bl, cn)
    BY Zenon, <2>1, <2>2, EntsIs
  <2> QED BY Zenon, <2>3, <2>4
<1>5. ASSUME NEW y \in Ents(nt, bl, cn), y # x PROVE y \in Ents(nt, bl, cn2)
  <2>1. y \in Places /\ IsEntry(nt, bl, cn, y[1], y[2], y[3], y[4], y[5])
    BY Zenon, EntsIs
  <2>2. ~(y[1] = d /\ y[2] = s /\ y[3] = c)
    BY <1>5, OneEntryEach DEF d, s, c
  <2> QED BY Zenon, <1>3, <2>1, <2>2, EntsIs
<1> QED BY Zenon, <1>4, <1>5

\* An entry comes into a zero cell of a block the directory has.
LEMMA EntsInto ==
    ASSUME NEW nt \in TypesType, NEW bl \in InodeBlocksType, NEW cn \in ContentType, NEW fm, Exclusive(bl, fm),
           NEW d \in Inodes, NEW s \in Slots, NEW c \in Cells, NEW n \in Names, NEW i \in Inodes,
           nt[d] = "dir", bl[d][s] # 0, cn[bl[d][s]][c] = Zero,
           NEW cn2, cn2 = Put(cn, bl[d][s], c, Entry(n, i))
    PROVE  /\ Ents(nt, bl, cn2) = Ents(nt, bl, cn) \cup {<<d, s, c, n, i>>}
           /\ \A y \in Ents(nt, bl, cn) : ~(y[1] = d /\ y[2] = s /\ y[3] = c)
<1> DEFINE x == <<d, s, c, n, i>>
<1>1. x \in Places /\ x[1] = d /\ x[2] = s /\ x[3] = c /\ x[4] = n /\ x[5] = i
  BY PlaceIs
<1> HIDE DEF x
<1>2. Entry(n, i) \in CellValues
  BY DEF CellValues, Entries
<1>3. ASSUME NEW y \in Places
      PROVE  IsEntry(nt, bl, cn2, y[1], y[2], y[3], y[4], y[5]) <=>
               IF y[1] = d /\ y[2] = s /\ y[3] = c THEN Entry(n, i) = Entry(y[4], y[5])
               ELSE IsEntry(nt, bl, cn, y[1], y[2], y[3], y[4], y[5])
  BY <1>2, EntsCell
<1>4. \A y \in Ents(nt, bl, cn) : ~(y[1] = d /\ y[2] = s /\ y[3] = c)
  <2> SUFFICES ASSUME NEW y \in Ents(nt, bl, cn), y[1] = d, y[2] = s, y[3] = c PROVE FALSE
    OBVIOUS
  <2>1. cn[bl[y[1]][y[2]]][y[3]] = Entry(y[4], y[5])
    <3>1. IsEntry(nt, bl, cn, y[1], y[2], y[3], y[4], y[5])
      BY Zenon, EntsIs
    <3> QED BY Zenon, <3>1 DEF IsEntry
  <2>2. Entry(y[4], y[5]) # Zero
    BY EntryIs
  <2> QED BY Zenon, <2>1, <2>2
<1>5. ASSUME NEW y \in Ents(nt, bl, cn2) PROVE y \in Ents(nt, bl, cn) \/ y = x
  <2>1. y \in Places /\ IsEntry(nt, bl, cn2, y[1], y[2], y[3], y[4], y[5])
    BY Zenon, EntsIs
  <2>2. CASE y[1] = d /\ y[2] = s /\ y[3] = c
    <3>1. n = y[4] /\ i = y[5]
      <4>1. Entry(n, i) = Entry(y[4], y[5])
        BY Zenon, <1>3, <2>1, <2>2
      <4> QED BY <4>1, EntrySame
    <3> QED BY <1>1, <2>1, <2>2, <3>1, SamePlace
  <2>3. CASE ~(y[1] = d /\ y[2] = s /\ y[3] = c)
    BY Zenon, <1>3, <2>1, <2>3, EntsIs
  <2> QED BY Zenon, <2>2, <2>3
<1>6. x \in Ents(nt, bl, cn2)
  <2>1. IsEntry(nt, bl, cn2, x[1], x[2], x[3], x[4], x[5])
    BY Zenon, <1>1, <1>3
  <2> QED BY Zenon, <1>1, <2>1, EntsIs
<1>7. ASSUME NEW y \in Ents(nt, bl, cn) PROVE y \in Ents(nt, bl, cn2)
  <2>1. y \in Places /\ IsEntry(nt, bl, cn, y[1], y[2], y[3], y[4], y[5])
    BY Zenon, EntsIs
  <2> QED BY Zenon, <1>3, <1>4, <2>1, EntsIs
<1>8. Ents(nt, bl, cn2) = Ents(nt, bl, cn) \cup {x}
  BY Zenon, <1>5, <1>6, <1>7
<1> QED BY Zenon, <1>4, <1>8 DEF x

Fresh(cn, b, e) == [cn EXCEPT ![b] = [ZeroBlock EXCEPT ![0] = e]]
Placed(bl, d, s, b) == [bl EXCEPT ![d][s] = b]

\* An entry comes into a new block of the directory, which holds nothing else.
LEMMA EntsGrow ==
    ASSUME NEW nt \in TypesType, NEW bl \in InodeBlocksType, NEW cn \in ContentType, NEW fm \in SUBSET Blocks, Exclusive(bl, fm),
           NEW d \in Inodes, NEW s \in Slots, NEW n \in Names, NEW i \in Inodes, NEW b \in fm,
           nt[d] = "dir", bl[d][s] = 0,
           NEW cn2, cn2 = Fresh(cn, b, Entry(n, i)), NEW bl2, bl2 = Placed(bl, d, s, b)
    PROVE  /\ Ents(nt, bl2, cn2) = Ents(nt, bl, cn) \cup {<<d, s, 0, n, i>>}
           /\ \A y \in Ents(nt, bl, cn) : ~(y[1] = d /\ y[2] = s)
<1> DEFINE x == <<d, s, 0, n, i>>
<1>0. 0 \in Cells /\ b \in Blocks /\ 0 \notin Blocks /\ b # 0
  BY Constants
<1>1. x \in Places /\ x[1] = d /\ x[2] = s /\ x[3] = 0 /\ x[4] = n /\ x[5] = i
  BY <1>0, PlaceIs
<1> HIDE DEF x
<1>2. ASSUME NEW k \in Cells PROVE cn2[b][k] = IF k = 0 THEN Entry(n, i) ELSE Zero
  BY <1>0 DEF ContentType, ZeroBlock, Fresh
<1>3. ASSUME NEW b2 \in Blocks, b2 # b PROVE cn2[b2] = cn[b2]
  BY <1>3 DEF ContentType, Fresh
<1>4. ASSUME NEW j \in Inodes, NEW t \in Slots
      PROVE  /\ bl2[j][t] = IF j = d /\ t = s THEN b ELSE bl[j][t]
             /\ bl[j][t] # 0 => bl[j][t] \in Blocks /\ bl[j][t] # b
  <2>1. bl2[j][t] = IF j = d /\ t = s THEN b ELSE bl[j][t]
    BY DEF InodeBlocksType, Placed
  <2>2. bl[j][t] \in Blocks \cup {0}
    BY DEF InodeBlocksType
  <2>3. bl[j][t] # 0 => bl[j][t] \notin fm
    BY Zenon DEF Exclusive
  <2> QED BY <2>1, <2>2, <2>3
<1>5. ASSUME NEW y \in Places
      PROVE  IsEntry(nt, bl2, cn2, y[1], y[2], y[3], y[4], y[5]) <=>
               IF y[1] = d /\ y[2] = s THEN y[3] = 0 /\ Entry(n, i) = Entry(y[4], y[5])
               ELSE IsEntry(nt, bl, cn, y[1], y[2], y[3], y[4], y[5])
  <2> DEFINE j == y[1]
             t == y[2]
             k == y[3]
             g == Entry(y[4], y[5])
  <2>1. j \in Inodes /\ t \in Slots /\ k \in Cells
    BY PlaceIs
  <2>2. g # Zero
    BY Zenon, EntryIs
  <2> HIDE DEF j, t, k, g
  <2>3. CASE j = d /\ t = s
    <3>1. bl2[j][t] = b
      BY <1>4, <2>1, <2>3
    <3>2. cn2[bl2[j][t]][k] = IF k = 0 THEN Entry(n, i) ELSE Zero
      BY <1>2, <2>1, <3>1
    <3>3. (nt[j] = "dir" /\ bl2[j][t] # 0 /\ cn2[bl2[j][t]][k] = g) <=> (k = 0 /\ Entry(n, i) = g)
      BY Zenon, <1>0, <2>2, <2>3, <3>1, <3>2
    <3> QED BY Zenon, <2>3, <3>3 DEF IsEntry, j, t, k, g
  <2>4. CASE ~(j = d /\ t = s)
    <3>1. bl2[j][t] = bl[j][t] /\ (bl[j][t] # 0 => bl[j][t] \in Blocks /\ bl[j][t] # b)
      BY <1>4, <2>1, <2>4
    <3>2. bl[j][t] # 0 => cn2[bl[j][t]] = cn[bl[j][t]]
      BY <1>3, <3>1
    <3>3. (nt[j] = "dir" /\ bl2[j][t] # 0 /\ cn2[bl2[j][t]][k] = g) <=> (nt[j] = "dir" /\ bl[j][t] # 0 /\ cn[bl[j][t]][k] = g)
      BY Zenon, <3>1, <3>2
    <3> QED BY Zenon, <2>4, <3>3 DEF IsEntry, j, t, k, g
  <2> QED BY Zenon, <2>3, <2>4
<1>6. \A y \in Ents(nt, bl, cn) : ~(y[1] = d /\ y[2] = s)
  <2> SUFFICES ASSUME NEW y \in Ents(nt, bl, cn), y[1] = d, y[2] = s PROVE FALSE
    OBVIOUS
  <2>1. IsEntry(nt, bl, cn, y[1], y[2], y[3], y[4], y[5])
    BY Zenon, EntsIs
  <2>2. bl[y[1]][y[2]] # 0
    BY Zenon, <2>1 DEF IsEntry
  <2> QED BY Zenon, <2>2
<1>7. ASSUME NEW y \in Ents(nt, bl2, cn2) PROVE y \in Ents(nt, bl, cn) \/ y = x
  <2>1. y \in Places /\ IsEntry(nt, bl2, cn2, y[1], y[2], y[3], y[4], y[5])
    BY Zenon, EntsIs
  <2>2. CASE y[1] = d /\ y[2] = s
    <3>1. y[3] = 0 /\ n = y[4] /\ i = y[5]
      <4>1. y[3] = 0 /\ Entry(n, i) = Entry(y[4], y[5])
        BY Zenon, <1>5, <2>1, <2>2
      <4> QED BY <4>1, EntrySame
    <3> QED BY <1>1, <2>1, <2>2, <3>1, SamePlace
  <2>3. CASE ~(y[1] = d /\ y[2] = s)
    BY Zenon, <1>5, <2>1, <2>3, EntsIs
  <2> QED BY Zenon, <2>2, <2>3
<1>8. x \in Ents(nt, bl2, cn2)
  <2>1. IsEntry(nt, bl2, cn2, x[1], x[2], x[3], x[4], x[5])
    BY Zenon, <1>1, <1>5
  <2> QED BY Zenon, <1>1, <2>1, EntsIs
<1>9. ASSUME NEW y \in Ents(nt, bl, cn) PROVE y \in Ents(nt, bl2, cn2)
  <2>1. y \in Places /\ IsEntry(nt, bl, cn, y[1], y[2], y[3], y[4], y[5])
    BY Zenon, EntsIs
  <2> QED BY Zenon, <1>5, <1>6, <2>1, EntsIs
<1>10. Ents(nt, bl2, cn2) = Ents(nt, bl, cn) \cup {x}
  BY Zenon, <1>7, <1>8, <1>9
<1> QED BY Zenon, <1>6, <1>10 DEF x

-----------------------------------------------------------------------------
(* The entries form a forest under the root.                                *)

NamesIn(E, d) == {n \in Names : \E x \in E : x[1] = d /\ x[4] = n}

\* One entry for each inode in use, but the root and the loose one that a call
\* holds in its hands; one entry for each name of a directory; no entry for
\* what is free; sizes count.
Forest(E, nt, sz, loose) ==
    /\ \A x \in E : x \in Places /\ nt[x[1]] = "dir"
    /\ \A x, y \in E : x[5] = y[5] => x = y
    /\ \A x, y \in E : x[1] = y[1] /\ x[4] = y[4] => x = y
    /\ \A i \in Inodes : (\E x \in E : x[5] = i) <=> (nt[i] # "free" /\ i # Root /\ i \notin loose)
    /\ \A d \in Inodes : nt[d] = "dir" =>
         IsFiniteSet(NamesIn(E, d)) /\ sz[d] = Cardinality(NamesIn(E, d))

LEMMA ForestRemove ==
    ASSUME NEW E, NEW nt, NEW sz \in [Inodes -> Nat], Forest(E, nt, sz, {}), NEW x \in E
    PROVE  /\ Forest(E \ {x}, nt, [sz EXCEPT ![x[1]] = Decrement(@)], {x[5]})
           /\ x[4] \notin NamesIn(E \ {x}, x[1])
<1> DEFINE D == E \ {x}
           s2 == [sz EXCEPT ![x[1]] = Decrement(@)]
<1>1. /\ \A y \in E : y \in Places /\ nt[y[1]] = "dir"
      /\ \A y, z \in E : y[5] = z[5] => y = z
      /\ \A y, z \in E : y[1] = z[1] /\ y[4] = z[4] => y = z
      /\ \A i \in Inodes : (\E y \in E : y[5] = i) <=> (nt[i] # "free" /\ i # Root)
      /\ \A d \in Inodes : nt[d] = "dir" =>
           IsFiniteSet(NamesIn(E, d)) /\ sz[d] = Cardinality(NamesIn(E, d))
  <2>1. \A i : i \notin {}
    OBVIOUS
  <2> QED BY Zenon, <2>1 DEF Forest
<1>2. x[1] \in Inodes /\ x[4] \in Names /\ nt[x[1]] = "dir"
  BY Zenon, <1>1, PlaceIs
<1>3. x[4] \notin NamesIn(D, x[1])
  BY Zenon, <1>1 DEF NamesIn
<1>4. \A i \in Inodes : (\E y \in D : y[5] = i) <=> (nt[i] # "free" /\ i # Root /\ i \notin {x[5]})
  <2> SUFFICES ASSUME NEW i \in Inodes
               PROVE  (\E y \in D : y[5] = i) <=> (nt[i] # "free" /\ i # Root /\ i # x[5])
    OBVIOUS
  <2>1. ASSUME NEW y \in D, y[5] = i PROVE (\E z \in E : z[5] = i) /\ i # x[5]
    <3>1. y \in E /\ y # x
      OBVIOUS
    <3>2. y[5] # x[5]
      BY Zenon, <1>1, <3>1
    <3> QED BY Zenon, <2>1, <3>1, <3>2
  <2>2. ASSUME NEW y \in E, y[5] = i, i # x[5] PROVE \E z \in D : z[5] = i
    <3>1. y \in D
      BY Zenon, <2>2
    <3> QED BY Zenon, <2>2, <3>1
  <2>3. (\E y \in D : y[5] = i) <=> (\E y \in E : y[5] = i) /\ i # x[5]
    <3> HIDE DEF D
    <3> QED BY Zenon, <2>1, <2>2
  <2> HIDE DEF D
  <2> QED BY Zenon, <1>1, <2>3
<1>5. ASSUME NEW d \in Inodes, nt[d] = "dir"
      PROVE  IsFiniteSet(NamesIn(D, d)) /\ s2[d] = Cardinality(NamesIn(D, d))
  <2>1. CASE d = x[1]
    <3> DEFINE N == NamesIn(E, d)
               M == NamesIn(D, d)
    <3>0. x[4] \in N
      BY Zenon, <1>2, <2>1 DEF NamesIn
    <3>00. ASSUME NEW m PROVE m \in M <=> m \in N /\ m # x[4]
      <4>1. ASSUME m \in M PROVE m \in N /\ m # x[4]
        <5>1. m \in Names /\ m \in N
          BY Zenon, <4>1 DEF NamesIn
        <5> QED BY Zenon, <1>3, <2>1, <4>1, <5>1
      <4>2. ASSUME m \in N, m # x[4] PROVE m \in M
        <5>1. PICK y \in E : y[1] = d /\ y[4] = m
          BY Zenon, <4>2 DEF NamesIn
        <5>2. y \in D /\ m \in Names
          BY Zenon, <4>2, <5>1 DEF NamesIn
        <5> QED BY Zenon, <5>1, <5>2 DEF NamesIn
      <4> QED BY Zenon, <4>1, <4>2
    <3>1. M = N \ {x[4]} /\ x[4] \in N
      <4> HIDE DEF M, N
      <4> QED BY <3>0, <3>00
    <3>2. IsFiniteSet(N) /\ sz[d] = Cardinality(N)
      BY Zenon, <1>1, <1>5
    <3> HIDE DEF N, M
    <3>3. IsFiniteSet(M) /\ Cardinality(M) = Cardinality(N) - 1
      BY <3>1, <3>2, FS_RemoveElement
    <3>4. Cardinality(N) \in Nat /\ Cardinality(M) \in Nat
      BY <3>2, <3>3, FS_CardinalityType
    <3>5. s2[d] = Decrement(sz[d])
      BY <2>1
    <3>6. Decrement(sz[d]) = Cardinality(M)
      BY <3>2, <3>3, <3>4 DEF Decrement
    <3> QED BY Zenon, <3>3, <3>5, <3>6 DEF M
  <2>2. CASE d # x[1]
    <3>1. NamesIn(D, d) = NamesIn(E, d)
      BY Zenon, <2>2 DEF NamesIn
    <3>2. s2[d] = sz[d]
      BY <2>2
    <3> QED BY Zenon, <1>1, <1>5, <3>1, <3>2
  <2> QED BY Zenon, <2>1, <2>2
<1> HIDE DEF s2
<1>6. Forest(D, nt, s2, {x[5]})
  <2>1. \A y \in D : y \in Places /\ nt[y[1]] = "dir"
    BY Zenon, <1>1
  <2>2. \A y, z \in D : y[5] = z[5] => y = z
    BY Zenon, <1>1
  <2>3. \A y, z \in D : y[1] = z[1] /\ y[4] = z[4] => y = z
    BY Zenon, <1>1
  <2> HIDE DEF D
  <2> QED BY Zenon, <1>4, <1>5, <2>1, <2>2, <2>3 DEF Forest
<1> QED BY Zenon, <1>3, <1>6 DEF s2

LEMMA ForestAdd ==
    ASSUME NEW E, NEW nt, NEW sz \in [Inodes -> Nat], NEW i \in Inodes, Forest(E, nt, sz, {i}),
           nt[i] # "free", i # Root,
           NEW x \in Places, x[5] = i, nt[x[1]] = "dir", x[4] \notin NamesIn(E, x[1])
    PROVE  Forest(E \cup {x}, nt, [sz EXCEPT ![x[1]] = @ + 1], {})
<1> DEFINE D == E \cup {x}
           s2 == [sz EXCEPT ![x[1]] = @ + 1]
<1>1. /\ \A y \in E : y \in Places /\ nt[y[1]] = "dir"
      /\ \A y, z \in E : y[5] = z[5] => y = z
      /\ \A y, z \in E : y[1] = z[1] /\ y[4] = z[4] => y = z
      /\ \A j \in Inodes : (\E y \in E : y[5] = j) <=> (nt[j] # "free" /\ j # Root /\ j # i)
      /\ \A d \in Inodes : nt[d] = "dir" =>
           IsFiniteSet(NamesIn(E, d)) /\ sz[d] = Cardinality(NamesIn(E, d))
  <2>1. \A j : j \notin {i} <=> j # i
    OBVIOUS
  <2> QED BY Zenon, <2>1 DEF Forest
<1>2. x[1] \in Inodes /\ x[4] \in Names
  BY Zenon, PlaceIs
<1>3. \A y \in E : y[5] # i
  BY Zenon, <1>1
<1>4. \A y \in E : ~(y[1] = x[1] /\ y[4] = x[4])
  BY Zenon, <1>2 DEF NamesIn
<1>5. \A j \in Inodes : (\E y \in D : y[5] = j) <=> (nt[j] # "free" /\ j # Root /\ j \notin {})
  <2> SUFFICES ASSUME NEW j \in Inodes
               PROVE  (\E y \in D : y[5] = j) <=> (nt[j] # "free" /\ j # Root)
    OBVIOUS
  <2>1. (\E y \in D : y[5] = j) <=> ((\E y \in E : y[5] = j) \/ j = i)
    BY Zenon
  <2> QED BY Zenon, <1>1, <2>1
<1>6. ASSUME NEW d \in Inodes, nt[d] = "dir"
      PROVE  IsFiniteSet(NamesIn(D, d)) /\ s2[d] = Cardinality(NamesIn(D, d))
  <2>1. CASE d = x[1]
    <3> DEFINE N == NamesIn(E, d)
               M == NamesIn(D, d)
    <3>1. M = N \cup {x[4]} /\ x[4] \notin N
      BY Zenon, <1>2, <2>1 DEF NamesIn
    <3>2. IsFiniteSet(N) /\ sz[d] = Cardinality(N)
      BY Zenon, <1>1, <1>6
    <3> HIDE DEF N, M
    <3>3. IsFiniteSet(M) /\ Cardinality(M) = Cardinality(N) + 1
      <4>1. N \cup {x[4]} = M
        BY <3>1
      <4>2. IsFiniteSet(N \cup {x[4]}) /\ Cardinality(N \cup {x[4]}) = Cardinality(N) + 1
        <5> DEFINE v == x[4]
        <5>1. v \notin N
          BY <3>1
        <5> HIDE DEF v
        <5>2. IsFiniteSet(N \cup {v}) /\ Cardinality(N \cup {v}) = Cardinality(N) + 1
          BY <3>2, <5>1, FS_AddElement
        <5> QED BY <5>2 DEF v
      <4> QED BY Zenon, <4>1, <4>2
    <3>4. s2[d] = sz[d] + 1
      BY <2>1
    <3> QED BY <3>2, <3>3, <3>4 DEF M
  <2>2. CASE d # x[1]
    <3>1. NamesIn(D, d) = NamesIn(E, d)
      BY Zenon, <2>2 DEF NamesIn
    <3>2. s2[d] = sz[d]
      BY <2>2
    <3> QED BY Zenon, <1>1, <1>6, <3>1, <3>2
  <2> QED BY Zenon, <2>1, <2>2
<1> HIDE DEF s2
<1>7. \A y \in D : y \in Places /\ nt[y[1]] = "dir"
  BY Zenon, <1>1
<1>8. \A y, z \in D : y[5] = z[5] => y = z
  BY Zenon, <1>1, <1>3
<1>9. \A y, z \in D : y[1] = z[1] /\ y[4] = z[4] => y = z
  BY Zenon, <1>1, <1>4
<1> HIDE DEF D
<1>10. Forest(D, nt, s2, {})
  BY Zenon, <1>5, <1>6, <1>7, <1>8, <1>9 DEF Forest
<1> QED BY Zenon, <1>10 DEF D, s2

\* The loose inode is freed: a file, or a directory without entries.
LEMMA ForestFree ==
    ASSUME NEW E, NEW nt \in TypesType, NEW sz, NEW i \in Inodes, Forest(E, nt, sz, {i}), \A x \in E : x[1] # i
    PROVE  Forest(E, [nt EXCEPT ![i] = "free"], sz, {})
<1> DEFINE n2 == [nt EXCEPT ![i] = "free"]
<1>1. \A j \in Inodes : n2[j] = IF j = i THEN "free" ELSE nt[j]
  BY DEF TypesType
<1>2. /\ \A y \in E : y \in Places /\ nt[y[1]] = "dir"
      /\ \A y, z \in E : y[5] = z[5] => y = z
      /\ \A y, z \in E : y[1] = z[1] /\ y[4] = z[4] => y = z
      /\ \A j \in Inodes : (\E y \in E : y[5] = j) <=> (nt[j] # "free" /\ j # Root /\ j # i)
      /\ \A d \in Inodes : nt[d] = "dir" =>
           IsFiniteSet(NamesIn(E, d)) /\ sz[d] = Cardinality(NamesIn(E, d))
  <2>1. \A j : j \notin {i} <=> j # i
    OBVIOUS
  <2> QED BY Zenon, <2>1 DEF Forest
<1> HIDE DEF n2
<1>3. \A y \in E : y \in Places /\ n2[y[1]] = "dir"
  <2> SUFFICES ASSUME NEW y \in E PROVE n2[y[1]] = "dir"
    BY Zenon, <1>2
  <2>1. y[1] \in Inodes
    BY Zenon, <1>2, PlaceIs
  <2> QED BY <1>1, <1>2, <2>1
<1>4. \A j \in Inodes : (\E y \in E : y[5] = j) <=> (n2[j] # "free" /\ j # Root /\ j \notin {})
  <2> SUFFICES ASSUME NEW j \in Inodes
               PROVE  (\E y \in E : y[5] = j) <=> (n2[j] # "free" /\ j # Root)
    OBVIOUS
  <2>1. (\E y \in E : y[5] = j) <=> (nt[j] # "free" /\ j # Root /\ j # i)
    BY Zenon, <1>2
  <2>2. n2[j] # "free" <=> nt[j] # "free" /\ j # i
    BY <1>1
  <2> QED BY Zenon, <2>1, <2>2
<1>5. \A d \in Inodes : n2[d] = "dir" => nt[d] = "dir"
  BY <1>1
<1>6. Forest(E, n2, sz, {})
  BY Zenon, <1>2, <1>3, <1>4, <1>5 DEF Forest
<1> QED BY Zenon, <1>6 DEF n2

\* An inode is taken: it is loose until its entry is written.
LEMMA ForestNew ==
    ASSUME NEW E, NEW nt \in TypesType, NEW sz \in [Inodes -> Nat], NEW i \in Inodes, Forest(E, nt, sz, {}),
           nt[i] = "free", i # Root, NEW type \in {"file", "dir"}
    PROVE  Forest(E, [nt EXCEPT ![i] = type], [sz EXCEPT ![i] = 0], {i})
<1> DEFINE n2 == [nt EXCEPT ![i] = type]
           s2 == [sz EXCEPT ![i] = 0]
<1>1. \A j \in Inodes : n2[j] = (IF j = i THEN type ELSE nt[j]) /\ s2[j] = IF j = i THEN 0 ELSE sz[j]
  BY DEF TypesType
<1>2. /\ \A y \in E : y \in Places /\ nt[y[1]] = "dir"
      /\ \A y, z \in E : y[5] = z[5] => y = z
      /\ \A y, z \in E : y[1] = z[1] /\ y[4] = z[4] => y = z
      /\ \A j \in Inodes : (\E y \in E : y[5] = j) <=> (nt[j] # "free" /\ j # Root)
      /\ \A d \in Inodes : nt[d] = "dir" =>
           IsFiniteSet(NamesIn(E, d)) /\ sz[d] = Cardinality(NamesIn(E, d))
  <2>1. \A j : j \notin {}
    OBVIOUS
  <2> QED BY Zenon, <2>1 DEF Forest
<1> HIDE DEF n2, s2
<1>3. \A y \in E : y \in Places /\ n2[y[1]] = "dir" /\ y[1] # i
  <2> SUFFICES ASSUME NEW y \in E PROVE n2[y[1]] = "dir" /\ y[1] # i
    BY Zenon, <1>2
  <2>1. y[1] \in Inodes /\ nt[y[1]] = "dir"
    BY Zenon, <1>2, PlaceIs
  <2>2. y[1] # i
    BY <2>1
  <2> QED BY <1>1, <2>1, <2>2
<1>4. \A j \in Inodes : (\E y \in E : y[5] = j) <=> (n2[j] # "free" /\ j # Root /\ j \notin {i})
  <2> SUFFICES ASSUME NEW j \in Inodes
               PROVE  (\E y \in E : y[5] = j) <=> (n2[j] # "free" /\ j # Root /\ j # i)
    BY Zenon
  <2>1. (\E y \in E : y[5] = j) <=> (nt[j] # "free" /\ j # Root)
    BY Zenon, <1>2
  <2>2. j # i => n2[j] = nt[j]
    BY <1>1
  <2> QED BY Zenon, <2>1, <2>2
<1>5. ASSUME NEW d \in Inodes, n2[d] = "dir"
      PROVE  IsFiniteSet(NamesIn(E, d)) /\ s2[d] = Cardinality(NamesIn(E, d))
  <2>1. CASE d = i
    <3>1. NamesIn(E, d) = {}
      BY Zenon, <1>3, <2>1 DEF NamesIn
    <3>2. s2[d] = 0
      BY <1>1, <2>1
    <3> QED BY <3>1, <3>2, FS_EmptySet
  <2>2. CASE d # i
    <3>1. nt[d] = "dir" /\ s2[d] = sz[d]
      BY <1>1, <1>5, <2>2
    <3> QED BY Zenon, <1>2, <3>1
  <2> QED BY Zenon, <2>1, <2>2
<1>6. Forest(E, n2, s2, {i})
  BY Zenon, <1>2, <1>3, <1>4, <1>5 DEF Forest
<1> QED BY Zenon, <1>6 DEF n2, s2

-----------------------------------------------------------------------------
(* The invariant.                                                           *)

\* The root is a directory, a free inode has no blocks, and a directory has its
\* blocks in the first slots, where a scan finds them.
Shape(nt, bl) ==
    /\ nt[Root] = "dir"
    /\ \A i \in Inodes, s \in Slots : nt[i] = "free" => bl[i][s] = 0
    /\ \A d \in Inodes, s, t \in Slots : nt[d] = "dir" /\ t < s /\ bl[d][s] # 0 => bl[d][t] # 0

\* Every block is free or somebody's.
Owned(bl, fm) == \A b \in Blocks \ fm : \E i \in Inodes, s \in Slots : bl[i][s] = b

\* Descriptors are open on what exists, and directories for reading only.
FdsLive(fd, nt) ==
    \A f \in Fds : fd[f].valid =>
        nt[fd[f].inode] # "free" /\ (fd[f].flags = "rw" => nt[fd[f].inode] = "file")

E0 == Ents(node_type, blocks, content)

Tree == Shape(node_type, blocks) /\ Forest(E0, node_type, size, {})

TreeInv == FsInvariant /\ Tree /\ Owned(blocks, free_map) /\ FdsLive(fds, node_type)

LEMMA ForestIs ==
    ASSUME NEW E, NEW nt, NEW sz, Forest(E, nt, sz, {})
    PROVE  /\ \A x \in E : x \in Places /\ nt[x[1]] = "dir"
           /\ \A x, y \in E : x[5] = y[5] => x = y
           /\ \A x, y \in E : x[1] = y[1] /\ x[4] = y[4] => x = y
           /\ \A i \in Inodes : (\E x \in E : x[5] = i) <=> (nt[i] # "free" /\ i # Root)
           /\ \A d \in Inodes : nt[d] = "dir" =>
                IsFiniteSet(NamesIn(E, d)) /\ sz[d] = Cardinality(NamesIn(E, d))
<1>1. \A i : i \notin {}
  OBVIOUS
<1> QED BY Zenon, <1>1 DEF Forest

LEMMA DiskIs ==
    ASSUME FsInvariant
    PROVE  /\ DiskTypeOK /\ fds \in FdsType /\ Exclusive(blocks, free_map)
           /\ node_type \in TypesType /\ blocks \in InodeBlocksType /\ content \in ContentType
           /\ size \in [Inodes -> Nat] /\ free_map \in SUBSET Blocks
           /\ inode_map = {i \in Inodes : node_type[i] = "free"}
BY Parts DEF DiskTypeOK, TypesType, ContentType, Counted

-----------------------------------------------------------------------------
(* find_in and remove_entry find the one entry of a name.                   *)

LEMMA FirstOfOne == \A p : First({p}) = p
<1> TAKE p
<1>1. \E q \in {p} : \A r \in {p} \ {q} : Before(q, r)
  <2>1. \A r \in {p} \ {p} : Before(p, r)
    OBVIOUS
  <2> QED BY <2>1
<1>2. First({p}) \in {p}
  <2> DEFINE Q(q) == \A r \in {p} \ {q} : Before(q, r)
  <2>1. First({p}) = CHOOSE q \in {p} : Q(q)
    BY Zenon DEF First
  <2>2. \E q \in {p} : Q(q)
    BY Zenon, <1>1
  <2> HIDE DEF Q
  <2> QED BY Zenon, <2>1, <2>2
<1> QED BY <1>2

LEMMA FindIs ==
    ASSUME FsInvariant, Tree, NEW d \in Inodes, NEW n
    PROVE  /\ \A x \in E0 : x[1] = d /\ x[4] = n =>
                /\ find_in(d, n) = x[5]
                /\ Removed(d, n) = Put(content, blocks[d][x[2]], x[3], Zero)
           /\ find_in(d, n) # NoInode => \E x \in E0 : x[1] = d /\ x[4] = n
<1>1. /\ node_type \in TypesType /\ blocks \in InodeBlocksType /\ content \in ContentType
  BY DiskIs
<1>2. Shape(node_type, blocks) /\ Forest(E0, node_type, size, {})
  BY Zenon DEF Tree
<1>3. ASSUME NEW p \in Matches(d, n), node_type[d] = "dir"
      PROVE  \E x \in E0 : x[1] = d /\ x[4] = n /\ p = <<x[2], x[3]>>
  <2> DEFINE s == p[1]
             c == p[2]
             e == content[blocks[d][s]][c]
  <2>1. p \in Scanned(d) \X Cells /\ e.kind = "entry" /\ e.name = n
    BY Zenon DEF Matches
  <2>2. s \in Scanned(d) /\ c \in Cells /\ p = <<s, c>>
    BY <2>1
  <2> HIDE DEF s, c
  <2>3. s \in Slots /\ \A t \in 0 .. s : blocks[d][t] # 0
    BY Zenon, <2>2 DEF Scanned
  <2>4. s \in 0 .. s
    BY <2>3, Constants
  <2>5. blocks[d][s] # 0
    BY Zenon, <2>3, <2>4
  <2>6. blocks[d][s] \in Blocks
    BY <1>1, <2>3, <2>5 DEF InodeBlocksType
  <2>7. e \in CellValues
    BY <1>1, <2>2, <2>6 DEF ContentType
  <2> DEFINE i == e.inode
             x == <<d, s, c, n, i>>
  <2>8. n \in Names /\ i \in Inodes /\ e = Entry(n, i)
    <3> HIDE DEF e
    <3>1. e.name \in Names /\ e.inode \in Inodes /\ e = Entry(e.name, e.inode)
      BY <2>1, <2>7, EntryCell
    <3> QED BY Zenon, <2>1, <3>1
  <2>9. IsEntry(node_type, blocks, content, d, s, c, n, i)
    BY Zenon, <1>3, <2>5, <2>8 DEF IsEntry
  <2> HIDE DEF i, e
  <2>10. x \in E0 /\ x[1] = d /\ x[4] = n /\ x[2] = s /\ x[3] = c
    <3>1. x \in E0
      BY Zenon, <2>2, <2>3, <2>8, <2>9, EntsIs DEF E0
    <3> QED BY <3>1
  <2> HIDE DEF x
  <2> QED BY Zenon, <2>2, <2>10
<1>4. ASSUME find_in(d, n) # NoInode PROVE \E x \in E0 : x[1] = d /\ x[4] = n
  <2>1. node_type[d] = "dir" /\ Matches(d, n) # {}
    BY Zenon, <1>4 DEF find_in
  <2>2. PICK p : p \in Matches(d, n)
    BY <2>1
  <2> QED BY Zenon, <1>3, <2>1, <2>2
<1>5. ASSUME NEW x \in E0, x[1] = d, x[4] = n
      PROVE  /\ find_in(d, n) = x[5]
             /\ Removed(d, n) = Put(content, blocks[d][x[2]], x[3], Zero)
  <2> DEFINE s == x[2]
             c == x[3]
             p == <<s, c>>
  <2>1. x \in Places /\ IsEntry(node_type, blocks, content, x[1], x[2], x[3], x[4], x[5])
    BY Zenon, EntsIs DEF E0
  <2>2. s \in Slots /\ c \in Cells
    BY <2>1, PlaceIs
  <2>3. node_type[d] = "dir" /\ blocks[d][s] # 0 /\ content[blocks[d][s]][c] = Entry(n, x[5])
    BY Zenon, <1>5, <2>1 DEF IsEntry
  <2>4. s \in Scanned(d)
    <3> SUFFICES ASSUME NEW t \in 0 .. s PROVE blocks[d][t] # 0
      BY Zenon, <2>2 DEF Scanned
    <3> HIDE DEF s
    <3>1. t \in Slots /\ (t = s \/ t < s)
      BY <2>2, FileSystemAssumption DEF Slots
    <3>2. CASE t = s
      BY Zenon, <2>3, <3>2
    <3>3. CASE t < s
      BY Zenon, <1>2, <2>2, <2>3, <3>1, <3>3 DEF Shape
    <3> QED BY Zenon, <3>1, <3>2, <3>3
  <2>5. p \in Scanned(d) \X Cells /\ p[1] = s /\ p[2] = c
    BY <2>2, <2>4
  <2>6. p \in Matches(d, n)
    <3> HIDE DEF p, s, c
    <3>1. content[blocks[d][p[1]]][p[2]].kind = "entry" /\ content[blocks[d][p[1]]][p[2]].name = n
      <4>1. Entry(n, x[5]).kind = "entry" /\ Entry(n, x[5]).name = n
        BY EntryIs
      <4> QED BY Zenon, <2>3, <2>5, <4>1
    <3> QED BY Zenon, <2>5, <3>1 DEF Matches
  <2>7. ASSUME NEW q \in Matches(d, n) PROVE q = p
    <3>1. PICK y \in E0 : y[1] = d /\ y[4] = n /\ q = <<y[2], y[3]>>
      BY Zenon, <1>3, <2>3
    <3>2. \A a, b \in E0 : a[1] = b[1] /\ a[4] = b[4] => a = b
      BY <1>2, ForestIs
    <3>3. y = x
      BY Zenon, <1>5, <3>1, <3>2
    <3> QED BY Zenon, <3>1, <3>3
  <2>8. Matches(d, n) = {p}
    <3> HIDE DEF p
    <3> QED BY <2>6, <2>7
  <2>9. First(Matches(d, n)) = p
    BY Zenon, <2>8, FirstOfOne
  <2>10. Matches(d, n) # {}
    BY <2>6
  <2>11. find_in(d, n) = content[blocks[d][s]][c].inode
    BY Zenon, <2>3, <2>5, <2>9, <2>10 DEF find_in
  <2>12. Removed(d, n) = Put(content, blocks[d][s], c, Zero)
    BY Zenon, <2>5, <2>9 DEF Removed, Put
  <2>13. find_in(d, n) = x[5]
    <3>1. Entry(n, x[5]).inode = x[5]
      BY EntryIs
    <3> QED BY Zenon, <2>3, <2>11, <3>1
  <2> QED BY Zenon, <2>12, <2>13
<1> QED BY Zenon, <1>4, <1>5

-----------------------------------------------------------------------------
(* resolve.                                                                 *)

\* A set of numbers that is not empty has a least element.
LEMMA Least ==
    ASSUME NEW S \in SUBSET Nat, S # {}
    PROVE  \E n \in S : \A k \in S : ~(k < n)
<1>1. PICK n \in S : \A k \in S : ~(<<k, n>> \in OpToRel(<, Nat))
  BY Zenon, WFMin, NatLessThanWellFounded
<1>2. \A k \in S : k < n => <<k, n>> \in OpToRel(<, Nat)
  BY DEF OpToRel
<1> QED BY Zenon, <1>1, <1>2

\* A step of the walk, and the walk over the first n components.
Step(d, n) == IF d = NoInode THEN NoInode ELSE find_in(d, n)

Found == Inodes \cup {NoInode}

WalkTo(path, f, n) ==
    /\ f \in [0 .. n -> Found] /\ f[0] = Root
    /\ \A k \in 1 .. n : f[k] = Step(f[k - 1], path[k])

\* The names on the path lead from the root to the inode.
LeadsBy(E, path, f, i) ==
    /\ f \in [0 .. Len(path) -> Inodes] /\ f[0] = Root /\ f[Len(path)] = i
    /\ \A k \in 1 .. Len(path) : \E x \in E : x[1] = f[k - 1] /\ x[4] = path[k] /\ x[5] = f[k]

Leads(E, path, i) == \E f : LeadsBy(E, path, f, i)

LEMMA NoInodeIs == NoInode \notin Inodes
BY Constants DEF NoInode

LEMMA StepIs ==
    ASSUME FsInvariant, Tree, NEW d \in Found, NEW n
    PROVE  /\ Step(d, n) \in Found
           /\ Step(d, n) # NoInode =>
                d \in Inodes /\ \E x \in E0 : x[1] = d /\ x[4] = n /\ x[5] = Step(d, n)
<1>1. CASE d = NoInode
  BY <1>1 DEF Step, Found
<1>2. CASE d # NoInode
  <2>1. d \in Inodes /\ Step(d, n) = find_in(d, n)
    BY <1>2 DEF Step, Found
  <2>2. CASE find_in(d, n) = NoInode
    BY <2>1, <2>2 DEF Found
  <2>3. CASE find_in(d, n) # NoInode
    <3>1. PICK x \in E0 : x[1] = d /\ x[4] = n
      BY <2>1, <2>3, FindIs
    <3>2. find_in(d, n) = x[5]
      BY <2>1, <3>1, FindIs
    <3>3. x \in Places
      BY Zenon, EntsIs DEF E0
    <3>4. x[5] \in Inodes
      BY <3>3, PlaceIs
    <3>5. Step(d, n) = x[5] /\ Step(d, n) \in Found
      BY <2>1, <3>2, <3>4 DEF Found
    <3> QED BY Zenon, <2>1, <3>1, <3>5
  <2> QED BY <2>2, <2>3
<1> QED BY <1>1, <1>2

LEMMA WalkExists ==
    ASSUME FsInvariant, Tree, NEW path
    PROVE  \A n \in Nat : \E f : WalkTo(path, f, n)
<1> DEFINE S == {n \in Nat : ~ \E f : WalkTo(path, f, n)}
<1> SUFFICES ASSUME S # {} PROVE FALSE
  OBVIOUS
<1>1. PICK n \in S : \A k \in S : ~(k < n)
  <2>1. S \in SUBSET Nat
    OBVIOUS
  <2> HIDE DEF S
  <2> QED BY <2>1, Least
<1>2. n \in Nat /\ ~ \E f : WalkTo(path, f, n)
  OBVIOUS
<1>0. Root \in Found
  BY Constants DEF Found
<1>3. CASE n = 0
  <2> DEFINE f == [k \in 0 .. 0 |-> Root]
  <2>1. f \in [0 .. 0 -> Found] /\ f[0] = Root /\ \A k \in 1 .. 0 : FALSE
    BY <1>0
  <2> HIDE DEF f
  <2>2. WalkTo(path, f, 0)
    BY <2>1 DEF WalkTo
  <2> QED BY <1>2, <1>3, <2>2
<1>4. CASE n # 0
  <2>1. n - 1 \in Nat /\ n - 1 < n
    BY <1>2, <1>4
  <2>2. PICK f : WalkTo(path, f, n - 1)
    BY <1>1, <2>1
  <2>3. /\ f \in [0 .. n - 1 -> Found] /\ f[0] = Root
        /\ \A k \in 1 .. n - 1 : f[k] = Step(f[k - 1], path[k])
    BY <2>2 DEF WalkTo
  <2> DEFINE v == Step(f[n - 1], path[n])
             g == [k \in 0 .. n |-> IF k = n THEN v ELSE f[k]]
  <2>4. v \in Found
    <3>1. f[n - 1] \in Found
      BY <2>1, <2>3
    <3> QED BY <3>1, StepIs
  <2> HIDE DEF v
  <2>5. \A k \in 0 .. n : k # n => k \in 0 .. n - 1
    BY <2>1
  <2>6. g \in [0 .. n -> Found]
    BY <2>3, <2>4, <2>5
  <2>7. g[0] = Root
    BY <1>2, <1>4, <2>3
  <2>8. \A k \in 1 .. n : g[k] = Step(g[k - 1], path[k])
    <3> SUFFICES ASSUME NEW k \in 1 .. n PROVE g[k] = Step(g[k - 1], path[k])
      OBVIOUS
    <3>1. k \in 0 .. n /\ k - 1 \in 0 .. n /\ k - 1 # n
      BY <1>2
    <3>2. g[k - 1] = f[k - 1]
      BY <3>1
    <3>3. CASE k = n
      <4>1. g[k] = v
        BY <3>1, <3>3
      <4> QED BY Zenon, <3>2, <3>3, <4>1 DEF v
    <3>4. CASE k # n
      <4>1. k \in 1 .. n - 1
        BY <1>2, <3>4
      <4>2. g[k] = f[k]
        BY <3>1, <3>4
      <4> QED BY <2>3, <3>2, <4>1, <4>2
    <3> QED BY <3>3, <3>4
  <2> HIDE DEF g
  <2>9. WalkTo(path, g, n)
    BY Zenon, <2>6, <2>7, <2>8 DEF WalkTo
  <2> QED BY <1>2, <2>9
<1> QED BY <1>3, <1>4

\* resolve is what its equation says.
LEMMA ResolveWalk ==
    ASSUME FsInvariant, Tree, NEW path \in Seq(Names)
    PROVE  \E f : WalkTo(path, f, Len(path)) /\ resolve(path) = f[Len(path)]
<1> DEFINE n == Len(path)
           Eqn(f) == f = [k \in 0 .. n |->
                            IF k = 0 THEN Root
                            ELSE IF f[k - 1] = NoInode THEN NoInode ELSE find_in(f[k - 1], path[k])]
           Eqn2(f) == f = [k \in 0 .. n |-> IF k = 0 THEN Root ELSE Step(f[k - 1], path[k])]
           w == CHOOSE f : Eqn(f)
<1>0. n \in Nat
  OBVIOUS
<1>1. resolve(path) = w[n]
  BY Zenon DEF resolve
<1>2. \A f : Eqn(f) <=> Eqn2(f)
  BY Zenon DEF Step
<1>3. PICK f : WalkTo(path, f, n)
  BY <1>0, WalkExists
<1> HIDE DEF Eqn, n
<1>4. Eqn2(f)
  <2>1. /\ f \in [0 .. n -> Found] /\ f[0] = Root
        /\ \A k \in 1 .. n : f[k] = Step(f[k - 1], path[k])
    BY <1>3 DEF WalkTo
  <2>2. \A k \in 0 .. n : k # 0 => k \in 1 .. n
    BY <1>0
  <2> QED BY <2>1, <2>2
<1>5. Eqn2(w)
  <2> HIDE DEF Eqn2
  <2>1. Eqn(w)
    BY Zenon, <1>2, <1>4
  <2> QED BY Zenon, <1>2, <2>1
<1> HIDE DEF w
<1>6. w[0] = Root
  BY <1>0, <1>5
<1>7. \A k \in 1 .. n : w[k] = Step(w[k - 1], path[k])
  <2> SUFFICES ASSUME NEW k \in 1 .. n PROVE w[k] = Step(w[k - 1], path[k])
    OBVIOUS
  <2>1. k \in 0 .. n /\ k # 0
    BY <1>0
  <2> QED BY <1>5, <2>1
<1>8. \A k \in 0 .. n : w[k] = f[k]
  <2> DEFINE S == {k \in 0 .. n : w[k] # f[k]}
  <2> SUFFICES ASSUME S # {} PROVE FALSE
    OBVIOUS
  <2>1. PICK k \in S : \A m \in S : ~(m < k)
    <3>1. S \in SUBSET Nat
      BY <1>0
    <3> HIDE DEF S
    <3> QED BY <3>1, Least
  <2>2. f[0] = Root /\ \A m \in 1 .. n : f[m] = Step(f[m - 1], path[m])
    BY <1>3 DEF WalkTo
  <2>3. k \in 1 .. n
    BY <1>0, <1>6, <2>1, <2>2
  <2>4. k - 1 \in 0 .. n /\ k - 1 < k
    BY <1>0, <2>3
  <2>5. w[k - 1] = f[k - 1]
    BY <2>1, <2>4
  <2>6. w[k] = f[k]
    BY Zenon, <1>7, <2>2, <2>3, <2>5
  <2> QED BY <2>1, <2>6
<1>9. resolve(path) = f[n]
  <2>1. n \in 0 .. n
    BY <1>0
  <2> QED BY Zenon, <1>1, <1>8, <2>1
<1> QED BY Zenon, <1>3, <1>9 DEF n

\* A path resolves to an inode if and only if its names lead there.
LEMMA ResolveIs ==
    ASSUME FsInvariant, Tree, NEW path \in Seq(Names)
    PROVE  /\ resolve(path) \in Found
           /\ \A i \in Inodes : resolve(path) = i <=> Leads(E0, path, i)
<1> DEFINE n == Len(path)
<1>0. n \in Nat
  OBVIOUS
<1>1. PICK f : WalkTo(path, f, n) /\ resolve(path) = f[n]
  BY ResolveWalk
<1> HIDE DEF n
<1>2. /\ f \in [0 .. n -> Found] /\ f[0] = Root
      /\ \A k \in 1 .. n : f[k] = Step(f[k - 1], path[k])
  BY <1>1 DEF WalkTo
<1>3. resolve(path) \in Found
  <2>1. n \in 0 .. n
    BY <1>0
  <2> QED BY <1>1, <1>2, <2>1
<1>4. ASSUME NEW i \in Inodes, resolve(path) = i PROVE Leads(E0, path, i)
  <2>1. \A k \in 0 .. n : f[n - k] # NoInode
    <3> DEFINE S == {k \in 0 .. n : f[n - k] = NoInode}
    <3> SUFFICES ASSUME S # {} PROVE FALSE
      OBVIOUS
    <3>1. PICK k \in S : \A m \in S : ~(m < k)
      <4>1. S \in SUBSET Nat
        BY <1>0
      <4> HIDE DEF S
      <4> QED BY <4>1, Least
    <3>2. k # 0
      <4>1. n - 0 = n
        BY <1>0
      <4>2. f[n] # NoInode
        BY <1>1, <1>4, NoInodeIs
      <4> QED BY <3>1, <4>1, <4>2
    <3>3. k - 1 \in 0 .. n /\ k - 1 < k /\ n - (k - 1) \in 1 .. n /\ n - (k - 1) - 1 = n - k
      BY <1>0, <3>1, <3>2
    <3>4. f[n - (k - 1)] = Step(f[n - k], path[n - (k - 1)])
      BY <1>2, <3>3
    <3>5. f[n - (k - 1)] = NoInode
      BY <3>1, <3>4 DEF Step
    <3>6. k - 1 \in S
      BY <3>3, <3>5
    <3> QED BY <3>1, <3>3, <3>6
  <2>2. \A k \in 0 .. n : f[k] \in Inodes
    <3> SUFFICES ASSUME NEW k \in 0 .. n PROVE f[k] \in Inodes
      OBVIOUS
    <3>1. n - k \in 0 .. n /\ n - (n - k) = k
      BY <1>0
    <3>2. f[k] # NoInode
      BY <2>1, <3>1
    <3> QED BY <1>2, <3>2 DEF Found
  <2>3. f \in [0 .. n -> Inodes]
    BY <1>2, <2>2
  <2>4. \A k \in 1 .. n : \E x \in E0 : x[1] = f[k - 1] /\ x[4] = path[k] /\ x[5] = f[k]
    <3> SUFFICES ASSUME NEW k \in 1 .. n
                 PROVE  \E x \in E0 : x[1] = f[k - 1] /\ x[4] = path[k] /\ x[5] = f[k]
      OBVIOUS
    <3>1. k \in 0 .. n /\ k - 1 \in 0 .. n
      BY <1>0
    <3>2. f[k - 1] \in Found /\ f[k] = Step(f[k - 1], path[k]) /\ f[k] # NoInode
      BY <1>2, <2>2, <3>1, NoInodeIs
    <3> DEFINE d == f[k - 1]
               m == path[k]
    <3> HIDE DEF d, m
    <3>3. d \in Found /\ Step(d, m) # NoInode
      BY <3>2 DEF d, m
    <3>4. \E x \in E0 : x[1] = d /\ x[4] = m /\ x[5] = Step(d, m)
      BY <3>3, StepIs
    <3> QED BY Zenon, <3>2, <3>4 DEF d, m
  <2>5. LeadsBy(E0, path, f, i)
    BY Zenon, <1>1, <1>2, <1>4, <2>3, <2>4 DEF LeadsBy, n
  <2> QED BY Zenon, <2>5 DEF Leads
<1>5. ASSUME NEW i \in Inodes, Leads(E0, path, i) PROVE resolve(path) = i
  <2>1. PICK g : LeadsBy(E0, path, g, i)
    BY Zenon, <1>5 DEF Leads
  <2>2. /\ g \in [0 .. n -> Inodes] /\ g[0] = Root /\ g[n] = i
        /\ \A k \in 1 .. n : \E x \in E0 : x[1] = g[k - 1] /\ x[4] = path[k] /\ x[5] = g[k]
    BY Zenon, <2>1 DEF LeadsBy, n
  <2>3. \A k \in 0 .. n : f[k] = g[k]
    <3> DEFINE S == {k \in 0 .. n : f[k] # g[k]}
    <3> SUFFICES ASSUME S # {} PROVE FALSE
      OBVIOUS
    <3>1. PICK k \in S : \A m \in S : ~(m < k)
      <4>1. S \in SUBSET Nat
        BY <1>0
      <4> HIDE DEF S
      <4> QED BY <4>1, Least
    <3>2. k \in 1 .. n
      BY <1>0, <1>2, <2>2, <3>1
    <3>3. k - 1 \in 0 .. n /\ k - 1 < k
      BY <1>0, <3>2
    <3>4. f[k - 1] = g[k - 1] /\ g[k - 1] \in Inodes
      BY <2>2, <3>1, <3>3
    <3>5. PICK x \in E0 : x[1] = g[k - 1] /\ x[4] = path[k] /\ x[5] = g[k]
      BY <2>2, <3>2
    <3> DEFINE d == g[k - 1]
               m == path[k]
    <3>6. Step(d, m) = find_in(d, m)
      BY <3>4, NoInodeIs DEF Step
    <3>7. d \in Inodes /\ x[1] = d /\ x[4] = m
      BY <3>4, <3>5
    <3> HIDE DEF d, m
    <3>8. find_in(d, m) = x[5]
      BY <3>7, FindIs
    <3>9. f[k] = Step(d, m)
      BY Zenon, <1>2, <3>2, <3>4 DEF d, m
    <3>10. f[k] = g[k]
      BY Zenon, <3>5, <3>6, <3>8, <3>9
    <3> QED BY <3>1, <3>10
  <2>4. n \in 0 .. n
    BY <1>0
  <2> QED BY <1>1, <2>2, <2>3, <2>4
<1> QED BY Zenon, <1>3, <1>4, <1>5

-----------------------------------------------------------------------------
(* The last component of a path.                                            *)

LEMMA PathIs ==
    \A path \in Paths : /\ path \in Seq(Names)
                        /\ path # <<>> =>
                             /\ Len(path) \in Nat \ {0} /\ Len(Front(path)) = Len(path) - 1
                             /\ Front(path) \in Seq(Names) /\ Last(path) \in Names
                             /\ Last(path) = path[Len(path)]
                             /\ \A k \in 1 .. Len(path) - 1 : Front(path)[k] = path[k]
<1> SUFFICES ASSUME NEW path \in Paths
             PROVE  /\ path \in Seq(Names)
                    /\ path # <<>> =>
                         /\ Len(path) \in Nat \ {0} /\ Len(Front(path)) = Len(path) - 1
                         /\ Front(path) \in Seq(Names) /\ Last(path) \in Names
                         /\ Last(path) = path[Len(path)]
                         /\ \A k \in 1 .. Len(path) - 1 : Front(path)[k] = path[k]
  OBVIOUS
<1>1. PICK k \in 0 .. MaxDepth : path \in [1 .. k -> Names]
  BY DEF Paths
<1>2. k \in Nat
  BY <1>1, FileSystemAssumption
<1>3. path \in Seq(Names) /\ Len(path) = k
  BY <1>1, <1>2
<1>4. ASSUME path # <<>> PROVE k # 0
  BY <1>3, <1>4
<1> QED BY <1>1, <1>2, <1>3, <1>4 DEF Front, Last

LEMMA LeadsRoot == \A E, i : i \in Inodes => (Leads(E, <<>>, i) <=> i = Root)
<1> TAKE E, i
<1> SUFFICES ASSUME i \in Inodes PROVE Leads(E, <<>>, i) <=> i = Root
  OBVIOUS
<1>1. ASSUME NEW f, LeadsBy(E, <<>>, f, i) PROVE i = Root
  BY <1>1 DEF LeadsBy
<1>2. ASSUME i = Root PROVE LeadsBy(E, <<>>, [k \in 0 .. 0 |-> Root], i)
  BY <1>2, Constants DEF LeadsBy
<1> QED BY Zenon, <1>1, <1>2 DEF Leads

HasEntry(E, d, n, i) == \E x \in E : x[1] = d /\ x[4] = n /\ x[5] = i

LEMMA LeadsByIs ==
    ASSUME NEW E, NEW path, NEW f, NEW i
    PROVE  LeadsBy(E, path, f, i) <=>
             /\ f \in [0 .. Len(path) -> Inodes] /\ f[0] = Root /\ f[Len(path)] = i
             /\ \A k \in 1 .. Len(path) : HasEntry(E, f[k - 1], path[k], f[k])
BY Zenon DEF LeadsBy, HasEntry

LEMMA LeadsExtend ==
    ASSUME NEW E, NEW path \in Seq(Names), NEW front \in Seq(Names), NEW n,
           Len(path) = Len(front) + 1, path[Len(path)] = n,
           \A k \in 1 .. Len(front) : front[k] = path[k]
    PROVE  \A i \in Inodes : Leads(E, path, i) <=>
             \E d \in Inodes : Leads(E, front, d) /\ HasEntry(E, d, n, i)
<1> DEFINE m == Len(front)
<1> SUFFICES ASSUME NEW i \in Inodes
             PROVE  Leads(E, path, i) <=>
                      \E d \in Inodes : Leads(E, front, d) /\ HasEntry(E, d, n, i)
  OBVIOUS
<1>0. m \in Nat /\ Len(path) = m + 1 /\ (m + 1) - 1 = m
  OBVIOUS
<1>1. ASSUME NEW f, LeadsBy(E, path, f, i)
      PROVE  \E d \in Inodes : Leads(E, front, d) /\ HasEntry(E, d, n, i)
  <2> DEFINE g == [k \in 0 .. m |-> f[k]]
  <2>1. /\ f \in [0 .. Len(path) -> Inodes] /\ f[0] = Root /\ f[Len(path)] = i
        /\ \A k \in 1 .. Len(path) : HasEntry(E, f[k - 1], path[k], f[k])
    BY <1>1, LeadsByIs
  <2>2. f[m] \in Inodes /\ HasEntry(E, f[m], n, i)
    <3>1. m + 1 \in 1 .. Len(path) /\ m \in 0 .. Len(path)
      BY <1>0
    <3>2. HasEntry(E, f[(m + 1) - 1], path[m + 1], f[m + 1])
      BY Zenon, <2>1, <3>1
    <3> HIDE DEF m
    <3> QED BY <1>0, <2>1, <3>1, <3>2
  <2>3. g \in [0 .. m -> Inodes] /\ g[0] = Root /\ g[m] = f[m]
    BY <1>0, <2>1
  <2>4. ASSUME NEW k \in 1 .. m PROVE HasEntry(E, g[k - 1], front[k], g[k])
    <3>1. HasEntry(E, f[k - 1], path[k], f[k])
      BY <1>0, <2>1
    <3>2. g[k - 1] = f[k - 1] /\ g[k] = f[k] /\ front[k] = path[k]
      BY <1>0
    <3> QED BY Zenon, <3>1, <3>2
  <2> HIDE DEF g
  <2>5. LeadsBy(E, front, g, f[m])
    BY <2>3, <2>4, LeadsByIs
  <2> QED BY Zenon, <2>2, <2>5 DEF Leads
<1>2. ASSUME NEW d \in Inodes, NEW g, LeadsBy(E, front, g, d), HasEntry(E, d, n, i)
      PROVE  Leads(E, path, i)
  <2> DEFINE f == [k \in 0 .. m + 1 |-> IF k = m + 1 THEN i ELSE g[k]]
  <2>1. /\ g \in [0 .. m -> Inodes] /\ g[0] = Root /\ g[m] = d
        /\ \A k \in 1 .. m : HasEntry(E, g[k - 1], front[k], g[k])
    BY <1>2, LeadsByIs
  <2>2. f \in [0 .. Len(path) -> Inodes] /\ f[0] = Root /\ f[Len(path)] = i /\ f[m] = d
    <3> HIDE DEF m
    <3>1. f \in [0 .. m + 1 -> Inodes]
      BY <1>0, <2>1
    <3>2. f[0] = Root /\ f[m + 1] = i /\ f[m] = d
      BY <1>0, <2>1
    <3> HIDE DEF f
    <3> QED BY <1>0, <3>1, <3>2
  <2>3. ASSUME NEW k \in 1 .. Len(path) PROVE HasEntry(E, f[k - 1], path[k], f[k])
    <3>1. CASE k = m + 1
      <4>1. f[k - 1] = d /\ path[k] = n /\ f[k] = i
        <5> HIDE DEF f, m
        <5>1. k - 1 = m /\ k = Len(path)
          BY <1>0, <3>1
        <5> QED BY Zenon, <2>2, <5>1
      <4> QED BY Zenon, <1>2, <4>1
    <3>2. CASE k # m + 1
      <4>1. k \in 1 .. m
        BY <1>0, <3>2
      <4>2. f[k - 1] = g[k - 1] /\ f[k] = g[k] /\ front[k] = path[k]
        BY <1>0, <4>1
      <4> QED BY Zenon, <2>1, <4>1, <4>2
    <3> QED BY Zenon, <3>1, <3>2
  <2> HIDE DEF f
  <2>4. LeadsBy(E, path, f, i)
    BY <2>2, <2>3, LeadsByIs
  <2> QED BY Zenon, <2>4 DEF Leads
<1> QED BY Zenon, <1>1, <1>2 DEF Leads

LEMMA LeadsFront ==
    \A E : \A path \in NamedPaths, i \in Inodes : Leads(E, path, i) <=>
        \E d \in Inodes : Leads(E, Front(path), d) /\ HasEntry(E, d, Last(path), i)
<1> TAKE E
<1> TAKE path \in NamedPaths
<1>1. /\ path \in Seq(Names) /\ Front(path) \in Seq(Names)
      /\ Len(path) \in Nat \ {0} /\ Len(Front(path)) = Len(path) - 1
      /\ Last(path) = path[Len(path)]
      /\ \A k \in 1 .. Len(path) - 1 : Front(path)[k] = path[k]
  BY PathIs DEF NamedPaths
<1>2. Len(path) = Len(Front(path)) + 1
  BY <1>1
<1>3. \A k \in 1 .. Len(Front(path)) : Front(path)[k] = path[k]
  BY Zenon, <1>1
<1> DEFINE front == Front(path)
           n == Last(path)
<1>4. front \in Seq(Names) /\ Len(path) = Len(front) + 1 /\ path[Len(path)] = n /\ \A k \in 1 .. Len(front) : front[k] = path[k]
  BY Zenon, <1>1, <1>2, <1>3
<1> HIDE DEF front, n
<1>5. \A i \in Inodes : Leads(E, path, i) <=> \E d \in Inodes : Leads(E, front, d) /\ HasEntry(E, d, n, i)
  BY <1>1, <1>4, LeadsExtend
<1> QED BY Zenon, <1>5 DEF front, n

LEMMA NamedLeads ==
    ASSUME FsInvariant, Tree, NEW path \in Seq(Names)
    PROVE  \A i : i \in Named(path) <=> i \in Inodes /\ Leads(E0, path, i)
<1>1. \A i \in Inodes : resolve(path) = i <=> Leads(E0, path, i)
  BY ResolveIs
<1> QED BY <1>1 DEF Named

\* The entry of a path that names something, and the room for one that does not.
LEMMA NamedEntry ==
    ASSUME FsInvariant, Tree, NEW path \in NamedPaths, NEW d \in Parent(path)
    PROVE  /\ d \in Inodes
           /\ \A i \in Named(path) : HasEntry(E0, d, Last(path), i)
           /\ resolve(path) = NoInode => Last(path) \notin NamesIn(E0, d)
<1>1. /\ path \in Seq(Names) /\ Front(path) \in Seq(Names)
  BY PathIs DEF NamedPaths
<1>2. d \in Inodes /\ Leads(E0, Front(path), d)
  BY <1>1, NamedLeads DEF Parent
<1>3. Forest(E0, node_type, size, {})
  BY Zenon DEF Tree
<1>4. ASSUME NEW i \in Named(path) PROVE HasEntry(E0, d, Last(path), i)
  <2>1. i \in Inodes /\ Leads(E0, path, i)
    BY <1>1, NamedLeads
  <2>2. PICK d2 \in Inodes : Leads(E0, Front(path), d2) /\ HasEntry(E0, d2, Last(path), i)
    BY Zenon, <2>1, LeadsFront
  <2>3. d2 = d
    BY <1>1, <1>2, <2>2, ResolveIs
  <2> QED BY Zenon, <2>2, <2>3
<1>5. ASSUME resolve(path) = NoInode, Last(path) \in NamesIn(E0, d) PROVE FALSE
  <2>1. PICK x \in E0 : x[1] = d /\ x[4] = Last(path)
    BY Zenon, <1>5 DEF NamesIn
  <2>2. x[5] \in Inodes
    BY Zenon, <1>3, ForestIs, PlaceIs
  <2>3. HasEntry(E0, d, Last(path), x[5])
    BY Zenon, <2>1 DEF HasEntry
  <2>4. Leads(E0, path, x[5])
    BY Zenon, <1>2, <2>2, <2>3, LeadsFront
  <2>5. resolve(path) = x[5]
    BY <1>1, <2>2, <2>4, ResolveIs
  <2> QED BY Zenon, <1>5, <2>2, <2>5, NoInodeIs
<1> QED BY Zenon, <1>2, <1>4, <1>5

-----------------------------------------------------------------------------
(* What add_entry does to the tree.                                         *)

\* E2 has one entry more, for inode i under the name n in d.
AddedTo(E, E2, d, n, i) ==
    \E x \in Places : x[1] = d /\ x[4] = n /\ x[5] = i /\ E2 = E \cup {x}

LEMMA AddForest ==
    ASSUME NEW E, NEW E2, NEW nt, NEW sz \in [Inodes -> Nat], NEW i \in Inodes, Forest(E, nt, sz, {i}),
           nt[i] # "free", i # Root, NEW x \in Places, NEW d, NEW n,
           x[1] = d, x[4] = n, x[5] = i, nt[d] = "dir", n \notin NamesIn(E, d), E2 = E \cup {x}
    PROVE  /\ Forest(E2, nt, [sz EXCEPT ![d] = @ + 1], {})
           /\ AddedTo(E, E2, d, n, i)
<1>1. nt[x[1]] = "dir" /\ x[4] \notin NamesIn(E, x[1])
  BY Zenon
<1>2. Forest(E \cup {x}, nt, [sz EXCEPT ![x[1]] = @ + 1], {})
  BY <1>1, ForestAdd
<1> QED BY Zenon, <1>2 DEF AddedTo

LEMMA ShapeGrow ==
    ASSUME NEW nt, NEW bl \in InodeBlocksType, NEW d \in Inodes, NEW s \in Slots, NEW b \in Blocks, NEW bl2,
           bl2 = [bl EXCEPT ![d][s] = b], Shape(nt, bl), nt[d] = "dir",
           \A t \in 0 .. s - 1 : bl[d][t] # 0
    PROVE  Shape(nt, bl2)
<1>1. ASSUME NEW j \in Inodes, NEW t \in Slots
      PROVE  bl2[j][t] = IF j = d /\ t = s THEN b ELSE bl[j][t]
  BY DEF InodeBlocksType
<1>2. b # 0
  BY Constants
<1>3. ASSUME NEW j \in Inodes, NEW t \in Slots, nt[j] = "free" PROVE bl2[j][t] = 0
  <2>1. j # d
    BY <1>3
  <2> QED BY <1>1, <1>3, <2>1 DEF Shape
<1>4. ASSUME NEW j \in Inodes, NEW u \in Slots, NEW t \in Slots, nt[j] = "dir", t < u, bl2[j][u] # 0
      PROVE  bl2[j][t] # 0
  <2>1. CASE j = d /\ t = s
    BY <1>1, <1>2, <2>1
  <2>2. CASE ~(j = d /\ t = s) /\ j = d /\ u = s
    <3>1. t \in 0 .. s - 1
      BY <1>4, <2>2, Constants
    <3> QED BY <1>1, <2>2, <3>1
  <2>3. CASE ~(j = d /\ t = s) /\ ~(j = d /\ u = s)
    BY <1>1, <1>4, <2>3 DEF Shape
  <2> QED BY <2>1, <2>2, <2>3
<1> QED BY Zenon, <1>3, <1>4 DEF Shape

LEMMA OwnedGrow ==
    ASSUME NEW bl \in InodeBlocksType, NEW fm, NEW d \in Inodes, NEW s \in Slots, NEW b \in Blocks, NEW bl2,
           bl2 = [bl EXCEPT ![d][s] = b], bl[d][s] = 0, Owned(bl, fm)
    PROVE  Owned(bl2, fm \ {b})
<1>1. ASSUME NEW j \in Inodes, NEW t \in Slots
      PROVE  bl2[j][t] = IF j = d /\ t = s THEN b ELSE bl[j][t]
  BY DEF InodeBlocksType
<1> SUFFICES ASSUME NEW k \in Blocks, k \notin fm \ {b}
             PROVE  \E i \in Inodes, t \in Slots : bl2[i][t] = k
  BY DEF Owned
<1>2. CASE k = b
  BY <1>1, <1>2
<1>3. CASE k # b
  <2>1. PICK i \in Inodes, t \in Slots : bl[i][t] = k
    BY <1>3 DEF Owned
  <2>2. k # 0
    BY Constants
  <2> QED BY <1>1, <2>1, <2>2
<1> QED BY <1>2, <1>3

LEMMA AddTree ==
    ASSUME NEW nt \in TypesType, NEW bl \in InodeBlocksType, NEW sz \in [Inodes -> Nat], NEW cn \in ContentType,
           free_map \in SUBSET Blocks, Exclusive(bl, free_map), Owned(bl, free_map), Shape(nt, bl),
           NEW d \in Inodes, NEW n \in Names, NEW i \in Inodes, nt[d] = "dir", nt[i] # "free", i # Root,
           NEW E, E = Ents(nt, bl, cn), Forest(E, nt, sz, {i}), n \notin NamesIn(E, d),
           AddEntry(bl, sz, cn, d, Entry(n, i))
    PROVE  /\ Shape(nt, blocks') /\ Owned(blocks', free_map')
           /\ Forest(Ents(nt, blocks', content'), nt, size', {})
           /\ AddedTo(E, Ents(nt, blocks', content'), d, n, i)
<1> DEFINE e == Entry(n, i)
           E2 == Ents(nt, blocks', content')
<1>1. PICK s \in Slots :
        /\ FirstRoom(bl, cn, d, s)
        /\ \/ /\ bl[d][s] # 0
              /\ \E c \in Cells :
                    /\ cn[bl[d][s]][c] = Zero
                    /\ content' = [cn EXCEPT ![bl[d][s]][c] = e]
              /\ blocks' = bl
              /\ free_map' = free_map
           \/ /\ bl[d][s] = 0
              /\ \E b \in free_map :
                    /\ content' = [cn EXCEPT ![b] = [ZeroBlock EXCEPT ![0] = e]]
                    /\ blocks' = [bl EXCEPT ![d][s] = b]
                    /\ free_map' = free_map \ {b}
        /\ size' = [sz EXCEPT ![d] = @ + 1]
  BY Zenon DEF AddEntry
<1>2. CASE bl[d][s] # 0
  <2>1. PICK c \in Cells : cn[bl[d][s]][c] = Zero /\ content' = [cn EXCEPT ![bl[d][s]][c] = e]
    BY Zenon, <1>1, <1>2
  <2>2. blocks' = bl /\ free_map' = free_map
    BY Zenon, <1>1, <1>2
  <2>3. content' = Put(cn, bl[d][s], c, Entry(n, i))
    BY Zenon, <2>1 DEF Put
  <2> DEFINE x == <<d, s, c, n, i>>
  <2>4. Ents(nt, bl, content') = Ents(nt, bl, cn) \cup {x}
    <3> DEFINE cn2 == content'
    <3>1. cn2 = Put(cn, bl[d][s], c, Entry(n, i))
      BY Zenon, <2>3
    <3> HIDE DEF cn2, x, E2
    <3>2. Ents(nt, bl, cn2) = Ents(nt, bl, cn) \cup {<<d, s, c, n, i>>}
      BY ONLY <1>2, <2>1, <3>1, EntsInto, nt \in TypesType, bl \in InodeBlocksType, cn \in ContentType,
              Exclusive(bl, free_map), d \in Inodes, s \in Slots, c \in Cells, n \in Names, i \in Inodes, nt[d] = "dir"
    <3> QED BY Zenon, <3>2 DEF cn2, x
  <2>5. x \in Places /\ x[1] = d /\ x[4] = n /\ x[5] = i
    BY PlaceIs
  <2>6. E2 = E \cup {x}
    BY Zenon, <2>2, <2>4
  <2> HIDE DEF x, E2
  <2>7. Forest(E2, nt, [sz EXCEPT ![d] = @ + 1], {}) /\ AddedTo(E, E2, d, n, i)
    BY <2>5, <2>6, AddForest
  <2> QED BY Zenon, <1>1, <2>2, <2>7 DEF E2
<1>3. CASE bl[d][s] = 0
  <2>1. PICK b \in free_map :
          /\ content' = [cn EXCEPT ![b] = [ZeroBlock EXCEPT ![0] = Entry(n, i)]]
          /\ blocks' = [bl EXCEPT ![d][s] = b]
          /\ free_map' = free_map \ {b}
    BY Zenon, <1>1, <1>3
  <2>2. b \in Blocks
    BY <2>1
  <2>3. \A t \in 0 .. s - 1 : bl[d][t] # 0
    BY Zenon, <1>1 DEF FirstRoom, HasRoom
  <2>4. Shape(nt, blocks')
    BY <2>1, <2>2, <2>3, ShapeGrow
  <2>5. Owned(blocks', free_map \ {b})
    BY <1>3, <2>1, <2>2, OwnedGrow
  <2> DEFINE x == <<d, s, 0, n, i>>
  <2>6. Ents(nt, blocks', content') = Ents(nt, bl, cn) \cup {x}
    <3> DEFINE cn2 == content'
               bl2 == blocks'
    <3>1. cn2 = Fresh(cn, b, Entry(n, i)) /\ bl2 = Placed(bl, d, s, b)
      BY Zenon, <2>1 DEF Fresh, Placed
    <3> HIDE DEF cn2, bl2, x, E2
    <3>2. Ents(nt, bl2, cn2) = Ents(nt, bl, cn) \cup {<<d, s, 0, n, i>>}
      BY ONLY <1>3, <3>1, EntsGrow, nt \in TypesType, bl \in InodeBlocksType, cn \in ContentType,
              Exclusive(bl, free_map), free_map \in SUBSET Blocks, b \in free_map,
              d \in Inodes, s \in Slots, n \in Names, i \in Inodes, nt[d] = "dir"
    <3> QED BY Zenon, <3>2 DEF cn2, bl2, x
  <2>7. x \in Places /\ x[1] = d /\ x[4] = n /\ x[5] = i
    BY PlaceIs, Constants
  <2>8. E2 = E \cup {x}
    BY Zenon, <2>6
  <2> HIDE DEF x, E2
  <2>9. Forest(E2, nt, [sz EXCEPT ![d] = @ + 1], {}) /\ AddedTo(E, E2, d, n, i)
    BY <2>7, <2>8, AddForest
  <2> QED BY Zenon, <1>1, <2>1, <2>4, <2>5, <2>9 DEF E2
<1> QED BY Zenon, <1>2, <1>3

-----------------------------------------------------------------------------
(* create_at.                                                               *)

Retype(nt, i, type) == [nt EXCEPT ![i] = type]

\* The type of an inode without blocks does not matter for the entries.
LEMMA EntsRetype ==
    ASSUME NEW nt \in TypesType, NEW bl, NEW cn, NEW i \in Inodes, \A s \in Slots : bl[i][s] = 0,
           NEW type, NEW nt2, nt2 = Retype(nt, i, type)
    PROVE  Ents(nt2, bl, cn) = Ents(nt, bl, cn)
<1>1. ASSUME NEW x \in Places
      PROVE  IsEntry(nt2, bl, cn, x[1], x[2], x[3], x[4], x[5]) <=> IsEntry(nt, bl, cn, x[1], x[2], x[3], x[4], x[5])
  <2>1. x[1] \in Inodes /\ x[2] \in Slots
    BY PlaceIs
  <2>2. x[1] # i => nt2[x[1]] = nt[x[1]]
    BY <2>1 DEF TypesType, Retype
  <2>3. x[1] = i => bl[x[1]][x[2]] = 0
    BY Zenon, <2>1
  <2> QED BY Zenon, <2>2, <2>3 DEF IsEntry
<1> QED BY Zenon, <1>1 DEF Ents

LEMMA FreeIs ==
    ASSUME FsInvariant, Tree, NEW i \in inode_map
    PROVE  /\ i \in Inodes /\ node_type[i] = "free" /\ i # Root /\ \A s \in Slots : blocks[i][s] = 0
           /\ [blocks EXCEPT ![i] = NoBlocks] = blocks
<1>1. i \in Inodes /\ node_type[i] = "free"
  BY DiskIs
<1>2. Shape(node_type, blocks)
  BY Zenon DEF Tree
<1>3. i # Root /\ \A s \in Slots : blocks[i][s] = 0
  BY <1>1, <1>2 DEF Shape
<1>4. blocks \in InodeBlocksType
  BY DiskIs
<1>5. blocks[i] \in [Slots -> Blocks \cup {0}]
  BY <1>1, <1>4 DEF InodeBlocksType
<1>6. blocks[i] = NoBlocks
  BY <1>3, <1>5 DEF NoBlocks
<1>7. [blocks EXCEPT ![i] = NoBlocks] = blocks
  BY <1>1, <1>4, <1>6 DEF InodeBlocksType
<1> QED BY Zenon, <1>1, <1>3, <1>7

LEMMA CreateTree ==
    ASSUME TreeInv, NEW path \in NamedPaths, resolve(path) = NoInode, NEW type \in {"file", "dir"},
           NEW i \in inode_map, CreateAt(path, type, i)
    PROVE  /\ Tree' /\ Owned(blocks', free_map')
           /\ node_type' = [node_type EXCEPT ![i] = type]
           /\ \E d \in Parent(path) : AddedTo(E0, E0', d, Last(path), i)
<1>1. FsInvariant /\ Tree /\ Owned(blocks, free_map)
  BY Zenon DEF TreeInv
<1>2. /\ i \in Inodes /\ node_type[i] = "free" /\ i # Root /\ \A s \in Slots : blocks[i][s] = 0
      /\ [blocks EXCEPT ![i] = NoBlocks] = blocks
  BY <1>1, FreeIs
<1>3. /\ node_type \in TypesType /\ blocks \in InodeBlocksType /\ content \in ContentType
      /\ size \in [Inodes -> Nat] /\ free_map \in SUBSET Blocks /\ Exclusive(blocks, free_map)
  BY <1>1, DiskIs
<1> DEFINE nt == [node_type EXCEPT ![i] = type]
           sz == [size EXCEPT ![i] = 0]
           n == Last(path)
<1>4. PICK d \in Parent(path) :
        /\ node_type[d] = "dir"
        /\ AddEntry([blocks EXCEPT ![i] = NoBlocks], sz, content, d, Entry(n, i))
        /\ node_type' = nt
  BY Zenon DEF CreateAt
<1>5. d \in Inodes /\ n \notin NamesIn(E0, d)
  BY <1>1, NamedEntry
<1>6. n \in Names
  BY PathIs DEF NamedPaths
<1>7. AddEntry(blocks, sz, content, d, Entry(n, i))
  BY Zenon, <1>2, <1>4
<1>8. /\ nt \in TypesType /\ sz \in [Inodes -> Nat] /\ nt[i] = type /\ nt[i] # "free"
      /\ nt[d] = "dir" /\ \A j \in Inodes : j # i => nt[j] = node_type[j]
  BY <1>2, <1>3, <1>4, <1>5 DEF TypesType
<1>9. Shape(node_type, blocks) /\ Forest(E0, node_type, size, {})
  BY Zenon, <1>1 DEF Tree
<1>10. Forest(E0, nt, sz, {i})
  BY <1>2, <1>3, <1>9, ForestNew
<1>11. E0 = Ents(nt, blocks, content)
  <2>1. nt = Retype(node_type, i, type)
    BY DEF Retype
  <2>3. \A s \in Slots : blocks[i][s] = 0
    BY <1>2
  <2>4. i \in Inodes
    BY <1>2
  <2>5. node_type \in TypesType
    BY <1>3
  <2> HIDE DEF nt, sz, n
  <2>2. Ents(nt, blocks, content) = Ents(node_type, blocks, content)
    BY ONLY <2>1, <2>3, <2>4, <2>5, EntsRetype
  <2> QED BY Zenon, <2>2 DEF E0
<1> HIDE DEF nt, sz, n
<1>12. Shape(nt, blocks)
  <2>1. nt[Root] = "dir"
    BY <1>2, <1>8, <1>9, Constants DEF Shape
  <2>2. ASSUME NEW j \in Inodes, NEW s \in Slots, nt[j] = "free" PROVE blocks[j][s] = 0
    BY <1>2, <1>8, <1>9, <2>2 DEF Shape
  <2>3. ASSUME NEW j \in Inodes, NEW s \in Slots, NEW t \in Slots, nt[j] = "dir", t < s, blocks[j][s] # 0
        PROVE  blocks[j][t] # 0
    BY <1>2, <1>8, <1>9, <2>3 DEF Shape
  <2> QED BY Zenon, <2>1, <2>2, <2>3 DEF Shape
<1>13. /\ Shape(nt, blocks') /\ Owned(blocks', free_map')
       /\ Forest(Ents(nt, blocks', content'), nt, size', {})
       /\ AddedTo(E0, Ents(nt, blocks', content'), d, n, i)
  BY <1>1, <1>2, <1>3, <1>5, <1>6, <1>7, <1>8, <1>10, <1>11, <1>12, AddTree
<1>14. E0' = Ents(nt, blocks', content')
  BY Zenon, <1>4 DEF E0
<1>15. Tree'
  BY Zenon, <1>4, <1>13, <1>14 DEF Tree
<1> QED BY Zenon, <1>4, <1>13, <1>14, <1>15 DEF nt, n

-----------------------------------------------------------------------------
(* Calls that leave the directories alone.                                  *)

LEMMA ForestSizes ==
    ASSUME NEW E, NEW nt, NEW sz, NEW sz2, NEW L, Forest(E, nt, sz, L),
           \A d \in Inodes : nt[d] = "dir" => sz2[d] = sz[d]
    PROVE  Forest(E, nt, sz2, L)
BY Zenon DEF Forest

LEMMA QuietTree ==
    ASSUME FsInvariant, Tree, node_type' = node_type,
           \A d \in Inodes : node_type[d] = "dir" => size'[d] = size[d],
           \A d \in Inodes, s \in Slots : node_type[d] = "dir" =>
              /\ blocks'[d][s] = blocks[d][s]
              /\ blocks[d][s] # 0 => \A c \in Cells : content'[blocks[d][s]][c] = content[blocks[d][s]][c],
           \A i \in Inodes, s \in Slots : node_type[i] = "free" => blocks'[i][s] = 0
    PROVE  Tree' /\ E0' = E0
<1>1. Shape(node_type, blocks) /\ Forest(E0, node_type, size, {})
  BY Zenon DEF Tree
<1>2. Ents(node_type, blocks', content') = Ents(node_type, blocks, content)
  BY EntsFrame
<1>3. E0' = E0
  BY Zenon, <1>2 DEF E0
<1>4. Forest(E0, node_type, size', {})
  BY Zenon, <1>1, ForestSizes
<1>5. Shape(node_type, blocks')
  <2>1. node_type[Root] = "dir"
    BY Zenon, <1>1 DEF Shape
  <2>2. ASSUME NEW d \in Inodes, NEW s \in Slots, NEW t \in Slots, node_type[d] = "dir", t < s, blocks'[d][s] # 0
        PROVE  blocks'[d][t] # 0
    <3>1. blocks'[d][s] = blocks[d][s] /\ blocks'[d][t] = blocks[d][t]
      BY Zenon, <2>2
    <3> QED BY Zenon, <1>1, <2>2, <3>1 DEF Shape
  <2> QED BY Zenon, <2>1, <2>2 DEF Shape
<1> QED BY Zenon, <1>3, <1>4, <1>5 DEF Tree

LEMMA CreateFailsTree ==
    ASSUME TreeInv, NEW path, CreateFails(path)
    PROVE  Tree' /\ E0' = E0 /\ Owned(blocks', free_map') /\ UNCHANGED <<node_type, fds>>
<1>1. FsInvariant /\ Tree /\ Owned(blocks, free_map)
  BY Zenon DEF TreeInv
<1>2. PICK i \in inode_map :
        /\ blocks' = [blocks EXCEPT ![i] = NoBlocks]
        /\ size' = [size EXCEPT ![i] = 0]
        /\ node_type' = [node_type EXCEPT ![i] = "free"]
        /\ UNCHANGED <<free_map, content, fds>>
  BY DEF CreateFails
<1>3. /\ i \in Inodes /\ node_type[i] = "free" /\ [blocks EXCEPT ![i] = NoBlocks] = blocks
  BY <1>1, FreeIs
<1>4. node_type \in TypesType /\ size \in [Inodes -> Nat]
  BY <1>1, DiskIs
<1>5. node_type' = node_type
  BY <1>2, <1>3, <1>4 DEF TypesType
<1>6. \A d \in Inodes : node_type[d] = "dir" => size'[d] = size[d]
  BY <1>2, <1>3, <1>4
<1>7. blocks' = blocks /\ content' = content /\ free_map' = free_map
  BY <1>2, <1>3
<1>8. \A j \in Inodes, s \in Slots : node_type[j] = "free" => blocks[j][s] = 0
  BY Zenon, <1>1 DEF Tree, Shape
<1>9. Tree' /\ E0' = E0
  BY <1>1, <1>5, <1>6, <1>7, <1>8, QuietTree
<1> QED BY <1>1, <1>2, <1>5, <1>7, <1>9

-----------------------------------------------------------------------------
(* unlink, rmdir and rename: an entry leaves its directory.                 *)

LEMMA RemoveTree ==
    ASSUME FsInvariant, Tree, NEW path \in NamedPaths, NEW i \in Named(path), NEW d \in Parent(path)
    PROVE  \E x \in E0 :
             /\ x[1] = d /\ x[4] = Last(path) /\ x[5] = i
             /\ d \in Inodes /\ i \in Inodes /\ node_type[d] = "dir" /\ node_type[i] # "free" /\ i # Root
             /\ Removed(d, Last(path)) \in ContentType /\ LeftBehind(d) \in [Inodes -> Nat]
             /\ Ents(node_type, blocks, Removed(d, Last(path))) = E0 \ {x}
             /\ Forest(E0 \ {x}, node_type, LeftBehind(d), {i})
             /\ Last(path) \notin NamesIn(E0 \ {x}, d)
<1> DEFINE n == Last(path)
<1>1. Forest(E0, node_type, size, {})
  BY Zenon DEF Tree
<1>2. /\ node_type \in TypesType /\ blocks \in InodeBlocksType /\ content \in ContentType
      /\ size \in [Inodes -> Nat] /\ Exclusive(blocks, free_map) /\ DiskTypeOK
  BY DiskIs
<1>3. d \in Inodes /\ HasEntry(E0, d, n, i)
  BY NamedEntry
<1>4. i \in Inodes
  BY NamedInodes
<1> HIDE DEF n
<1>5. PICK x \in E0 : x[1] = d /\ x[4] = n /\ x[5] = i
  BY Zenon, <1>3 DEF HasEntry
<1>6. node_type[d] = "dir" /\ node_type[i] # "free" /\ i # Root
  <2>1. \A y \in E0 : node_type[y[1]] = "dir"
    BY <1>1, ForestIs
  <2>2. \A j \in Inodes : (\E y \in E0 : y[5] = j) <=> (node_type[j] # "free" /\ j # Root)
    BY <1>1, ForestIs
  <2> QED BY Zenon, <1>4, <1>5, <2>1, <2>2
<1>7. Removed(d, n) \in ContentType /\ LeftBehind(d) \in [Inodes -> Nat]
  BY <1>2, <1>3, RemovedType DEF ContentType
<1> DEFINE cn == Removed(d, n)
<1>8. cn = Put(content, blocks[d][x[2]], x[3], Zero)
  BY <1>3, <1>5, FindIs
<1>9. cn = Put(content, blocks[x[1]][x[2]], x[3], Zero)
  BY Zenon, <1>5, <1>8
<1> HIDE DEF cn
<1>10. x \in Ents(node_type, blocks, content)
  BY Zenon DEF E0
<1>11. Ents(node_type, blocks, cn) = Ents(node_type, blocks, content) \ {x}
  BY <1>2, <1>9, <1>10, EntsRemove
<1>12. Ents(node_type, blocks, cn) = E0 \ {x}
  BY Zenon, <1>11 DEF E0
<1>13. LeftBehind(d) = [size EXCEPT ![x[1]] = Decrement(@)]
  BY <1>5 DEF LeftBehind
<1>14. Forest(E0 \ {x}, node_type, LeftBehind(d), {x[5]}) /\ x[4] \notin NamesIn(E0 \ {x}, x[1])
  <2>1. Forest(E0 \ {x}, node_type, [size EXCEPT ![x[1]] = Decrement(@)], {x[5]}) /\ x[4] \notin NamesIn(E0 \ {x}, x[1])
    BY <1>1, <1>2, ForestRemove
  <2> QED BY Zenon, <1>13, <2>1
<1> QED BY Zenon, <1>3, <1>4, <1>5, <1>6, <1>7, <1>12, <1>14 DEF cn, n

\* The entries once inode i, a file or an empty directory, is free.
LEMMA EntsFree ==
    ASSUME NEW nt \in TypesType, NEW bl \in InodeBlocksType, NEW cn, NEW i \in Inodes,
           NEW E, E = Ents(nt, bl, cn), \A x \in E : x[1] # i,
           NEW g, NEW bl2, bl2 = Retype(bl, i, g), NEW nt2, nt2 = Retype(nt, i, "free")
    PROVE  Ents(nt2, bl2, cn) = E
<1>1. ASSUME NEW x \in Places
      PROVE  IsEntry(nt2, bl2, cn, x[1], x[2], x[3], x[4], x[5]) <=> IsEntry(nt, bl, cn, x[1], x[2], x[3], x[4], x[5])
  <2>1. x[1] \in Inodes /\ x[2] \in Slots
    BY PlaceIs
  <2>2. x[1] # i => nt2[x[1]] = nt[x[1]] /\ bl2[x[1]] = bl[x[1]]
    BY <2>1 DEF TypesType, InodeBlocksType, Retype
  <2>3. x[1] = i => nt2[x[1]] = "free"
    BY <2>1 DEF TypesType, Retype
  <2>4. x[1] = i => ~ IsEntry(nt, bl, cn, x[1], x[2], x[3], x[4], x[5])
    BY Zenon, EntsIs
  <2>5. "free" # "dir"
    OBVIOUS
  <2> QED BY Zenon, <2>2, <2>3, <2>4, <2>5 DEF IsEntry
<1> QED BY Zenon, <1>1 DEF Ents

LEMMA ReleaseTree ==
    ASSUME TreeInv, NEW path \in NamedPaths, NEW i \in Named(path), Release(path, i),
           \A x \in E0 : x[1] # i
    PROVE  /\ Tree' /\ Owned(blocks', free_map')
           /\ node_type' = [node_type EXCEPT ![i] = "free"]
           /\ \E x \in E0 : x[5] = i /\ E0' = E0 \ {x}
<1>1. FsInvariant /\ Tree /\ Owned(blocks, free_map)
  BY Zenon DEF TreeInv
<1>2. PICK d \in Parent(path) :
        /\ content' = Removed(d, Last(path)) /\ size' = LeftBehind(d)
        /\ FreeSlots(i, UsedFrom(i, 0))
        /\ node_type' = [node_type EXCEPT ![i] = "free"]
  BY Zenon DEF Release, RemoveEntry, FreeInode
<1>3. PICK x \in E0 :
        /\ x[5] = i /\ i \in Inodes /\ node_type[i] # "free" /\ i # Root
        /\ Ents(node_type, blocks, content') = E0 \ {x}
        /\ Forest(E0 \ {x}, node_type, size', {i})
  BY Zenon, <1>1, <1>2, RemoveTree
<1>4. node_type \in TypesType /\ blocks \in InodeBlocksType
  BY <1>1, DiskIs
<1> DEFINE S == UsedFrom(i, 0)
           g == [s \in Slots |-> IF s \in S THEN 0 ELSE blocks[i][s]]
           nt == [node_type EXCEPT ![i] = "free"]
           E == E0 \ {x}
<1>5. free_map' = free_map \cup {blocks[i][s] : s \in S} /\ blocks' = [blocks EXCEPT ![i] = g]
  BY Zenon, <1>2 DEF FreeSlots
<1>6. \A y \in E : y[1] # i
  OBVIOUS
<1>7. \A s \in Slots : blocks[i][s] # 0 => s \in S
  <2>1. \A s \in Slots : s >= 0
    BY Constants
  <2> QED BY Zenon, <2>1 DEF UsedFrom
<1>8. ASSUME NEW j \in Inodes, NEW s \in Slots
      PROVE  blocks'[j][s] = IF j = i THEN 0 ELSE blocks[j][s]
  <2>1. g[s] = 0
    BY <1>7
  <2> HIDE DEF g
  <2> QED BY <1>3, <1>4, <1>5, <2>1 DEF InodeBlocksType
<1>9. Ents(nt, blocks', content') = E
  <2> DEFINE cn == content'
             bl2 == blocks'
  <2>1. bl2 = Retype(blocks, i, g) /\ nt = Retype(node_type, i, "free")
    BY Zenon, <1>5 DEF Retype
  <2>2. E = Ents(node_type, blocks, cn) /\ i \in Inodes
    BY Zenon, <1>3
  <2> HIDE DEF cn, bl2, nt, g, E
  <2>3. Ents(nt, bl2, cn) = E
    BY ONLY <1>4, <1>6, <2>1, <2>2, EntsFree
  <2> QED BY Zenon, <2>3 DEF cn, bl2
<1>10. Forest(E, nt, size', {})
  BY <1>3, <1>4, <1>6, ForestFree
<1>11. Shape(nt, blocks')
  <2>1. \A j \in Inodes : nt[j] = IF j = i THEN "free" ELSE node_type[j]
    BY <1>3, <1>4 DEF TypesType
  <2>2. Shape(node_type, blocks)
    BY Zenon, <1>1 DEF Tree
  <2> HIDE DEF nt
  <2>3. nt[Root] = "dir"
    BY <1>3, <2>1, <2>2, Constants DEF Shape
  <2>4. ASSUME NEW j \in Inodes, NEW s \in Slots, nt[j] = "free" PROVE blocks'[j][s] = 0
    <3>1. j # i => node_type[j] = "free"
      BY Zenon, <2>1, <2>4
    <3>2. j # i => blocks[j][s] = 0
      BY Zenon, <2>2, <3>1 DEF Shape
    <3> QED BY Zenon, <1>8, <3>2
  <2>5. ASSUME NEW j \in Inodes, NEW s \in Slots, NEW t \in Slots, nt[j] = "dir", t < s, blocks'[j][s] # 0
        PROVE  blocks'[j][t] # 0
    <3>1. j # i /\ blocks[j][s] # 0
      BY Zenon, <1>8, <2>5
    <3>2. node_type[j] = "dir"
      BY Zenon, <2>1, <2>5, <3>1
    <3>3. blocks[j][t] # 0
      BY Zenon, <2>2, <2>5, <3>1, <3>2 DEF Shape
    <3> QED BY Zenon, <1>8, <3>1, <3>3
  <2> QED BY Zenon, <2>3, <2>4, <2>5 DEF Shape
<1>12. Owned(blocks', free_map')
  <2> SUFFICES ASSUME NEW b \in Blocks, b \notin free_map'
               PROVE  \E j \in Inodes, s \in Slots : blocks'[j][s] = b
    BY DEF Owned
  <2>1. b \notin free_map /\ \A s \in S : blocks[i][s] # b
    BY <1>5
  <2>2. PICK j \in Inodes, s \in Slots : blocks[j][s] = b
    BY <1>1, <2>1 DEF Owned
  <2>3. b # 0
    BY Constants
  <2>4. j # i
    BY Zenon, <1>7, <2>1, <2>2, <2>3
  <2> QED BY Zenon, <1>8, <2>2, <2>4
<1>13. E0' = Ents(nt, blocks', content')
  BY Zenon, <1>2 DEF E0
<1> HIDE DEF nt, E
<1>14. Tree'
  BY Zenon, <1>2, <1>9, <1>10, <1>11, <1>13 DEF Tree, nt
<1> QED BY Zenon, <1>2, <1>3, <1>9, <1>12, <1>13, <1>14 DEF E

LEMMA MoveTree ==
    ASSUME TreeInv, NEW old \in NamedPaths, NEW i \in Named(old), NEW d \in Parent(old),
           NEW p \in Inodes, NEW n \in Names, node_type[p] = "dir",
           (n \notin NamesIn(E0, p)) \/ (p = d /\ n = Last(old)),
           AddEntry(blocks, LeftBehind(d), Removed(d, Last(old)), p, Entry(n, i)),
           node_type' = node_type
    PROVE  /\ Tree' /\ Owned(blocks', free_map')
           /\ \E x \in E0 : /\ x[1] = d /\ x[4] = Last(old) /\ x[5] = i
                            /\ AddedTo(E0 \ {x}, E0', p, n, i)
<1>1. FsInvariant /\ Tree /\ Owned(blocks, free_map)
  BY Zenon DEF TreeInv
<1> DEFINE cn == Removed(d, Last(old))
           sz == LeftBehind(d)
<1>2. PICK x \in E0 :
        /\ x[1] = d /\ x[4] = Last(old) /\ x[5] = i
        /\ d \in Inodes /\ i \in Inodes /\ node_type[d] = "dir" /\ node_type[i] # "free" /\ i # Root
        /\ cn \in ContentType /\ sz \in [Inodes -> Nat]
        /\ Ents(node_type, blocks, cn) = E0 \ {x}
        /\ Forest(E0 \ {x}, node_type, sz, {i})
        /\ Last(old) \notin NamesIn(E0 \ {x}, d)
  BY Zenon, <1>1, RemoveTree
<1> DEFINE E == E0 \ {x}
<1>3. n \notin NamesIn(E, p)
  <2>1. NamesIn(E, p) \subseteq NamesIn(E0, p)
    BY DEF NamesIn
  <2>2. CASE n \notin NamesIn(E0, p)
    BY <2>1, <2>2
  <2>3. CASE p = d /\ n = Last(old)
    BY Zenon, <1>2, <2>3
  <2> QED BY <2>2, <2>3
<1>4. /\ node_type \in TypesType /\ blocks \in InodeBlocksType
      /\ free_map \in SUBSET Blocks /\ Exclusive(blocks, free_map)
  BY <1>1, DiskIs
<1>5. Shape(node_type, blocks)
  BY Zenon, <1>1 DEF Tree
<1>6. AddEntry(blocks, sz, cn, p, Entry(n, i)) /\ E = Ents(node_type, blocks, cn) /\ Forest(E, node_type, sz, {i})
  BY Zenon, <1>2
<1> HIDE DEF cn, sz, E
<1>7. /\ Shape(node_type, blocks') /\ Owned(blocks', free_map')
      /\ Forest(Ents(node_type, blocks', content'), node_type, size', {})
      /\ AddedTo(E, Ents(node_type, blocks', content'), p, n, i)
  BY <1>1, <1>2, <1>3, <1>4, <1>5, <1>6, AddTree
<1>8. E0' = Ents(node_type, blocks', content')
  BY Zenon DEF E0
<1>9. Tree'
  BY Zenon, <1>7, <1>8 DEF Tree
<1> QED BY Zenon, <1>2, <1>7, <1>8, <1>9 DEF E

-----------------------------------------------------------------------------
(* write and ftruncate.                                                     *)

\* The block that a write finds or puts in slot s, when it takes got for S.
NewBlock(i, S, got, s) == IF s \in S THEN got[s] ELSE blocks[i][s]

WriteTo(i, off, v, S, got, done) ==
    /\ S \in SUBSET Slots /\ got \in [S -> free_map] /\ done \in Nat
    /\ \A s \in S : blocks[i][s] = 0
    /\ blocks' = [blocks EXCEPT ![i] = [s \in Slots |-> NewBlock(i, S, got, s)]]
    /\ free_map' = free_map \ {got[s] : s \in S}
    /\ content' = [b \in Blocks |-> [c \in Cells |->
                     IF \E s \in Slots : NewBlock(i, S, got, s) = b /\ s * CellsPerBlock + c \in off .. off + done - 1
                     THEN v
                     ELSE IF b \in {got[s] : s \in S} THEN Zero
                     ELSE content[b][c]]]
    /\ \A j \in Inodes : j # i => size'[j] = size[j]

LEMMA WriteIs ==
    ASSUME FsInvariant, NEW f \in Fds, NEW n \in Nat, NEW v \in CellValues, Write(f, n, v)
    PROVE  /\ fds[f].valid /\ fds[f].flags = "rw" /\ fds[f].inode \in Inodes /\ fds[f].pos \in Nat
           /\ node_type' = node_type
           /\ \E S, got, done : /\ WriteTo(fds[f].inode, fds[f].pos, v, S, got, done)
                                /\ fds' = [fds EXCEPT ![f].pos = fds[f].pos + done]
<1> DEFINE i == fds[f].inode
           off == fds[f].pos
           missing == Missing(i, off, off + n)
           served == {s \in missing :
                        Cardinality({t \in missing : t < s}) < Cardinality(free_map)}
           ends == {InodeBlocks} \cup (missing \ served)
<1>1. DiskTypeOK /\ Counted /\ fds \in FdsType
  BY Parts
<1>2. i \in Inodes /\ off \in Nat
  BY <1>1 DEF FdsType
<1>3. missing \subseteq Slots /\ served \subseteq missing
      /\ \A s \in missing : blocks[i][s] = 0
  BY DEF Missing
<1>4. served \in SUBSET Slots /\ ends \subseteq Nat /\ \A s \in served : blocks[i][s] = 0
  BY <1>3, Constants, FileSystemAssumption
<1>5. /\ fds[f].valid /\ fds[f].flags = "rw" /\ node_type' = node_type
      /\ \E stop \in ends, got \in [served -> free_map] :
            LET room == stop * CellsPerBlock - off
                done == IF room < 0 THEN 0 ELSE IF n > room THEN room ELSE n
                taken == {got[s] : s \in served}
                bl == [s \in Slots |-> IF s \in served THEN got[s] ELSE blocks[i][s]]
                written(b, c) == \E s \in Slots :
                    /\ bl[s] = b
                    /\ s * CellsPerBlock + c \in off .. off + done - 1
            IN  /\ blocks' = [blocks EXCEPT ![i] = bl]
                /\ free_map' = free_map \ taken
                /\ content' = [b \in Blocks |-> [c \in Cells |->
                                 IF written(b, c) THEN v
                                 ELSE IF b \in taken THEN Zero
                                 ELSE content[b][c]]]
                /\ size' = IF off + done > size[i]
                           THEN [size EXCEPT ![i] = off + done] ELSE size
                /\ fds' = [fds EXCEPT ![f].pos = off + done]
  BY ZenonT(60) DEF Write
<1> HIDE DEF i, off, missing, served, ends
<1>6. PICK stop \in ends, got \in [served -> free_map] :
        LET room == stop * CellsPerBlock - off
            done == IF room < 0 THEN 0 ELSE IF n > room THEN room ELSE n
            taken == {got[s] : s \in served}
            bl == [s \in Slots |-> IF s \in served THEN got[s] ELSE blocks[i][s]]
            written(b, c) == \E s \in Slots :
                /\ bl[s] = b
                /\ s * CellsPerBlock + c \in off .. off + done - 1
        IN  /\ blocks' = [blocks EXCEPT ![i] = bl]
            /\ free_map' = free_map \ taken
            /\ content' = [b \in Blocks |-> [c \in Cells |->
                             IF written(b, c) THEN v
                             ELSE IF b \in taken THEN Zero
                             ELSE content[b][c]]]
            /\ size' = IF off + done > size[i]
                       THEN [size EXCEPT ![i] = off + done] ELSE size
            /\ fds' = [fds EXCEPT ![f].pos = off + done]
  BY <1>5
<1> DEFINE room == stop * CellsPerBlock - off
           done == IF room < 0 THEN 0 ELSE IF n > room THEN room ELSE n
           bl == [s \in Slots |-> IF s \in served THEN got[s] ELSE blocks[i][s]]
           taken == {got[s] : s \in served}
<1>7. done \in Nat
  BY <1>2, <1>4, FileSystemAssumption
<1>8. /\ blocks' = [blocks EXCEPT ![i] = bl]
      /\ free_map' = free_map \ taken
      /\ size' = IF off + done > size[i] THEN [size EXCEPT ![i] = off + done] ELSE size
      /\ fds' = [fds EXCEPT ![f].pos = off + done]
  BY <1>6
<1>9. content' = [b \in Blocks |-> [c \in Cells |->
                     IF \E s \in Slots : bl[s] = b /\ s * CellsPerBlock + c \in off .. off + done - 1 THEN v
                     ELSE IF b \in taken THEN Zero
                     ELSE content[b][c]]]
  BY <1>6
<1> HIDE DEF room, done
<1>10. bl = [s \in Slots |-> NewBlock(i, served, got, s)]
  BY DEF NewBlock
<1>11. \A s \in Slots : bl[s] = NewBlock(i, served, got, s)
  BY <1>10
<1> HIDE DEF bl
<1>12. content' = [b \in Blocks |-> [c \in Cells |->
                     IF \E s \in Slots : NewBlock(i, served, got, s) = b /\ s * CellsPerBlock + c \in off .. off + done - 1
                     THEN v
                     ELSE IF b \in taken THEN Zero
                     ELSE content[b][c]]]
  <2> DEFINE W1(b, c) == \E s \in Slots : bl[s] = b /\ s * CellsPerBlock + c \in off .. off + done - 1
             W2(b, c) == \E s \in Slots : NewBlock(i, served, got, s) = b /\ s * CellsPerBlock + c \in off .. off + done - 1
             F1(b) == [c \in Cells |-> IF W1(b, c) THEN v ELSE IF b \in taken THEN Zero ELSE content[b][c]]
             F2(b) == [c \in Cells |-> IF W2(b, c) THEN v ELSE IF b \in taken THEN Zero ELSE content[b][c]]
  <2>1. \A b, c : W1(b, c) <=> W2(b, c)
    BY Zenon, <1>11
  <2>2. \A b : F1(b) = F2(b)
    <3> HIDE DEF W1, W2, taken
    <3> QED BY <2>1
  <2>3. content' = [b \in Blocks |-> F1(b)]
    BY Zenon, <1>9
  <2>4. [b \in Blocks |-> F1(b)] = [b \in Blocks |-> F2(b)]
    <3> HIDE DEF F1, F2
    <3> QED BY <2>2
  <2> QED BY Zenon, <2>3, <2>4
<1>13. \A j \in Inodes : j # i => size'[j] = size[j]
  BY <1>1, <1>2, <1>8 DEF DiskTypeOK
<1>14. WriteTo(i, off, v, served, got, done)
  BY Zenon, <1>4, <1>6, <1>7, <1>8, <1>10, <1>12, <1>13 DEF WriteTo
<1> QED BY Zenon, <1>2, <1>5, <1>8, <1>14 DEF i, off

\* What a write does to the blocks and cells that somebody has.
LEMMA WriteCells ==
    ASSUME FsInvariant, NEW i \in Inodes, NEW off \in Nat, NEW v, NEW S, NEW got, NEW done,
           WriteTo(i, off, v, S, got, done), NEW j \in Inodes, NEW s \in Slots
    PROVE  /\ j # i => blocks'[j][s] = blocks[j][s]
           /\ j = i => blocks'[j][s] = NewBlock(i, S, got, s)
           /\ j # i /\ blocks[j][s] # 0 => \A c \in Cells : content'[blocks[j][s]][c] = content[blocks[j][s]][c]
           /\ j = i /\ blocks[j][s] # 0 =>
                /\ blocks'[j][s] = blocks[j][s]
                /\ \A c \in Cells : s * CellsPerBlock + c \notin off .. off + done - 1 =>
                     content'[blocks[j][s]][c] = content[blocks[j][s]][c]
<1>1. blocks \in InodeBlocksType /\ content \in ContentType /\ free_map \in SUBSET Blocks /\ Exclusive(blocks, free_map)
  BY DiskIs
<1> DEFINE nb(t) == NewBlock(i, S, got, t)
           taken == {got[t] : t \in S}
           In(t, c) == t * CellsPerBlock + c \in off .. off + done - 1
<1>2. /\ S \in SUBSET Slots /\ got \in [S -> free_map]
      /\ \A t \in S : blocks[i][t] = 0
      /\ blocks' = [blocks EXCEPT ![i] = [t \in Slots |-> nb(t)]]
      /\ content' = [b \in Blocks |-> [c \in Cells |->
                       IF \E t \in Slots : nb(t) = b /\ In(t, c) THEN v
                       ELSE IF b \in taken THEN Zero
                       ELSE content[b][c]]]
  BY Zenon DEF WriteTo
<1>3. taken \subseteq free_map
  BY <1>2
<1>4. ASSUME blocks[j][s] # 0
      PROVE  /\ blocks[j][s] \in Blocks /\ blocks[j][s] \notin taken
             /\ \A t \in Slots : nb(t) = blocks[j][s] => j = i /\ t = s
  <2>1. blocks[j][s] \in Blocks
    BY <1>1, <1>4 DEF InodeBlocksType
  <2>2. blocks[j][s] \notin free_map
    BY Zenon, <1>1, <1>4 DEF Exclusive
  <2>3. ASSUME NEW t \in Slots, nb(t) = blocks[j][s] PROVE j = i /\ t = s
    <3>1. CASE t \in S
      <4>1. nb(t) = got[t]
        BY Zenon, <3>1 DEF NewBlock
      <4>2. got[t] \in free_map
        BY <1>2, <3>1
      <4> QED BY Zenon, <2>2, <2>3, <4>1, <4>2
    <3>2. CASE t \notin S
      <4>1. nb(t) = blocks[i][t]
        BY Zenon, <3>2 DEF NewBlock
      <4> QED BY Zenon, <1>1, <1>4, <2>3, <4>1 DEF Exclusive
    <3> QED BY Zenon, <3>1, <3>2
  <2> QED BY <1>3, <2>1, <2>2, <2>3
<1> HIDE DEF nb, taken, In
<1>5. ASSUME NEW c \in Cells, blocks[j][s] # 0, ~(j = i /\ In(s, c))
      PROVE  content'[blocks[j][s]][c] = content[blocks[j][s]][c]
  <2> DEFINE b == blocks[j][s]
  <2>1. ~ \E t \in Slots : nb(t) = b /\ In(t, c)
    BY Zenon, <1>4, <1>5
  <2>2. b \in Blocks /\ b \notin taken
    BY Zenon, <1>4, <1>5
  <2> HIDE DEF b
  <2>3. content'[b][c] = IF \E t \in Slots : nb(t) = b /\ In(t, c) THEN v ELSE IF b \in taken THEN Zero ELSE content[b][c]
    BY <1>2, <2>2
  <2>4. content'[b][c] = content[b][c]
    BY Zenon, <2>1, <2>2, <2>3
  <2> QED BY Zenon, <2>4 DEF b
<1>6. j # i => blocks'[j][s] = blocks[j][s]
  BY <1>1, <1>2 DEF InodeBlocksType
<1>7. j = i => blocks'[j][s] = nb(s)
  BY <1>1, <1>2 DEF InodeBlocksType
<1>8. ASSUME j = i, blocks[j][s] # 0 PROVE blocks'[j][s] = blocks[j][s]
  <2>1. s \notin S
    BY Zenon, <1>2, <1>8
  <2>2. nb(s) = blocks[i][s]
    BY Zenon, <2>1 DEF NewBlock, nb
  <2> QED BY Zenon, <1>7, <1>8, <2>2
<1> QED BY Zenon, <1>5, <1>6, <1>7, <1>8 DEF nb, In

LEMMA WriteTree ==
    ASSUME TreeInv, NEW i \in Inodes, node_type[i] = "file", NEW off \in Nat, NEW v, NEW S, NEW got, NEW done,
           WriteTo(i, off, v, S, got, done), node_type' = node_type
    PROVE  Tree' /\ E0' = E0 /\ Owned(blocks', free_map')
<1>1. FsInvariant /\ Tree /\ Owned(blocks, free_map)
  BY Zenon DEF TreeInv
<1>2. "file" # "dir" /\ "file" # "free"
  OBVIOUS
<1>3. ASSUME NEW j \in Inodes, node_type[j] # "file" PROVE j # i
  BY Zenon, <1>3
<1>4. ASSUME NEW j \in Inodes, NEW s \in Slots, j # i
      PROVE  /\ blocks'[j][s] = blocks[j][s]
             /\ blocks[j][s] # 0 => \A c \in Cells : content'[blocks[j][s]][c] = content[blocks[j][s]][c]
  BY <1>1, <1>4, WriteCells
<1>5. \A d \in Inodes : node_type[d] = "dir" => size'[d] = size[d]
  BY Zenon, <1>2, <1>3 DEF WriteTo
<1>6. \A d \in Inodes, s \in Slots : node_type[d] = "dir" =>
              /\ blocks'[d][s] = blocks[d][s]
              /\ blocks[d][s] # 0 => \A c \in Cells : content'[blocks[d][s]][c] = content[blocks[d][s]][c]
  BY Zenon, <1>2, <1>3, <1>4
<1>7. \A j \in Inodes, s \in Slots : node_type[j] = "free" => blocks'[j][s] = 0
  <2>1. \A j \in Inodes, s \in Slots : node_type[j] = "free" => blocks[j][s] = 0
    BY Zenon, <1>1 DEF Tree, Shape
  <2>2. ASSUME NEW j \in Inodes, NEW s \in Slots, node_type[j] = "free" PROVE blocks'[j][s] = 0
    <3>1. j # i
      BY Zenon, <1>2, <2>2
    <3>2. blocks'[j][s] = blocks[j][s]
      BY <1>4, <3>1
    <3>3. blocks[j][s] = 0
      BY <2>1, <2>2
    <3> QED BY <3>2, <3>3
  <2> QED BY Zenon, <2>2
<1>8. Tree' /\ E0' = E0
  BY <1>1, <1>5, <1>6, <1>7, QuietTree
<1>9. Owned(blocks', free_map')
  <2> SUFFICES ASSUME NEW b \in Blocks, b \notin free_map'
               PROVE  \E j \in Inodes, s \in Slots : blocks'[j][s] = b
    BY DEF Owned
  <2>1. free_map' = free_map \ {got[s] : s \in S} /\ S \in SUBSET Slots
    BY Zenon DEF WriteTo
  <2>2. CASE b \in free_map
    <3>1. PICK s \in S : got[s] = b
      BY <2>1, <2>2
    <3>2. s \in Slots
      BY <2>1
    <3>3. blocks'[i][s] = NewBlock(i, S, got, s)
      BY <1>1, <3>2, WriteCells
    <3> QED BY Zenon, <3>1, <3>2, <3>3 DEF NewBlock
  <2>3. CASE b \notin free_map
    <3>1. PICK j \in Inodes, s \in Slots : blocks[j][s] = b
      BY <1>1, <2>3 DEF Owned
    <3>2. b # 0
      BY Constants
    <3>3. blocks'[j][s] = blocks[j][s]
      BY <1>1, <3>1, <3>2, WriteCells
    <3> QED BY Zenon, <3>1, <3>3
  <2> QED BY <2>2, <2>3
<1> QED BY Zenon, <1>8, <1>9

\* What freeing the slots of S does to the blocks.
LEMMA FreeSlotsCells ==
    ASSUME FsInvariant, NEW i \in Inodes, NEW first, FreeSlots(i, UsedFrom(i, first))
    PROVE  /\ \A j \in Inodes, s \in Slots :
                blocks'[j][s] = IF j = i /\ s >= first THEN 0 ELSE blocks[j][s]
           /\ Owned(blocks, free_map) => Owned(blocks', free_map')
<1> DEFINE S == UsedFrom(i, first)
           g == [s \in Slots |-> IF s \in S THEN 0 ELSE blocks[i][s]]
<1>1. blocks \in InodeBlocksType
  BY DiskIs
<1>2. free_map' = free_map \cup {blocks[i][s] : s \in S} /\ blocks' = [blocks EXCEPT ![i] = g]
  BY Zenon DEF FreeSlots
<1>3. \A s \in Slots : s \in S <=> s >= first /\ blocks[i][s] # 0
  BY Zenon DEF UsedFrom
<1> HIDE DEF S
<1>4. ASSUME NEW j \in Inodes, NEW s \in Slots
      PROVE  blocks'[j][s] = IF j = i /\ s >= first THEN 0 ELSE blocks[j][s]
  <2>1. g[s] = IF s >= first THEN 0 ELSE blocks[i][s]
    BY <1>3
  <2> HIDE DEF g
  <2>2. blocks'[j][s] = IF j = i THEN g[s] ELSE blocks[j][s]
    BY <1>1, <1>2 DEF InodeBlocksType
  <2> QED BY Zenon, <2>1, <2>2
<1>5. ASSUME Owned(blocks, free_map), NEW b \in Blocks, b \notin free_map'
      PROVE  \E j \in Inodes, s \in Slots : blocks'[j][s] = b
  <2>1. b \notin free_map /\ \A s \in S : blocks[i][s] # b
    BY <1>2, <1>5
  <2>2. PICK j \in Inodes, s \in Slots : blocks[j][s] = b
    BY <1>5, <2>1 DEF Owned
  <2>3. b # 0
    BY Constants
  <2>4. ~(j = i /\ s >= first)
    BY Zenon, <1>3, <2>1, <2>2, <2>3
  <2> QED BY Zenon, <1>4, <2>2, <2>4
<1> QED BY Zenon, <1>4, <1>5 DEF Owned

LEMMA TruncateTree ==
    ASSUME TreeInv, NEW f \in Fds, NEW length, Truncate(f, length), node_type[fds[f].inode] = "file"
    PROVE  Tree' /\ E0' = E0 /\ Owned(blocks', free_map') /\ UNCHANGED <<node_type, fds>>
<1> DEFINE i == fds[f].inode
<1>1. FsInvariant /\ Tree /\ Owned(blocks, free_map)
  BY Zenon DEF TreeInv
<1>2. i \in Inodes
  BY <1>1, Parts DEF FdsType
<1>3. /\ FreeSlots(i, UsedFrom(i, Keep(length))) /\ size' = [size EXCEPT ![i] = length]
      /\ UNCHANGED <<node_type, content, fds>>
  BY Zenon DEF Truncate
<1>4. node_type[i] = "file" /\ "file" # "dir" /\ "file" # "free"
  OBVIOUS
<1> HIDE DEF i
<1>5. \A j \in Inodes, s \in Slots :
        blocks'[j][s] = IF j = i /\ s >= Keep(length) THEN 0 ELSE blocks[j][s]
  BY <1>1, <1>2, <1>3, FreeSlotsCells
<1>6. Owned(blocks', free_map')
  BY <1>1, <1>2, <1>3, FreeSlotsCells
<1>7. \A d \in Inodes : node_type[d] = "dir" => size'[d] = size[d]
  <2>1. size \in [Inodes -> Nat]
    BY <1>1, DiskIs
  <2> QED BY <1>3, <1>4, <2>1
<1>8. \A d \in Inodes, s \in Slots : node_type[d] = "dir" => blocks'[d][s] = blocks[d][s]
  BY Zenon, <1>4, <1>5
<1>9. \A j \in Inodes, s \in Slots : node_type[j] = "free" => blocks'[j][s] = 0
  <2>1. \A j \in Inodes, s \in Slots : node_type[j] = "free" => blocks[j][s] = 0
    BY Zenon, <1>1 DEF Tree, Shape
  <2> QED BY Zenon, <1>4, <1>5, <2>1
<1>10. content' = content /\ node_type' = node_type /\ fds' = fds
  BY <1>3
<1>11. Tree' /\ E0' = E0
  BY <1>1, <1>7, <1>8, <1>9, <1>10, QuietTree
<1> QED BY Zenon, <1>6, <1>10, <1>11

-----------------------------------------------------------------------------
(* Descriptors.                                                             *)

LEMMA FdsRetype ==
    ASSUME fds \in FdsType, NEW nt \in TypesType, FdsLive(fds, nt), NEW i \in Inodes, NEW type,
           \A f \in Fds : fds[f].valid => fds[f].inode # i
    PROVE  FdsLive(fds, [nt EXCEPT ![i] = type])
<1>1. \A j \in Inodes : j # i => [nt EXCEPT ![i] = type][j] = nt[j]
  BY DEF TypesType
<1>2. \A f \in Fds : fds[f].inode \in Inodes
  BY DEF FdsType
<1> QED BY Zenon, <1>1, <1>2 DEF FdsLive

LEMMA FdsTake ==
    ASSUME fds \in FdsType, NEW nt, FdsLive(fds, nt), NEW i \in Inodes, NEW flags, TakeSlot(i, flags),
           nt[i] # "free", flags = "rw" => nt[i] = "file"
    PROVE  FdsLive(fds', nt)
<1>1. CASE fds' = fds
  BY <1>1 DEF FdsLive
<1>2. ASSUME NEW f \in Fds, fds' = [fds EXCEPT ![f] = [valid |-> TRUE, inode |-> i, flags |-> flags, pos |-> 0]]
      PROVE  FdsLive(fds', nt)
  <2> DEFINE new == [valid |-> TRUE, inode |-> i, flags |-> flags, pos |-> 0]
  <2>1. new.inode = i /\ new.flags = flags
    OBVIOUS
  <2>2. fds' = [fds EXCEPT ![f] = new]
    BY Zenon, <1>2
  <2> HIDE DEF new
  <2>3. \A g \in Fds : fds'[g] = IF g = f THEN new ELSE fds[g]
    BY <2>2 DEF FdsType
  <2> QED BY Zenon, <2>1, <2>3 DEF FdsLive
<1> QED BY <1>1, <1>2 DEF TakeSlot

LEMMA FdsPos ==
    ASSUME fds \in FdsType, NEW nt, FdsLive(fds, nt), NEW f \in Fds, NEW pos, fds' = [fds EXCEPT ![f].pos = pos]
    PROVE  FdsLive(fds', nt)
<1>1. \A g \in Fds : fds'[g].valid = fds[g].valid /\ fds'[g].inode = fds[g].inode /\ fds'[g].flags = fds[g].flags
  BY DEF FdsType
<1> QED BY Zenon, <1>1 DEF FdsLive

LEMMA FdsClose ==
    ASSUME fds \in FdsType, NEW nt, FdsLive(fds, nt), NEW f \in Fds, fds' = [fds EXCEPT ![f] = Closed]
    PROVE  FdsLive(fds', nt)
<1>1. \A g \in Fds : fds'[g] = IF g = f THEN Closed ELSE fds[g]
  BY DEF FdsType
<1>2. ~ Closed.valid
  BY DEF Closed
<1> QED BY Zenon, <1>1, <1>2 DEF FdsLive

LEMMA QuietDisk ==
    ASSUME UNCHANGED diskVars, FsInvariant, Tree, Owned(blocks, free_map)
    PROVE  Tree' /\ E0' = E0 /\ Owned(blocks', free_map') /\ node_type' = node_type
BY DEF diskVars, Tree, E0

-----------------------------------------------------------------------------
(* The invariant holds of the new image and every call keeps it.            *)

LEMMA TreeInit == Init => TreeInv
<1> SUFFICES ASSUME Init PROVE TreeInv
  OBVIOUS
<1>1. FsInvariant
  BY InitInvariant
<1>2. /\ node_type = [i \in Inodes |-> IF i = Root THEN "dir" ELSE "free"]
      /\ size = [i \in Inodes |-> 0]
      /\ blocks = [i \in Inodes |-> [s \in Slots |-> IF i = Root /\ s = 0 THEN 1 ELSE 0]]
      /\ free_map = Blocks \ {1}
      /\ content = [b \in Blocks |-> ZeroBlock]
      /\ fds = [f \in Fds |-> Closed]
  BY DEF Init
<1>3. E0 = {}
  <2> SUFFICES ASSUME NEW x \in E0 PROVE FALSE
    OBVIOUS
  <2>1. x \in Places /\ IsEntry(node_type, blocks, content, x[1], x[2], x[3], x[4], x[5])
    BY Zenon, EntsIs DEF E0
  <2> DEFINE d == x[1]
             s == x[2]
             c == x[3]
  <2>2. d \in Inodes /\ s \in Slots /\ c \in Cells
    BY <2>1, PlaceIs
  <2>3. blocks[d][s] # 0 /\ content[blocks[d][s]][c] = Entry(x[4], x[5])
    BY Zenon, <2>1 DEF IsEntry
  <2> HIDE DEF d, s, c
  <2>4. blocks[d][s] \in Blocks
    BY <1>2, <2>2, <2>3, Constants
  <2>5. content[blocks[d][s]] = ZeroBlock
    BY <1>2, <2>4
  <2>6. content[blocks[d][s]][c] = Zero
    BY <2>2, <2>5 DEF ZeroBlock
  <2>7. Entry(x[4], x[5]) # Zero
    BY EntryIs
  <2> QED BY Zenon, <2>3, <2>6, <2>7
<1>4. Shape(node_type, blocks)
  <2>1. node_type[Root] = "dir"
    BY <1>2, Constants
  <2>2. \A i \in Inodes, s \in Slots : node_type[i] = "free" => blocks[i][s] = 0
    BY <1>2
  <2>3. ASSUME NEW d \in Inodes, NEW s \in Slots, NEW t \in Slots, t < s PROVE blocks[d][s] = 0
    <3>1. s # 0
      BY <2>3, Constants
    <3> QED BY <1>2, <3>1
  <2> QED BY Zenon, <2>1, <2>2, <2>3 DEF Shape
<1>5. Forest({}, node_type, size, {})
  <2>1. \A d : NamesIn({}, d) = {}
    BY DEF NamesIn
  <2>2. IsFiniteSet({}) /\ Cardinality({}) = 0
    BY FS_EmptySet
  <2>3. \A d \in Inodes : IsFiniteSet(NamesIn({}, d)) /\ size[d] = Cardinality(NamesIn({}, d))
    BY <1>2, <2>1, <2>2
  <2>4. \A i \in Inodes : node_type[i] # "free" => i = Root
    BY <1>2
  <2> QED BY <2>3, <2>4 DEF Forest
<1>6. Owned(blocks, free_map)
  <2> SUFFICES ASSUME NEW b \in Blocks, b \notin free_map PROVE \E i \in Inodes, s \in Slots : blocks[i][s] = b
    BY DEF Owned
  <2>1. b = 1
    BY <1>2
  <2>2. blocks[Root][0] = 1
    BY <1>2, Constants
  <2> QED BY <2>1, <2>2, Constants
<1>7. FdsLive(fds, node_type)
  <2>1. \A f \in Fds : fds[f] = Closed
    BY <1>2
  <2>2. ~ Closed.valid
    BY DEF Closed
  <2> QED BY Zenon, <2>1, <2>2 DEF FdsLive
<1> QED BY Zenon, <1>1, <1>3, <1>4, <1>5, <1>6, <1>7 DEF TreeInv, Tree

\* What careful programs may be in the middle of, and what each call then is:
\* nothing to the entries, one entry more, one less, or one that moves.
Quiet == E0' = E0

Adds(path) == resolve(path) = NoInode /\ \E d \in Parent(path), i \in Inodes : AddedTo(E0, E0', d, Last(path), i)

Drops(path) == \E i \in Named(path), x \in E0 : x[5] = i /\ E0' = E0 \ {x} /\ \A y \in E0 : y[1] # i

Moves(old, new) ==
    \E i \in Named(old), p \in Parent(new), x \in E0 :
        x[5] = i /\ AddedTo(E0 \ {x}, E0', p, Last(new), i) /\ ~ IsPrefix(old, new)

TreeKept == Tree' /\ Owned(blocks', free_map') /\ FdsLive(fds', node_type')

LEMMA TreeCreate ==
    ASSUME TreeInv, NEW path \in NamedPaths, resolve(path) = NoInode, NEW type \in {"file", "dir"},
           NEW i \in inode_map, CreateAt(path, type, i), fds' = fds \/ (type = "file" /\ TakeSlot(i, "rw"))
    PROVE  TreeKept /\ Adds(path)
<1>1. FsInvariant /\ Tree /\ FdsLive(fds, node_type)
  BY Zenon DEF TreeInv
<1>2. /\ Tree' /\ Owned(blocks', free_map')
      /\ node_type' = [node_type EXCEPT ![i] = type]
      /\ \E d \in Parent(path) : AddedTo(E0, E0', d, Last(path), i)
  BY CreateTree
<1>3. i \in Inodes /\ node_type[i] = "free"
  BY <1>1, FreeIs
<1>4. node_type \in TypesType /\ fds \in FdsType
  BY <1>1, DiskIs
<1>5. \A f \in Fds : fds[f].valid => fds[f].inode # i
  BY Zenon, <1>1, <1>3 DEF FdsLive
<1>6. FdsLive(fds, node_type')
  BY <1>1, <1>2, <1>3, <1>4, <1>5, FdsRetype
<1>7. node_type'[i] = type
  BY <1>2, <1>3, <1>4 DEF TypesType
<1>8. FdsLive(fds', node_type')
  <2>1. CASE fds' = fds
    BY <1>6, <2>1
  <2>2. CASE type = "file" /\ TakeSlot(i, "rw")
    <3>1. node_type'[i] # "free" /\ ("rw" = "rw" => node_type'[i] = "file")
      BY <1>7, <2>2
    <3> QED BY <1>3, <1>4, <1>6, <2>2, <3>1, FdsTake
  <2> QED BY <2>1, <2>2
<1> QED BY Zenon, <1>2, <1>3, <1>8 DEF TreeKept, Adds

LEMMA TreeRelease ==
    ASSUME TreeInv, CarefulFds, NEW path \in NamedPaths, NEW i \in Named(path), Release(path, i),
           node_type[i] = "file" \/ size[i] = 0
    PROVE  TreeKept /\ Drops(path)
<1>1. FsInvariant /\ Tree /\ FdsLive(fds, node_type)
  BY Zenon DEF TreeInv
<1>2. i \in Inodes /\ node_type \in TypesType /\ fds \in FdsType
  BY <1>1, DiskIs, NamedInodes
<1>3. Forest(E0, node_type, size, {})
  BY Zenon, <1>1 DEF Tree
<1>4. /\ \A y \in E0 : y \in Places /\ node_type[y[1]] = "dir"
      /\ \A d \in Inodes : node_type[d] = "dir" =>
           IsFiniteSet(NamesIn(E0, d)) /\ size[d] = Cardinality(NamesIn(E0, d))
  BY <1>3, ForestIs
<1>5. ASSUME NEW y \in E0, y[1] = i PROVE FALSE
  <2>1. node_type[i] = "dir" /\ y[4] \in Names
    BY Zenon, <1>4, <1>5, PlaceIs
  <2>2. size[i] = 0
    BY <2>1
  <2>3. IsFiniteSet(NamesIn(E0, i)) /\ Cardinality(NamesIn(E0, i)) = 0
    BY Zenon, <1>2, <1>4, <2>1, <2>2
  <2>4. NamesIn(E0, i) = {}
    BY <2>3, FS_EmptySet
  <2>5. y[4] \in NamesIn(E0, i)
    BY Zenon, <1>5, <2>1 DEF NamesIn
  <2> QED BY <2>4, <2>5
<1>6. /\ Tree' /\ Owned(blocks', free_map')
      /\ node_type' = [node_type EXCEPT ![i] = "free"]
      /\ \E x \in E0 : x[5] = i /\ E0' = E0 \ {x}
  BY <1>5, ReleaseTree
<1>7. fds' = fds /\ ~ IsOpen(i)
  BY Zenon DEF Release
<1>8. FdsLive(fds, node_type')
  <2>1. \A f \in Fds : fds[f].valid => fds[f].inode # i
    BY Zenon, <1>7 DEF IsOpen
  <2> QED BY <1>1, <1>2, <1>6, <2>1, FdsRetype
<1> QED BY Zenon, <1>5, <1>6, <1>7, <1>8 DEF TreeKept, Drops

LEMMA TreeRename ==
    ASSUME TreeInv, CarefulNames, NEW old \in NamedPaths, NEW new \in NamedPaths, Rename(old, new)
    PROVE  TreeKept /\ Moves(old, new)
<1>1. FsInvariant /\ Tree /\ FdsLive(fds, node_type)
  BY Zenon DEF TreeInv
<1>2. PICK i \in Named(old), d \in Parent(old), p \in Parent(new) :
        /\ resolve(new) = NoInode /\ node_type[p] = "dir" /\ ~ IsPrefix(old, new)
        /\ UNCHANGED <<node_type, inode_map, free_inodes, fds>>
        /\ AddEntry(blocks, LeftBehind(d), Removed(d, Last(old)), p, Entry(Last(new), i))
  BY Zenon DEF Rename, RenameFrom
<1>3. node_type' = node_type /\ fds' = fds
  BY <1>2
<1>4. p \in Inodes /\ Last(new) \notin NamesIn(E0, p)
  BY <1>1, <1>2, NamedEntry
<1>5. Last(new) \in Names
  BY PathIs DEF NamedPaths
<1> DEFINE n == Last(new)
<1> HIDE DEF n
<1>6. /\ n \in Names /\ n \notin NamesIn(E0, p)
      /\ AddEntry(blocks, LeftBehind(d), Removed(d, Last(old)), p, Entry(n, i))
  BY Zenon, <1>2, <1>4, <1>5 DEF n
<1>7. /\ Tree' /\ Owned(blocks', free_map')
      /\ \E x \in E0 : x[5] = i /\ AddedTo(E0 \ {x}, E0', p, n, i)
  BY <1>2, <1>3, <1>4, <1>6, MoveTree
<1> QED BY Zenon, <1>1, <1>2, <1>3, <1>7 DEF TreeKept, Moves, n

\* The entry goes back to its directory, perhaps to another cell.
GoesBack(old) ==
    \E i \in Named(old), d \in Parent(old), x \in E0 :
        /\ x[1] = d /\ x[4] = Last(old) /\ x[5] = i
        /\ AddedTo(E0 \ {x}, E0', d, Last(old), i)

LEMMA TreeRollsBack ==
    ASSUME TreeInv, NEW old \in NamedPaths, NEW new \in NamedPaths, RenameRollsBack(old, new)
    PROVE  TreeKept /\ GoesBack(old)
<1>1. FsInvariant /\ Tree /\ FdsLive(fds, node_type)
  BY Zenon DEF TreeInv
<1>2. PICK i \in Named(old), d \in Parent(old) :
        /\ UNCHANGED <<node_type, inode_map, free_inodes, fds>>
        /\ AddEntry(blocks, LeftBehind(d), Removed(d, Last(old)), d, Entry(Last(old), i))
  BY Zenon DEF RenameRollsBack, RenameFrom
<1>3. node_type' = node_type /\ fds' = fds
  BY <1>2
<1>4. d \in Inodes /\ node_type[d] = "dir"
  BY Zenon, <1>1, RemoveTree
<1>5. Last(old) \in Names
  BY PathIs DEF NamedPaths
<1> DEFINE n == Last(old)
<1>6. n \in Names /\ n = Last(old) /\ AddEntry(blocks, LeftBehind(d), Removed(d, Last(old)), d, Entry(n, i))
  BY Zenon, <1>2, <1>5
<1> HIDE DEF n
<1>7. /\ Tree' /\ Owned(blocks', free_map')
      /\ \E x \in E0 : x[1] = d /\ x[4] = Last(old) /\ x[5] = i /\ AddedTo(E0 \ {x}, E0', d, n, i)
  BY <1>3, <1>4, <1>6, MoveTree
<1> QED BY Zenon, <1>1, <1>3, <1>6, <1>7 DEF TreeKept, GoesBack

\* The calls on descriptors.
LEMMA TreeQuiet ==
    ASSUME TreeInv, CarefulFds,
           \/ \E path \in Paths, flags \in {"ro", "rw"} : Open(path, flags)
           \/ \E f \in Fds :
                \/ Close(f) \/ ReadNext(f)
                \/ \E pos \in 0 .. MaxPos : Seek(f, pos)
                \/ \E n \in 1 .. MaxWrite, v \in Written : Write(f, n, v)
                \/ \E length \in 0 .. Capacity : Truncate(f, length)
           \/ UNCHANGED vars
    PROVE  TreeKept /\ Quiet
<1>1. FsInvariant /\ Tree /\ FdsLive(fds, node_type) /\ Owned(blocks, free_map)
  BY Zenon DEF TreeInv
<1>2. fds \in FdsType
  BY <1>1, DiskIs
<1>3. ASSUME UNCHANGED diskVars, FdsLive(fds', node_type) PROVE TreeKept /\ Quiet
  <2>1. Tree' /\ E0' = E0 /\ Owned(blocks', free_map') /\ node_type' = node_type
    BY <1>1, <1>3, QuietDisk
  <2> QED BY Zenon, <1>3, <2>1 DEF TreeKept, Quiet
<1>4. ASSUME NEW path \in Paths, NEW flags \in {"ro", "rw"}, Open(path, flags) PROVE TreeKept /\ Quiet
  <2>1. PICK i \in Named(path) : /\ node_type[i] = "dir" => flags = "ro"
                                 /\ TakeSlot(i, flags) /\ UNCHANGED diskVars
    BY Zenon, <1>4 DEF Open
  <2>2. i \in Inodes /\ node_type \in TypesType
    BY <1>1, NamedInodes, DiskIs
  <2>3. node_type[i] # "free"
    <3>1. Forest(E0, node_type, size, {}) /\ node_type[Root] = "dir"
      BY Zenon, <1>1 DEF Tree, Shape
    <3>2. path \in Seq(Names)
      BY PathIs
    <3>3. Leads(E0, path, i)
      BY <1>1, <2>2, <3>2, NamedLeads
    <3>4. CASE path = <<>>
      <4>0. Leads(E0, <<>>, i)
        BY <3>3, <3>4
      <4>1. i = Root
        BY <2>2, <4>0, LeadsRoot
      <4> QED BY <3>1, <4>1
    <3>5. CASE path # <<>>
      <4>1. path \in NamedPaths
        BY <3>5 DEF NamedPaths
      <4>2. PICK d \in Inodes : HasEntry(E0, d, Last(path), i)
        BY Zenon, <2>2, <3>3, <4>1, LeadsFront
      <4>3. \E x \in E0 : x[5] = i
        BY Zenon, <4>2 DEF HasEntry
      <4>4. \A j \in Inodes : (\E x \in E0 : x[5] = j) <=> (node_type[j] # "free" /\ j # Root)
        BY <3>1, ForestIs
      <4> QED BY Zenon, <2>2, <4>3, <4>4
    <3> QED BY <3>4, <3>5
  <2>4. flags = "rw" => node_type[i] = "file"
    BY <2>1, <2>2, <2>3 DEF TypesType
  <2>5. FdsLive(fds', node_type)
    BY <1>1, <1>2, <2>1, <2>2, <2>3, <2>4, FdsTake
  <2> QED BY <1>3, <2>1, <2>5
<1>5. ASSUME NEW f \in Fds, Close(f) PROVE TreeKept /\ Quiet
  BY <1>1, <1>2, <1>3, <1>5, FdsClose DEF Close
<1>6. ASSUME NEW f \in Fds, ReadNext(f) PROVE TreeKept /\ Quiet
  <2>1. fds' = [fds EXCEPT ![f].pos = fds[f].pos + 1] /\ UNCHANGED diskVars
    BY <1>6 DEF ReadNext
  <2>2. FdsLive(fds', node_type)
    BY <1>1, <1>2, <2>1, FdsPos
  <2> QED BY <1>3, <2>1, <2>2
<1>7. ASSUME NEW f \in Fds, NEW pos \in 0 .. MaxPos, Seek(f, pos) PROVE TreeKept /\ Quiet
  <2>1. fds' = [fds EXCEPT ![f].pos = pos] /\ UNCHANGED diskVars
    BY <1>7 DEF Seek
  <2>2. FdsLive(fds', node_type)
    BY <1>1, <1>2, <2>1, FdsPos
  <2> QED BY <1>3, <2>1, <2>2
<1>8. ASSUME NEW f \in Fds, NEW n \in 1 .. MaxWrite, NEW v \in Written, Write(f, n, v) PROVE TreeKept /\ Quiet
  <2>1. n \in Nat /\ v \in CellValues
    BY FileSystemAssumption DEF Written
  <2>2. /\ fds[f].valid /\ fds[f].flags = "rw" /\ fds[f].inode \in Inodes /\ fds[f].pos \in Nat
        /\ node_type' = node_type
        /\ \E S, got, done : /\ WriteTo(fds[f].inode, fds[f].pos, v, S, got, done)
                             /\ fds' = [fds EXCEPT ![f].pos = fds[f].pos + done]
    BY <1>1, <1>8, <2>1, WriteIs
  <2>3. PICK S, got, done : /\ WriteTo(fds[f].inode, fds[f].pos, v, S, got, done)
                            /\ fds' = [fds EXCEPT ![f].pos = fds[f].pos + done]
    BY Zenon, <2>2
  <2>4. node_type[fds[f].inode] = "file"
    BY Zenon, <1>1, <2>2 DEF FdsLive
  <2> DEFINE i == fds[f].inode
             off == fds[f].pos
             pos == fds[f].pos + done
  <2>5. /\ i \in Inodes /\ off \in Nat /\ node_type[i] = "file" /\ WriteTo(i, off, v, S, got, done)
        /\ fds' = [fds EXCEPT ![f].pos = pos]
    BY Zenon, <2>2, <2>3, <2>4
  <2> HIDE DEF i, off, pos
  <2>6. Tree' /\ E0' = E0 /\ Owned(blocks', free_map')
    BY <2>2, <2>5, WriteTree
  <2>7. FdsLive(fds', node_type)
    BY <1>1, <1>2, <2>5, FdsPos
  <2> QED BY Zenon, <2>2, <2>6, <2>7 DEF TreeKept, Quiet
<1>9. ASSUME NEW f \in Fds, NEW length \in 0 .. Capacity, Truncate(f, length) PROVE TreeKept /\ Quiet
  <2>1. fds[f].valid /\ fds[f].flags = "rw"
    BY Zenon, <1>9 DEF Truncate
  <2>2. node_type[fds[f].inode] = "file"
    BY Zenon, <1>1, <2>1 DEF FdsLive
  <2>3. Tree' /\ E0' = E0 /\ Owned(blocks', free_map') /\ UNCHANGED <<node_type, fds>>
    BY <1>9, <2>2, TruncateTree
  <2>4. node_type' = node_type /\ fds' = fds
    BY <2>3
  <2> QED BY Zenon, <1>1, <2>3, <2>4 DEF TreeKept, Quiet
<1>10. ASSUME UNCHANGED vars PROVE TreeKept /\ Quiet
  <2>1. UNCHANGED diskVars /\ fds' = fds
    BY <1>10 DEF vars, diskVars
  <2> QED BY <1>1, <1>3, <2>1
<1> QED BY Zenon, <1>4, <1>5, <1>6, <1>7, <1>8, <1>9, <1>10

\* Every call of careful programs is one of these.
LEMMA TreeCalls ==
    ASSUME CarefulNames, CarefulFds, TreeInv, [Next]_vars
    PROVE  /\ TreeKept
           /\ \/ Quiet
              \/ \E path \in NamedPaths : Adds(path) /\ (Mkdir(path) \/ OpenCreates(path))
              \/ \E path \in NamedPaths : Drops(path) /\ (Unlink(path) \/ Rmdir(path))
              \/ \E old, new \in NamedPaths : Moves(old, new) /\ Rename(old, new)
              \/ \E old \in NamedPaths : GoesBack(old)
<1>1. ASSUME NEW path \in NamedPaths, Mkdir(path) PROVE TreeKept /\ Adds(path)
  <2>1. PICK i \in inode_map : CreateAt(path, "dir", i)
    BY <1>1 DEF Mkdir
  <2>2. resolve(path) = NoInode /\ fds' = fds
    BY <1>1 DEF Mkdir
  <2> QED BY <2>1, <2>2, TreeCreate
<1>2. ASSUME NEW path \in NamedPaths, CreateFails(path) PROVE TreeKept /\ Quiet
  <2>1. Tree' /\ E0' = E0 /\ Owned(blocks', free_map') /\ UNCHANGED <<node_type, fds>>
    BY <1>2, CreateFailsTree
  <2>2. node_type' = node_type /\ fds' = fds
    BY <2>1
  <2>3. FdsLive(fds, node_type)
    BY Zenon DEF TreeInv
  <2> QED BY Zenon, <2>1, <2>2, <2>3 DEF TreeKept, Quiet
<1>3. ASSUME NEW path \in NamedPaths, OpenCreates(path) PROVE TreeKept /\ Adds(path)
  <2>1. PICK i \in inode_map : CreateAt(path, "file", i) /\ TakeSlot(i, "rw")
    BY <1>3 DEF OpenCreates
  <2>2. resolve(path) = NoInode
    BY <1>3 DEF OpenCreates
  <2> QED BY <2>1, <2>2, TreeCreate
<1>4. ASSUME NEW path \in NamedPaths, Unlink(path) PROVE TreeKept /\ Drops(path)
  <2>1. PICK i \in Named(path) : node_type[i] = "file" /\ Release(path, i)
    BY <1>4 DEF Unlink
  <2> QED BY <2>1, TreeRelease
<1>5. ASSUME NEW path \in NamedPaths, Rmdir(path) PROVE TreeKept /\ Drops(path)
  <2>1. PICK i \in Named(path) : size[i] = 0 /\ Release(path, i)
    BY <1>5 DEF Rmdir
  <2> QED BY <2>1, TreeRelease
<1>6. ASSUME NEW old \in NamedPaths, NEW new \in NamedPaths, Rename(old, new) PROVE TreeKept /\ Moves(old, new)
  BY <1>6, TreeRename
<1>7. ASSUME NEW old \in NamedPaths, NEW new \in NamedPaths, RenameRollsBack(old, new) PROVE TreeKept /\ GoesBack(old)
  BY <1>7, TreeRollsBack
<1>8. ASSUME \/ \E path \in Paths, flags \in {"ro", "rw"} : Open(path, flags)
             \/ \E f \in Fds :
                  \/ Close(f) \/ ReadNext(f)
                  \/ \E pos \in 0 .. MaxPos : Seek(f, pos)
                  \/ \E n \in 1 .. MaxWrite, v \in Written : Write(f, n, v)
                  \/ \E length \in 0 .. Capacity : Truncate(f, length)
             \/ UNCHANGED vars
      PROVE  TreeKept /\ Quiet
  BY <1>8, TreeQuiet
<1> QED BY Zenon, <1>1, <1>2, <1>3, <1>4, <1>5, <1>6, <1>7, <1>8 DEF Next

LEMMA TreeStep == CarefulNames /\ CarefulFds /\ TreeInv /\ [Next]_vars => TreeInv'
<1> SUFFICES ASSUME CarefulNames, CarefulFds, TreeInv, [Next]_vars PROVE TreeInv'
  OBVIOUS
<1>1. TreeKept
  BY TreeCalls
<1>2. FsInvariant'
  BY StepInvariant DEF TreeInv
<1> QED BY Zenon, <1>1, <1>2 DEF TreeInv, TreeKept

(* The entries of the directories of careful programs stay a forest, every *)
(* block in use belongs to an inode in use, and what is open exists.       *)
THEOREM FileTreeInvariant ==
    ASSUME CarefulNames, CarefulFds
    PROVE  Spec => []TreeInv
<1>1. TreeInv /\ [Next]_vars => TreeInv'
  BY TreeStep
<1> QED BY TreeInit, <1>1, PTL DEF Spec

LEMMA TreeSizes == TreeInv => SizeCountsEntries
<1> SUFFICES ASSUME TreeInv, NEW d \in Inodes, node_type[d] = "dir"
             PROVE  size[d] = Cardinality({n \in Names : find_in(d, n) # NoInode})
  BY DEF SizeCountsEntries
<1>1. FsInvariant /\ Tree
  BY Zenon DEF TreeInv
<1>2. Forest(E0, node_type, size, {})
  BY Zenon, <1>1 DEF Tree
<1>3. size[d] = Cardinality(NamesIn(E0, d)) /\ \A x \in E0 : x \in Places
  BY <1>2, ForestIs
<1>4. ASSUME NEW n \in Names PROVE find_in(d, n) # NoInode <=> \E x \in E0 : x[1] = d /\ x[4] = n
  <2>1. find_in(d, n) # NoInode => \E x \in E0 : x[1] = d /\ x[4] = n
    BY <1>1, FindIs
  <2>2. ASSUME NEW x \in E0, x[1] = d, x[4] = n PROVE find_in(d, n) # NoInode
    <3>1. find_in(d, n) = x[5]
      BY <1>1, <2>2, FindIs
    <3>2. x[5] \in Inodes
      BY <1>3, PlaceIs
    <3> QED BY Zenon, <3>1, <3>2, NoInodeIs
  <2> QED BY Zenon, <2>1, <2>2
<1>5. {n \in Names : find_in(d, n) # NoInode} = NamesIn(E0, d)
  BY Zenon, <1>4 DEF NamesIn
<1> QED BY Zenon, <1>3, <1>5

(* For careful programs the size that add_entry and remove_entry keep, and  *)
(* that rmdir trusts, is the number of names that find_in finds in the      *)
(* directory, also after a rename that found no room.                       *)
THEOREM FileTreeSizeCountsEntries ==
    ASSUME CarefulNames, CarefulFds
    PROVE  Spec => []SizeCountsEntries
BY FileTreeInvariant, TreeSizes, PTL

-----------------------------------------------------------------------------
(* Paths through the entries.                                               *)

LEMMA SeqIs ==
    \A path \in Seq(Names) : path # <<>> =>
        /\ Len(path) \in Nat \ {0} /\ Len(Front(path)) = Len(path) - 1 /\ Len(path) = Len(Front(path)) + 1
        /\ Front(path) \in Seq(Names) /\ Last(path) \in Names
        /\ path[Len(path)] = Last(path)
        /\ \A k \in 1 .. Len(Front(path)) : Front(path)[k] = path[k]
<1> SUFFICES ASSUME NEW path \in Seq(Names), path # <<>>
             PROVE  /\ Len(path) \in Nat \ {0} /\ Len(Front(path)) = Len(path) - 1 /\ Len(path) = Len(Front(path)) + 1
                    /\ Front(path) \in Seq(Names) /\ Last(path) \in Names
                    /\ path[Len(path)] = Last(path)
                    /\ \A k \in 1 .. Len(Front(path)) : Front(path)[k] = path[k]
  OBVIOUS
<1>1. Len(path) \in Nat /\ Len(path) # 0
  OBVIOUS
<1>2. Len(path) \in Nat \ {0} /\ Len(Front(path)) = Len(path) - 1 /\ Front(path) \in Seq(Names)
  <2> DEFINE m == Len(path) - 1
  <2>1. m \in Nat /\ m \in Int /\ 1 \in Int /\ \A j \in 1 .. m : path[j] \in Names
    BY <1>1
  <2> HIDE DEF m
  <2>2. m = IF 1 <= m THEN m - 1 + 1 ELSE 0
    BY <2>1
  <2>3. SubSeq(path, 1, m) \in Seq(Names) /\ Len(SubSeq(path, 1, m)) = IF 1 <= m THEN m - 1 + 1 ELSE 0
    BY <2>1, SubSeqProperties
  <2>4. Front(path) = SubSeq(path, 1, m)
    BY DEF Front, m
  <2> QED BY Zenon, <1>1, <2>2, <2>3, <2>4 DEF m
<1>3. Last(path) \in Names /\ path[Len(path)] = Last(path)
  BY <1>1 DEF Last
<1>4. \A k \in 1 .. Len(path) - 1 : Front(path)[k] = path[k]
  BY <1>1 DEF Front
<1> HIDE DEF Front
<1>5. Len(path) = Len(Front(path)) + 1
  BY <1>1, <1>2
<1> QED BY Zenon, <1>2, <1>3, <1>4, <1>5

LEMMA LeadsLast ==
    \A E : \A path \in Seq(Names), i \in Inodes : path # <<>> =>
        (Leads(E, path, i) <=>
           \E d \in Inodes : Leads(E, Front(path), d) /\ HasEntry(E, d, Last(path), i))
<1> SUFFICES ASSUME NEW E, NEW path \in Seq(Names), path # <<>>
             PROVE  \A i \in Inodes : Leads(E, path, i) <=>
                      \E d \in Inodes : Leads(E, Front(path), d) /\ HasEntry(E, d, Last(path), i)
  BY Zenon
<1> DEFINE front == Front(path)
           n == Last(path)
<1>1. front \in Seq(Names) /\ Len(path) = Len(front) + 1 /\ path[Len(path)] = n /\ \A k \in 1 .. Len(front) : front[k] = path[k]
  BY Zenon, SeqIs
<1> HIDE DEF front, n
<1>2. \A i \in Inodes : Leads(E, path, i) <=> \E d \in Inodes : Leads(E, front, d) /\ HasEntry(E, d, n, i)
  BY <1>1, LeadsExtend
<1> QED BY Zenon, <1>2 DEF front, n

LEMMA LeadsMono ==
    ASSUME NEW E, NEW E2, \A d, n, i : HasEntry(E, d, n, i) => HasEntry(E2, d, n, i), NEW path, NEW i, Leads(E, path, i)
    PROVE  Leads(E2, path, i)
<1>1. PICK f : LeadsBy(E, path, f, i)
  BY Zenon DEF Leads
<1>2. LeadsBy(E2, path, f, i)
  BY <1>1, LeadsByIs
<1> QED BY Zenon, <1>2 DEF Leads

LEMMA LeadsMore ==
    ASSUME NEW E, NEW E2, E \subseteq E2, NEW path, NEW i, Leads(E, path, i)
    PROVE  Leads(E2, path, i)
<1>1. \A d, n, j : HasEntry(E, d, n, j) => HasEntry(E2, d, n, j)
  BY DEF HasEntry
<1> QED BY <1>1, LeadsMono

\* The first k names of a path that leads somewhere.
LEMMA LeadsPrefix ==
    ASSUME NEW E, NEW path \in Seq(Names), NEW f, NEW i, LeadsBy(E, path, f, i), NEW k \in 0 .. Len(path)
    PROVE  /\ Leads(E, SubSeq(path, 1, k), f[k]) /\ SubSeq(path, 1, k) \in Seq(Names)
           /\ Len(SubSeq(path, 1, k)) = k /\ f[k] \in Inodes
           /\ IsPrefix(SubSeq(path, 1, k), path)
<1> DEFINE p == SubSeq(path, 1, k)
           g == [j \in 0 .. k |-> f[j]]
<1>1. p \in Seq(Names) /\ Len(p) = k /\ \A j \in 1 .. k : p[j] = path[j]
  OBVIOUS
<1>2. /\ f \in [0 .. Len(path) -> Inodes] /\ f[0] = Root /\ f[Len(path)] = i
      /\ \A j \in 1 .. Len(path) : HasEntry(E, f[j - 1], path[j], f[j])
  BY LeadsByIs
<1>3. g \in [0 .. k -> Inodes] /\ g[0] = Root /\ g[k] = f[k] /\ f[k] \in Inodes
  <2>1. \A j \in 0 .. k : j \in 0 .. Len(path)
    OBVIOUS
  <2>2. 0 \in 0 .. k /\ k \in 0 .. k
    OBVIOUS
  <2>3. \A j \in 0 .. k : g[j] = f[j]
    OBVIOUS
  <2>4. \A j \in 0 .. k : f[j] \in Inodes
    BY <1>2, <2>1
  <2>5. g \in [0 .. k -> Inodes]
    BY <2>4
  <2> QED BY Zenon, <1>2, <2>2, <2>3, <2>4, <2>5
<1>4. ASSUME NEW j \in 1 .. k PROVE HasEntry(E, g[j - 1], p[j], g[j])
  <2>1. HasEntry(E, f[j - 1], path[j], f[j])
    BY <1>2
  <2>2. g[j - 1] = f[j - 1] /\ g[j] = f[j] /\ p[j] = path[j]
    BY <1>1
  <2> QED BY Zenon, <2>1, <2>2
<1>5. IsPrefix(p, path)
  <2>1. Len(p) <= Len(path)
    BY <1>1
  <2>2. SubSeq(p, 1, Len(p)) = p
    BY <1>1
  <2>3. SubSeq(path, 1, Len(p)) = p
    BY Zenon, <1>1
  <2> QED BY Zenon, <2>1, <2>2, <2>3 DEF IsPrefix
<1> HIDE DEF p, g
<1>6. LeadsBy(E, p, g, f[k])
  BY <1>1, <1>3, <1>4, LeadsByIs
<1>7. Leads(E, p, f[k])
  BY Zenon, <1>6 DEF Leads
<1> QED BY Zenon, <1>1, <1>3, <1>5, <1>7 DEF p

\* A path that needs the entry x starts with one that ends with it.
LEMMA Uses ==
    ASSUME NEW E, NEW x, NEW path \in Seq(Names), NEW i, Leads(E, path, i), ~ Leads(E \ {x}, path, i)
    PROVE  \E p \in Seq(Names) : /\ Leads(E, p, x[5]) /\ x[5] \in Inodes /\ IsPrefix(p, path)
                                 /\ p # <<>> /\ Len(p) <= Len(path)
<1>1. PICK f : LeadsBy(E, path, f, i)
  BY Zenon DEF Leads
<1>2. /\ f \in [0 .. Len(path) -> Inodes] /\ f[0] = Root /\ f[Len(path)] = i
      /\ \A j \in 1 .. Len(path) : HasEntry(E, f[j - 1], path[j], f[j])
  BY <1>1, LeadsByIs
<1>3. ~ LeadsBy(E \ {x}, path, f, i)
  BY Zenon DEF Leads
<1>4. PICK k \in 1 .. Len(path) : ~ HasEntry(E \ {x}, f[k - 1], path[k], f[k])
  BY <1>2, <1>3, LeadsByIs
<1>5. HasEntry(E, f[k - 1], path[k], f[k])
  BY Zenon, <1>2
<1>6. x[5] = f[k]
  <2>1. PICK y \in E : y[1] = f[k - 1] /\ y[4] = path[k] /\ y[5] = f[k]
    BY Zenon, <1>5 DEF HasEntry
  <2>2. y \notin E \ {x}
    BY Zenon, <1>4, <2>1 DEF HasEntry
  <2>3. y = x
    BY <2>2
  <2> QED BY Zenon, <2>1, <2>3
<1> DEFINE p == SubSeq(path, 1, k)
<1>7. k \in 0 .. Len(path) /\ k <= Len(path) /\ k # 0
  OBVIOUS
<1>8. /\ Leads(E, p, f[k]) /\ p \in Seq(Names) /\ Len(p) = k /\ f[k] \in Inodes
      /\ IsPrefix(p, path)
  BY <1>1, <1>7, LeadsPrefix
<1> HIDE DEF p
<1>9. p # <<>>
  BY <1>7, <1>8
<1> QED BY <1>6, <1>7, <1>8, <1>9

\* In a forest there is one way to every inode ...
LEMMA OneWay ==
    ASSUME NEW E, NEW nt, NEW sz, Forest(E, nt, sz, {})
    PROVE  \A p, q \in Seq(Names), i \in Inodes : Leads(E, p, i) /\ Leads(E, q, i) => p = q
<1> DEFINE Two(m) == \E p, q \in Seq(Names), i \in Inodes : Len(p) = m /\ Leads(E, p, i) /\ Leads(E, q, i) /\ p # q
           S == {m \in Nat : Two(m)}
<1>1. SUFFICES ASSUME S # {} PROVE FALSE
  <2>1. \A p \in Seq(Names) : Len(p) \in Nat
    OBVIOUS
  <2> QED BY <2>1
<1>2. PICK m \in S : \A k \in S : ~(k < m)
  BY <1>1, Least
<1>3. m \in Nat /\ Two(m)
  OBVIOUS
<1>4. PICK p \in Seq(Names), q \in Seq(Names), i \in Inodes : Len(p) = m /\ Leads(E, p, i) /\ Leads(E, q, i) /\ p # q
  BY Zenon, <1>3
<1>5. /\ \A x, y \in E : x[5] = y[5] => x = y
      /\ \A j \in Inodes : (\E x \in E : x[5] = j) <=> (nt[j] # "free" /\ j # Root)
  BY ForestIs
<1>6. ASSUME NEW d, NEW n, HasEntry(E, d, n, i) PROVE i # Root
  BY Zenon, <1>5, <1>6 DEF HasEntry
<1>7. \A path : path = <<>> => (Leads(E, path, i) => i = Root)
  BY LeadsRoot
<1>8. p # <<>> /\ q # <<>>
  <2>1. CASE i = Root
    <3>1. p = <<>>
      BY Zenon, <1>4, <1>6, <2>1, LeadsLast
    <3>2. q = <<>>
      BY Zenon, <1>4, <1>6, <2>1, LeadsLast
    <3> QED BY Zenon, <1>4, <3>1, <3>2
  <2>2. CASE i # Root
    BY Zenon, <1>4, <1>7, <2>2
  <2> QED BY Zenon, <2>1, <2>2
<1>9. PICK d \in Inodes : Leads(E, Front(p), d) /\ HasEntry(E, d, Last(p), i)
  BY Zenon, <1>4, <1>8, LeadsLast
<1>10. PICK c \in Inodes : Leads(E, Front(q), c) /\ HasEntry(E, c, Last(q), i)
  BY Zenon, <1>4, <1>8, LeadsLast
<1>11. c = d /\ Last(p) = Last(q)
  <2>1. PICK x \in E : x[1] = d /\ x[4] = Last(p) /\ x[5] = i
    BY Zenon, <1>9 DEF HasEntry
  <2>2. PICK y \in E : y[1] = c /\ y[4] = Last(q) /\ y[5] = i
    BY Zenon, <1>10 DEF HasEntry
  <2>3. x = y
    <3>1. x[5] = y[5]
      BY <2>1, <2>2
    <3> QED BY <1>5, <3>1
  <2> QED BY Zenon, <2>1, <2>2, <2>3
<1>12. /\ Len(p) \in Nat \ {0} /\ Len(Front(p)) = Len(p) - 1 /\ Front(p) \in Seq(Names)
       /\ p[Len(p)] = Last(p) /\ \A k \in 1 .. Len(Front(p)) : Front(p)[k] = p[k]
  BY Zenon, <1>4, <1>8, SeqIs
<1>13. /\ Len(q) \in Nat \ {0} /\ Len(Front(q)) = Len(q) - 1 /\ Front(q) \in Seq(Names)
       /\ q[Len(q)] = Last(q) /\ \A k \in 1 .. Len(Front(q)) : Front(q)[k] = q[k]
  BY Zenon, <1>4, <1>8, SeqIs
<1>14. Front(p) = Front(q)
  <2>1. m - 1 \in Nat /\ m - 1 < m /\ Len(Front(p)) = m - 1
    BY <1>4, <1>12
  <2>2. m - 1 \notin S
    BY Zenon, <1>2, <2>1
  <2>3. ~ Two(m - 1)
    BY Zenon, <2>1, <2>2
  <2> HIDE DEF S
  <2> QED BY Zenon, <1>9, <1>10, <1>11, <1>12, <1>13, <2>1, <2>3
<1>15. p = q
  <2>1. Len(p) = Len(q)
    BY <1>12, <1>13, <1>14
  <2>2. ASSUME NEW k \in 1 .. Len(p) PROVE p[k] = q[k]
    <3>1. CASE k = Len(p)
      BY Zenon, <1>11, <1>12, <1>13, <2>1, <3>1
    <3>2. CASE k # Len(p)
      <4>1. k \in 1 .. Len(Front(p)) /\ k \in 1 .. Len(Front(q))
        BY <1>12, <1>13, <2>1, <3>2
      <4> QED BY Zenon, <1>12, <1>13, <1>14, <4>1
    <3> QED BY <3>1, <3>2
  <2> QED BY <1>4, <2>1, <2>2, SeqEqual
<1> QED BY Zenon, <1>4, <1>15

\* ... and it passes no inode twice.
LEMMA NoTwice ==
    ASSUME NEW E, NEW nt, NEW sz, Forest(E, nt, sz, {}), NEW path \in Seq(Names), NEW f, NEW i, LeadsBy(E, path, f, i)
    PROVE  \A a, b \in 0 .. Len(path) : f[a] = f[b] => a = b
<1> DEFINE n == Len(path)
           Again(a) == \E b \in 0 .. n : a < b /\ f[a] = f[b]
           S == {a \in Nat : Again(a)}
<1>0. n \in Nat
  OBVIOUS
<1>1. ASSUME NEW a \in 0 .. n, NEW b \in 0 .. n, f[a] = f[b], a # b PROVE S # {}
  <2>1. CASE a < b
    <3>1. Again(a) /\ a \in Nat
      BY <1>1, <2>1
    <3> QED BY <3>1
  <2>2. CASE ~(a < b)
    <3>1. b < a /\ b \in Nat
      BY <1>0, <1>1, <2>2
    <3>2. Again(b)
      BY <1>1, <3>1
    <3> QED BY <3>1, <3>2
  <2> QED BY <2>1, <2>2
<1>2. ASSUME S # {} PROVE FALSE
  <2>1. PICK a \in S : \A k \in S : ~(k < a)
    BY <1>2, Least
  <2>2. a \in Nat /\ Again(a)
    OBVIOUS
  <2>3. PICK b \in 0 .. n : a < b /\ f[a] = f[b]
    BY Zenon, <2>2
  <2>4. /\ f \in [0 .. n -> Inodes] /\ f[0] = Root
        /\ \A k \in 1 .. n : HasEntry(E, f[k - 1], path[k], f[k])
    BY LeadsByIs
  <2>5. /\ \A x, y \in E : x[5] = y[5] => x = y
        /\ \A j \in Inodes : (\E x \in E : x[5] = j) <=> (nt[j] # "free" /\ j # Root)
    BY ForestIs
  <2>6. b \in 1 .. n /\ f[b] \in Inodes
    BY <1>0, <2>2, <2>3, <2>4
  <2>7. PICK y \in E : y[1] = f[b - 1] /\ y[5] = f[b]
    BY Zenon, <2>4, <2>6 DEF HasEntry
  <2>8. f[b] # Root
    BY Zenon, <2>5, <2>6, <2>7
  <2>9. a # 0
    BY Zenon, <2>3, <2>4, <2>8
  <2>10. a \in 1 .. n
    BY <1>0, <2>2, <2>3, <2>9
  <2>11. PICK x \in E : x[1] = f[a - 1] /\ x[5] = f[a]
    BY Zenon, <2>4, <2>10 DEF HasEntry
  <2>12. f[a - 1] = f[b - 1]
    <3>1. x[5] = y[5]
      BY <2>3, <2>7, <2>11
    <3>2. x = y
      BY <2>5, <3>1
    <3> QED BY Zenon, <2>7, <2>11, <3>2
  <2>13. b - 1 \in 0 .. n /\ a - 1 < b - 1 /\ a - 1 \in Nat /\ a - 1 < a
    BY <1>0, <2>3, <2>6, <2>10
  <2>14. Again(a - 1)
    BY Zenon, <2>12, <2>13
  <2>15. a - 1 \in S
    BY Zenon, <2>13, <2>14
  <2> QED BY Zenon, <2>1, <2>13, <2>15
<1> QED BY Zenon, <1>1, <1>2

LEMMA WayBound ==
    ASSUME NEW E, NEW nt, NEW sz, Forest(E, nt, sz, {}), NEW path \in Seq(Names), NEW i, Leads(E, path, i)
    PROVE  Len(path) <= NInodes - 1
<1> DEFINE n == Len(path)
<1>1. PICK f : LeadsBy(E, path, f, i)
  BY Zenon DEF Leads
<1>2. f \in [0 .. n -> Inodes]
  BY <1>1, LeadsByIs
<1>3. \A a, b \in 0 .. n : f[a] = f[b] => a = b
  BY <1>1, NoTwice
<1>4. n \in Nat
  OBVIOUS
<1> HIDE DEF n
<1>5. IsFiniteSet(0 .. n) /\ Cardinality(0 .. n) = n + 1
  BY <1>4, FS_Interval
<1> DEFINE D == 0 .. n
           T == {f[a] : a \in D}
<1>6. Cardinality(T) = n + 1
  <2>1. f \in [D -> Inodes] /\ (\A a, b \in D : f[a] = f[b] => a = b) /\ IsFiniteSet(D) /\ Cardinality(D) = n + 1
    BY Zenon, <1>2, <1>3, <1>5
  <2> HIDE DEF D
  <2>2. f \in Bijection(D, T)
    BY <2>1 DEF Bijection, Injection, Surjection, IsInjective
  <2>3. Cardinality(T) = Cardinality(D)
    <3> HIDE DEF T
    <3>1. ExistsBijection(D, T)
      BY Zenon, <2>2 DEF ExistsBijection
    <3> QED BY <2>1, <3>1, FS_Bijection
  <2> QED BY Zenon, <2>1, <2>3
<1>7. T \subseteq Inodes
  BY <1>2
<1> HIDE DEF T
<1>8. Cardinality(T) <= Cardinality(Inodes) /\ Cardinality(Inodes) = NInodes
  BY <1>7, Constants, FS_Subset
<1> QED BY <1>4, <1>6, <1>8, FileSystemAssumption DEF n

-----------------------------------------------------------------------------
(* What a path names changes with the entries only.                         *)

ResolveOK ==
    \A path \in Seq(Names) :
        resolve(path) \in Found /\ \A i \in Inodes : resolve(path) = i <=> Leads(E0, path, i)

LEMMA ResolveNow == FsInvariant /\ Tree => ResolveOK
<1> SUFFICES ASSUME FsInvariant, Tree, NEW path \in Seq(Names)
             PROVE  resolve(path) \in Found /\ \A i \in Inodes : resolve(path) = i <=> Leads(E0, path, i)
  BY Zenon DEF ResolveOK
<1> QED BY ResolveIs

LEMMA ResolveThen == FsInvariant' /\ Tree' => ResolveOK'
BY ResolveNow, PTL

LEMMA Changed ==
    ASSUME ResolveOK, ResolveOK', NEW path \in Seq(Names), resolve(path)' # resolve(path)
    PROVE  \E i \in Inodes : \/ Leads(E0, path, i) /\ ~ Leads(E0', path, i)
                             \/ Leads(E0', path, i) /\ ~ Leads(E0, path, i)
<1>1. resolve(path) \in Found /\ \A i \in Inodes : resolve(path) = i <=> Leads(E0, path, i)
  BY Zenon DEF ResolveOK
<1>2. resolve(path)' \in Found /\ \A i \in Inodes : resolve(path)' = i <=> Leads(E0', path, i)
  BY Zenon DEF ResolveOK
<1> DEFINE r == resolve(path)
           r2 == resolve(path)'
<1>3. /\ r \in Found /\ r2 \in Found /\ r2 # r
      /\ \A i \in Inodes : r = i <=> Leads(E0, path, i)
      /\ \A i \in Inodes : r2 = i <=> Leads(E0', path, i)
  BY Zenon, <1>1, <1>2
<1> HIDE DEF r, r2
<1>4. r \in Inodes \/ r2 \in Inodes
  BY <1>3 DEF Found
<1> QED BY Zenon, <1>3, <1>4

\* The prefix of a path is a path.
LEMMA PrefixPath ==
    ASSUME NEW path \in Paths, NEW p \in Seq(Names), p # <<>>, Len(p) <= Len(path)
    PROVE  p \in NamedPaths
<1>1. PICK k \in 0 .. MaxDepth : path \in [1 .. k -> Names]
  BY DEF Paths
<1>2. k \in Nat /\ Len(path) = k
  BY <1>1, FileSystemAssumption
<1> DEFINE m == Len(p)
<1>3. m \in Nat /\ p \in [1 .. m -> Names]
  BY LenProperties
<1> HIDE DEF m
<1>4. m \in 0 .. MaxDepth
  BY <1>1, <1>2, <1>3, FileSystemAssumption DEF m
<1> QED BY <1>3, <1>4 DEF Paths, NamedPaths

\* The entry at the end of a path makes it lead there.
LEMMA LeadsTo ==
    ASSUME NEW E, NEW path \in NamedPaths, NEW d \in Inodes, Leads(E, Front(path), d), NEW x \in E,
           x[1] = d, x[4] = Last(path), x[5] \in Inodes
    PROVE  Leads(E, path, x[5])
<1>1. HasEntry(E, d, Last(path), x[5])
  BY Zenon DEF HasEntry
<1> QED BY Zenon, <1>1, LeadsFront

LEMMA AddsNames ==
    ASSUME TreeInv, TreeInv', NEW q \in NamedPaths, Adds(q),
           NEW path \in Paths, resolve(path)' # resolve(path)
    PROVE  IsPrefix(q, path)
<1>1. FsInvariant /\ Tree /\ FsInvariant' /\ Tree'
  BY Zenon DEF TreeInv
<1>2. ResolveOK /\ ResolveOK'
  BY Zenon, <1>1, ResolveNow, ResolveThen
<1>3. path \in Seq(Names) /\ q \in Seq(Names) /\ Front(q) \in Seq(Names)
  BY PathIs DEF NamedPaths
<1>4. PICK d \in Parent(q), j \in Inodes : AddedTo(E0, E0', d, Last(q), j)
  BY Zenon DEF Adds
<1>5. PICK x \in Places : x[1] = d /\ x[4] = Last(q) /\ x[5] = j /\ E0' = E0 \cup {x}
  BY Zenon, <1>4 DEF AddedTo
<1>6. d \in Inodes /\ Leads(E0, Front(q), d)
  BY <1>1, <1>3, NamedLeads DEF Parent
<1> DEFINE E2 == E0'
<1>7. E2 = E0 \cup {x}
  BY Zenon, <1>5
<1>8. PICK i \in Inodes : \/ Leads(E0, path, i) /\ ~ Leads(E2, path, i)
                          \/ Leads(E2, path, i) /\ ~ Leads(E0, path, i)
  BY <1>2, <1>3, Changed
<1>9. Forest(E2, node_type', size', {})
  BY Zenon, <1>1 DEF Tree
<1> HIDE DEF E2
<1>10. E0 \subseteq E2 /\ E2 \ {x} \subseteq E0 /\ x \in E2
  BY <1>7
<1>11. Leads(E2, path, i) /\ ~ Leads(E0, path, i)
  BY <1>8, <1>10, LeadsMore
<1>12. ~ Leads(E2 \ {x}, path, i)
  BY <1>10, <1>11, LeadsMore
<1>13. PICK p \in Seq(Names) : Leads(E2, p, x[5]) /\ x[5] \in Inodes /\ IsPrefix(p, path)
  BY <1>3, <1>11, <1>12, Uses
<1>14. Leads(E2, Front(q), d)
  BY <1>6, <1>10, LeadsMore
<1>15. Leads(E2, q, x[5])
  BY <1>5, <1>6, <1>10, <1>13, <1>14, LeadsTo
<1>16. p = q
  BY <1>3, <1>9, <1>13, <1>15, OneWay
<1> QED BY Zenon, <1>13, <1>16

LEMMA DropsNames ==
    ASSUME TreeInv, TreeInv', NEW q \in NamedPaths, Drops(q),
           NEW path \in Paths, resolve(path)' # resolve(path)
    PROVE  IsPrefix(q, path)
<1>1. FsInvariant /\ Tree /\ FsInvariant' /\ Tree'
  BY Zenon DEF TreeInv
<1>2. ResolveOK /\ ResolveOK'
  BY Zenon, <1>1, ResolveNow, ResolveThen
<1>3. path \in Seq(Names) /\ q \in Seq(Names)
  BY PathIs DEF NamedPaths
<1>4. PICK j \in Named(q), x \in E0 : x[5] = j /\ E0' = E0 \ {x}
  BY Zenon DEF Drops
<1>5. j \in Inodes /\ Leads(E0, q, j)
  BY <1>1, <1>3, NamedLeads
<1>6. PICK i \in Inodes : \/ Leads(E0, path, i) /\ ~ Leads(E0', path, i)
                          \/ Leads(E0', path, i) /\ ~ Leads(E0, path, i)
  BY <1>2, <1>3, Changed
<1>7. Leads(E0, path, i) /\ ~ Leads(E0 \ {x}, path, i)
  <2>1. E0 \ {x} \subseteq E0
    OBVIOUS
  <2>2. Leads(E0 \ {x}, path, i) => Leads(E0, path, i)
    BY <2>1, LeadsMore
  <2> QED BY Zenon, <1>4, <1>6, <2>2
<1>8. PICK p \in Seq(Names) : Leads(E0, p, x[5]) /\ x[5] \in Inodes /\ IsPrefix(p, path)
  BY <1>3, <1>7, Uses
<1>9. Forest(E0, node_type, size, {})
  BY Zenon, <1>1 DEF Tree
<1>10. p = q
  BY <1>3, <1>4, <1>5, <1>8, <1>9, OneWay
<1> QED BY Zenon, <1>8, <1>10

\* After a rename the new path leads to what the old one led to.
LEMMA MovesLeads ==
    ASSUME TreeInv, NEW old \in NamedPaths, NEW new \in NamedPaths, Moves(old, new)
    PROVE  \E x \in E0, y \in Places :
             /\ x[5] = y[5] /\ y[5] \in Inodes /\ E0' = (E0 \ {x}) \cup {y}
             /\ Leads(E0, old, x[5]) /\ Leads(E0', new, y[5])
             /\ \E d \in Inodes : y[1] = d /\ Leads(E0', Front(new), d)
<1>1. FsInvariant /\ Tree
  BY Zenon DEF TreeInv
<1>2. PICK i \in Named(old), p \in Parent(new), x \in E0 :
        x[5] = i /\ AddedTo(E0 \ {x}, E0', p, Last(new), i) /\ ~ IsPrefix(old, new)
  BY Zenon DEF Moves
<1>3. old \in Seq(Names) /\ new \in Seq(Names) /\ Front(new) \in Seq(Names)
  BY PathIs DEF NamedPaths
<1>4. i \in Inodes /\ Leads(E0, old, i)
  BY <1>1, <1>3, NamedLeads
<1>5. p \in Inodes /\ Leads(E0, Front(new), p)
  BY <1>1, <1>3, NamedLeads DEF Parent
<1>6. PICK y \in Places : y[1] = p /\ y[4] = Last(new) /\ y[5] = i /\ E0' = (E0 \ {x}) \cup {y}
  BY Zenon, <1>2 DEF AddedTo
<1>7. Forest(E0, node_type, size, {})
  BY Zenon, <1>1 DEF Tree
<1>8. Leads(E0 \ {x}, Front(new), p)
  <2> SUFFICES ASSUME ~ Leads(E0 \ {x}, Front(new), p) PROVE FALSE
    OBVIOUS
  <2>1. PICK q \in Seq(Names) : Leads(E0, q, x[5]) /\ IsPrefix(q, Front(new))
    BY <1>3, <1>5, Uses
  <2>2. q = old
    BY <1>2, <1>3, <1>4, <1>7, <2>1, OneWay
  <2>3. IsPrefix(old, Front(new))
    BY Zenon, <2>1, <2>2
  <2>4. new # <<>>
    BY DEF NamedPaths
  <2>5. IsPrefix(old, new)
    <3> DEFINE m == Len(old)
    <3>1. Len(Front(new)) = Len(new) - 1 /\ Len(new) \in Nat /\ \A k \in 1 .. Len(Front(new)) : Front(new)[k] = new[k]
      BY Zenon, <1>3, <2>4, SeqIs
    <3>2. m \in Nat /\ m <= Len(Front(new)) /\ SubSeq(old, 1, m) = SubSeq(Front(new), 1, m)
      BY <1>3, <2>3 DEF IsPrefix
    <3> DEFINE front == Front(new)
    <3> HIDE DEF m, front
    <3>3. SubSeq(front, 1, m) = SubSeq(new, 1, m)
      <4>1. \A k \in 1 .. m : front[k] = new[k] /\ front[k] \in Names /\ new[k] \in Names
        BY <1>3, <3>1, <3>2 DEF front
      <4>2. SubSeq(front, 1, m) \in Seq(Names) /\ SubSeq(new, 1, m) \in Seq(Names)
        BY <3>2, <4>1, SubSeqProperties
      <4>3. /\ Len(SubSeq(front, 1, m)) = IF 1 <= m THEN m - 1 + 1 ELSE 0
            /\ \A k \in 1 .. m - 1 + 1 : SubSeq(front, 1, m)[k] = front[1 + k - 1]
        BY <3>2, <4>1, SubSeqProperties
      <4>4. /\ Len(SubSeq(new, 1, m)) = IF 1 <= m THEN m - 1 + 1 ELSE 0
            /\ \A k \in 1 .. m - 1 + 1 : SubSeq(new, 1, m)[k] = new[1 + k - 1]
        BY <3>2, <4>1, SubSeqProperties
      <4>5. \A k \in 1 .. m : SubSeq(front, 1, m)[k] = SubSeq(new, 1, m)[k]
        BY <3>2, <4>1, <4>3, <4>4
      <4>6. Len(SubSeq(front, 1, m)) = m /\ Len(SubSeq(new, 1, m)) = m
        BY <3>2, <4>3, <4>4
      <4> QED BY <4>2, <4>5, <4>6, SeqEqual
    <3>4. m <= Len(new)
      BY <3>1, <3>2
    <3> QED BY Zenon, <3>2, <3>3, <3>4 DEF IsPrefix, m, front
  <2> QED BY Zenon, <1>2, <2>5
<1> DEFINE E2 == E0'
<1>9. E2 = (E0 \ {x}) \cup {y}
  BY Zenon, <1>6
<1> HIDE DEF E2
<1>10. E0 \ {x} \subseteq E2 /\ y \in E2
  BY <1>9
<1>11. Leads(E2, Front(new), p)
  BY <1>8, <1>10, LeadsMore
<1>12. Leads(E2, new, y[5])
  BY <1>4, <1>5, <1>6, <1>10, <1>11, LeadsTo
<1> QED BY Zenon, <1>2, <1>4, <1>5, <1>6, <1>11, <1>12 DEF E2

LEMMA MovesNames ==
    ASSUME TreeInv, TreeInv', NEW old \in NamedPaths, NEW new \in NamedPaths, Moves(old, new),
           NEW path \in Paths, resolve(path)' # resolve(path)
    PROVE  IsPrefix(old, path) \/ IsPrefix(new, path)
<1>1. FsInvariant /\ Tree /\ FsInvariant' /\ Tree'
  BY Zenon DEF TreeInv
<1>2. ResolveOK /\ ResolveOK'
  BY Zenon, <1>1, ResolveNow, ResolveThen
<1>3. path \in Seq(Names) /\ old \in Seq(Names) /\ new \in Seq(Names)
  BY PathIs DEF NamedPaths
<1>4. PICK x \in E0, y \in Places :
        /\ x[5] = y[5] /\ y[5] \in Inodes /\ E0' = (E0 \ {x}) \cup {y}
        /\ Leads(E0, old, x[5]) /\ Leads(E0', new, y[5])
  BY Zenon, MovesLeads
<1> DEFINE E2 == E0'
<1>5. PICK i \in Inodes : \/ Leads(E0, path, i) /\ ~ Leads(E2, path, i)
                          \/ Leads(E2, path, i) /\ ~ Leads(E0, path, i)
  BY <1>2, <1>3, Changed
<1>6. Forest(E0, node_type, size, {}) /\ Forest(E2, node_type', size', {})
  BY Zenon, <1>1 DEF Tree
<1>7. E2 = (E0 \ {x}) \cup {y} /\ Leads(E2, new, y[5])
  BY Zenon, <1>4
<1> HIDE DEF E2
<1>8. E0 \ {x} \subseteq E2 /\ E2 \ {y} \subseteq E0
  BY <1>7
<1>9. CASE Leads(E0, path, i) /\ ~ Leads(E2, path, i)
  <2>1. ~ Leads(E0 \ {x}, path, i)
    BY <1>8, <1>9, LeadsMore
  <2>2. PICK p \in Seq(Names) : Leads(E0, p, x[5]) /\ x[5] \in Inodes /\ IsPrefix(p, path)
    BY <1>3, <1>9, <2>1, Uses
  <2>3. p = old
    BY <1>3, <1>4, <1>6, <2>2, OneWay
  <2> QED BY Zenon, <2>2, <2>3
<1>10. CASE Leads(E2, path, i) /\ ~ Leads(E0, path, i)
  <2>1. ~ Leads(E2 \ {y}, path, i)
    BY <1>8, <1>10, LeadsMore
  <2>2. PICK p \in Seq(Names) : Leads(E2, p, y[5]) /\ y[5] \in Inodes /\ IsPrefix(p, path)
    BY <1>3, <1>10, <2>1, Uses
  <2>3. p = new
    BY <1>3, <1>6, <1>7, <2>2, OneWay
  <2> QED BY Zenon, <2>2, <2>3
<1> QED BY <1>5, <1>9, <1>10

LEMMA GoesBackLeads ==
    ASSUME TreeInv, NEW old, GoesBack(old)
    PROVE  \A path, i : Leads(E0, path, i) <=> Leads(E0', path, i)
<1>1. PICK i \in Named(old), d \in Parent(old), x \in E0 :
        /\ x[1] = d /\ x[4] = Last(old) /\ x[5] = i
        /\ AddedTo(E0 \ {x}, E0', d, Last(old), i)
  BY Zenon DEF GoesBack
<1>2. PICK y \in Places : y[1] = d /\ y[4] = Last(old) /\ y[5] = i /\ E0' = (E0 \ {x}) \cup {y}
  BY Zenon, <1>1 DEF AddedTo
<1> DEFINE E2 == E0'
<1>3. E2 = (E0 \ {x}) \cup {y} /\ x[1] = y[1] /\ x[4] = y[4] /\ x[5] = y[5]
  BY Zenon, <1>1, <1>2
<1> HIDE DEF E2
<1>4. \A z : (z \in E0 => z = x \/ z \in E2) /\ (z \in E2 => z = y \/ z \in E0) /\ y \in E2
  BY <1>3
<1>5. \A e, n, j : HasEntry(E0, e, n, j) => HasEntry(E2, e, n, j)
  BY Zenon, <1>3, <1>4 DEF HasEntry
<1>6. \A e, n, j : HasEntry(E2, e, n, j) => HasEntry(E0, e, n, j)
  BY Zenon, <1>3, <1>4 DEF HasEntry
<1>7. \A path, j : Leads(E0, path, j) => Leads(E2, path, j)
  BY <1>5, LeadsMono
<1>8. \A path, j : Leads(E2, path, j) => Leads(E0, path, j)
  BY <1>6, LeadsMono
<1> QED BY Zenon, <1>7, <1>8 DEF E2

NamesKept ==
    \A path \in Paths : resolve(path)' # resolve(path) =>
        \E p \in NamedPaths : IsPrefix(p, path) /\ Touches(p)

LEMMA NamesStep ==
    ASSUME CarefulNames, CarefulFds, TreeInv, TreeInv', [Next]_vars
    PROVE  NamesKept
<1>1. FsInvariant /\ Tree /\ FsInvariant' /\ Tree'
  BY Zenon DEF TreeInv
<1>2. ResolveOK /\ ResolveOK'
  BY Zenon, <1>1, ResolveNow, ResolveThen
<1> SUFFICES ASSUME NEW path \in Paths, resolve(path)' # resolve(path)
             PROVE  \E p \in NamedPaths : IsPrefix(p, path) /\ Touches(p)
  BY Zenon DEF NamesKept
<1>3. path \in Seq(Names)
  BY PathIs
<1>4. ~ \A i \in Inodes : Leads(E0, path, i) <=> Leads(E0', path, i)
  BY <1>2, <1>3, Changed
<1>5. CASE Quiet
  BY Zenon, <1>4, <1>5 DEF Quiet
<1>6. ASSUME NEW q \in NamedPaths, Adds(q), Mkdir(q) \/ OpenCreates(q) PROVE IsPrefix(q, path) /\ Touches(q)
  <2>1. IsPrefix(q, path)
    BY <1>6, AddsNames
  <2> QED BY Zenon, <1>6, <2>1 DEF Touches
<1>7. ASSUME NEW q \in NamedPaths, Drops(q), Unlink(q) \/ Rmdir(q) PROVE IsPrefix(q, path) /\ Touches(q)
  <2>1. IsPrefix(q, path)
    BY <1>7, DropsNames
  <2> QED BY Zenon, <1>7, <2>1 DEF Touches
<1>8. ASSUME NEW old \in NamedPaths, NEW new \in NamedPaths, Moves(old, new), Rename(old, new)
      PROVE  \E p \in NamedPaths : IsPrefix(p, path) /\ Touches(p)
  <2>1. IsPrefix(old, path) \/ IsPrefix(new, path)
    BY <1>8, MovesNames
  <2>2. Touches(old) /\ Touches(new)
    BY Zenon, <1>8 DEF Touches
  <2> QED BY Zenon, <2>1, <2>2
<1>9. ASSUME NEW old \in NamedPaths, GoesBack(old) PROVE FALSE
  BY <1>4, <1>9, GoesBackLeads
<1>10. \/ Quiet
       \/ \E q \in NamedPaths : Adds(q) /\ (Mkdir(q) \/ OpenCreates(q))
       \/ \E q \in NamedPaths : Drops(q) /\ (Unlink(q) \/ Rmdir(q))
       \/ \E old, new \in NamedPaths : Moves(old, new) /\ Rename(old, new)
       \/ \E old \in NamedPaths : GoesBack(old)
  BY TreeCalls
<1> QED BY Zenon, <1>5, <1>6, <1>7, <1>8, <1>9, <1>10

(* For careful programs a call changes what a path names only if it        *)
(* succeeds on that path or on one that the path starts with, for trees of *)
(* any depth: resolve, split_path, add_entry and remove_entry touch one    *)
(* entry, a rename without room puts it back where it counts, and writes   *)
(* never reach a directory.                                                *)
THEOREM FileTreeNamesFrame ==
    ASSUME CarefulNames, CarefulFds
    PROVE  Spec => NamesFrame
<1>1. TreeInv /\ TreeInv' /\ [Next]_vars =>
        [\A path \in Paths : resolve(path)' # resolve(path) =>
           \E p \in NamedPaths : IsPrefix(p, path) /\ Touches(p)]_vars
  BY Zenon, NamesStep DEF NamesKept
<1> QED BY <1>1, FileTreeInvariant, PTL DEF Spec, NamesFrame

-----------------------------------------------------------------------------
(* Everything can be reached.                                               *)

Reached(E, d) == \E path \in Seq(Names) : Leads(E, path, d)

Reach(E) == \A x \in E : Reached(E, x[5])

LEMMA ReachedNext ==
    ASSUME NEW E, NEW x \in E, x \in Places, Reached(E, x[1])
    PROVE  Reached(E, x[5])
<1>1. x[1] \in Inodes /\ x[4] \in Names /\ x[5] \in Inodes
  BY PlaceIs
<1> DEFINE d == x[1]
           n == x[4]
           i == x[5]
<1>2. PICK front \in Seq(Names) : Leads(E, front, d)
  BY Zenon DEF Reached
<1>3. HasEntry(E, d, n, i)
  BY Zenon DEF HasEntry
<1> HIDE DEF d, n, i
<1> DEFINE path == Append(front, n)
<1>4. d \in Inodes /\ n \in Names /\ i \in Inodes
  BY Zenon, <1>1 DEF d, n, i
<1>5. path \in Seq(Names) /\ Len(path) = Len(front) + 1 /\ path[Len(path)] = n /\ \A k \in 1 .. Len(front) : front[k] = path[k]
  BY <1>4
<1> HIDE DEF path
<1>6. Leads(E, path, i)
  BY <1>2, <1>3, <1>4, <1>5, LeadsExtend
<1> QED BY Zenon, <1>5, <1>6 DEF Reached, i

LEMMA ReachedRoot == \A E : Reached(E, Root)
<1> TAKE E
<1>1. <<>> \in Seq(Names) /\ Leads(E, <<>>, Root)
  BY LeadsRoot, Constants
<1> QED BY Zenon, <1>1 DEF Reached

\* Reachability survives when what hung on a lost entry hangs on something reached.
LEMMA ReachStep ==
    ASSUME NEW E, NEW nt, NEW sz, Forest(E, nt, sz, {}), Reach(E), NEW E2, E2 \subseteq Places,
           \A z \in E2 : z \in E \/ Reached(E2, z[1]),
           \A w \in E, z \in E2 : w \notin E2 /\ z[1] = w[5] => Reached(E2, z[1])
    PROVE  Reach(E2)
<1> DEFINE Lost(m) == \E z \in E2, path \in Seq(Names) : z \in E /\ Len(path) = m /\ Leads(E, path, z[5]) /\ ~ Reached(E2, z[5])
           S == {m \in Nat : Lost(m)}
<1>0. \A z \in E2 : Reached(E2, z[1]) => Reached(E2, z[5])
  BY ReachedNext
<1>1. ASSUME NEW z \in E2, ~ Reached(E2, z[5]) PROVE S # {}
  <2>1. z \in E
    BY Zenon, <1>0, <1>1
  <2>2. PICK path \in Seq(Names) : Leads(E, path, z[5])
    BY Zenon, <2>1 DEF Reach, Reached
  <2>3. Len(path) \in Nat /\ Lost(Len(path))
    <3>1. Len(path) \in Nat
      OBVIOUS
    <3> QED BY Zenon, <1>1, <2>1, <2>2, <3>1
  <2> QED BY <2>3
<1>2. ASSUME S # {} PROVE FALSE
  <2>1. PICK m \in S : \A k \in S : ~(k < m)
    BY <1>2, Least
  <2>2. m \in Nat /\ Lost(m)
    OBVIOUS
  <2>3. PICK z \in E2, path \in Seq(Names) : z \in E /\ Len(path) = m /\ Leads(E, path, z[5]) /\ ~ Reached(E2, z[5])
    BY Zenon, <2>2
  <2> DEFINE i == z[5]
             e == z[1]
  <2>4. i \in Inodes /\ e \in Inodes /\ ~ Reached(E2, i) /\ ~ Reached(E2, e) /\ Leads(E, path, i)
    BY <1>0, <2>3, PlaceIs
  <2>5. /\ \A x, y \in E : x[5] = y[5] => x = y
    BY ForestIs
  <2> HIDE DEF i, e
  <2>6. path # <<>>
    <3> SUFFICES ASSUME path = <<>> PROVE FALSE
      OBVIOUS
    <3>1. i = Root
      BY <2>4, LeadsRoot
    <3> QED BY Zenon, <2>4, <3>1, ReachedRoot
  <2>7. PICK d \in Inodes : Leads(E, Front(path), d) /\ HasEntry(E, d, Last(path), i)
    BY Zenon, <2>3, <2>4, <2>6, LeadsLast
  <2>8. d = e
    <3>1. PICK x \in E : x[1] = d /\ x[5] = i
      BY Zenon, <2>7 DEF HasEntry
    <3>2. x[5] = z[5]
      BY <3>1 DEF i
    <3>3. x = z
      BY <2>3, <2>5, <3>2
    <3> QED BY Zenon, <3>1, <3>3 DEF e
  <2>9. /\ Front(path) \in Seq(Names) /\ Len(Front(path)) = Len(path) - 1 /\ Len(path) \in Nat \ {0}
    BY Zenon, <2>3, <2>6, SeqIs
  <2>10. Front(path) # <<>>
    <3> SUFFICES ASSUME Front(path) = <<>> PROVE FALSE
      OBVIOUS
    <3>1. Leads(E, <<>>, e)
      BY Zenon, <2>7, <2>8
    <3>2. e = Root
      BY <2>4, <3>1, LeadsRoot
    <3> QED BY Zenon, <2>4, <3>2, ReachedRoot
  <2>11. PICK c \in Inodes : HasEntry(E, c, Last(Front(path)), e)
    BY Zenon, <2>4, <2>7, <2>8, <2>9, <2>10, LeadsLast
  <2>12. PICK w \in E : w[5] = e
    BY Zenon, <2>11 DEF HasEntry
  <2>13. w \in E2
    BY Zenon, <2>3, <2>4, <2>12 DEF e
  <2>14. m - 1 \in Nat /\ m - 1 < m /\ Len(Front(path)) = m - 1
    BY <2>2, <2>3, <2>9
  <2>15. Leads(E, Front(path), w[5]) /\ ~ Reached(E2, w[5])
    BY Zenon, <2>4, <2>7, <2>8, <2>12
  <2>16. Lost(m - 1)
    BY Zenon, <2>9, <2>12, <2>13, <2>14, <2>15
  <2>17. m - 1 \in S
    BY Zenon, <2>14, <2>16
  <2> QED BY Zenon, <2>1, <2>14, <2>17
<1> QED BY Zenon, <1>1, <1>2 DEF Reach

LEMMA ReachCalls ==
    ASSUME CarefulNames, CarefulFds, TreeInv, TreeInv', [Next]_vars, Reach(E0)
    PROVE  Reach(E0')
<1>1. FsInvariant /\ Tree /\ FsInvariant' /\ Tree'
  BY Zenon DEF TreeInv
<1> DEFINE E2 == E0'
<1>2. Forest(E0, node_type, size, {}) /\ Forest(E2, node_type', size', {})
  BY Zenon, <1>1 DEF Tree
<1>3. (\A x \in E0 : x \in Places) /\ (\A x, y \in E0 : x[5] = y[5] => x = y)
  BY <1>2, ForestIs
<1>4. E2 \subseteq Places
  BY <1>2, ForestIs
<1>5. CASE Quiet
  BY Zenon, <1>5 DEF Quiet
<1>6. ASSUME NEW q \in NamedPaths, Adds(q) PROVE Reach(E2)
  <2>1. PICK d \in Parent(q), i \in Inodes : AddedTo(E0, E0', d, Last(q), i)
    BY Zenon, <1>6 DEF Adds
  <2>2. PICK y \in Places : y[1] = d /\ E2 = E0 \cup {y}
    BY Zenon, <2>1 DEF AddedTo
  <2>3. Front(q) \in Seq(Names)
    BY PathIs DEF NamedPaths
  <2>4. Leads(E0, Front(q), d)
    BY <1>1, <2>3, NamedLeads DEF Parent
  <2> HIDE DEF E2
  <2>5. E0 \subseteq E2
    BY <2>2
  <2>6. Leads(E2, Front(q), d)
    BY <2>4, <2>5, LeadsMore
  <2>7. Reached(E2, y[1])
    BY Zenon, <2>2, <2>3, <2>6 DEF Reached
  <2>8. \A z \in E2 : z \in E0 \/ Reached(E2, z[1])
    BY <2>2, <2>7
  <2>9. \A w \in E0, z \in E2 : w \notin E2 /\ z[1] = w[5] => Reached(E2, z[1])
    BY <2>5
  <2> QED BY <1>2, <1>4, <2>8, <2>9, ReachStep
<1>7. ASSUME NEW q \in NamedPaths, Drops(q) PROVE Reach(E2)
  <2>1. PICK i \in Named(q), x \in E0 : x[5] = i /\ E2 = E0 \ {x} /\ \A y \in E0 : y[1] # i
    BY Zenon, <1>7 DEF Drops
  <2> HIDE DEF E2
  <2>2. \A z \in E2 : z \in E0
    BY <2>1
  <2>3. ASSUME NEW w \in E0, NEW z \in E2, w \notin E2, z[1] = w[5] PROVE FALSE
    <3>1. w = x
      BY <2>1, <2>3
    <3> QED BY Zenon, <2>1, <2>2, <2>3, <3>1
  <2> QED BY <1>2, <1>4, <2>2, <2>3, ReachStep
<1>8. ASSUME NEW old \in NamedPaths, NEW new \in NamedPaths, Moves(old, new) PROVE Reach(E2)
  <2>0. PICK x \in E0, y \in Places :
          /\ x[5] = y[5] /\ y[5] \in Inodes /\ E0' = (E0 \ {x}) \cup {y}
          /\ Leads(E0, old, x[5]) /\ Leads(E0', new, y[5])
          /\ \E d \in Inodes : y[1] = d /\ Leads(E0', Front(new), d)
    BY <1>8, MovesLeads
  <2>1. /\ x[5] = y[5] /\ E2 = (E0 \ {x}) \cup {y} /\ Leads(E2, new, y[5])
        /\ \E d \in Inodes : y[1] = d /\ Leads(E2, Front(new), d)
    BY Zenon, <2>0
  <2>2. new \in Seq(Names) /\ Front(new) \in Seq(Names)
    BY PathIs DEF NamedPaths
  <2>3. Reached(E2, y[1]) /\ Reached(E2, y[5])
    BY Zenon, <2>1, <2>2 DEF Reached
  <2> HIDE DEF E2
  <2>4. \A z \in E2 : z \in E0 \/ Reached(E2, z[1])
    BY <2>1, <2>3
  <2>5. ASSUME NEW w \in E0, NEW z \in E2, w \notin E2, z[1] = w[5] PROVE Reached(E2, z[1])
    <3>1. w = x
      BY <2>1, <2>5
    <3>2. z[1] = y[5]
      BY <2>1, <2>5, <3>1
    <3> QED BY Zenon, <2>3, <3>2
  <2> QED BY <1>2, <1>4, <2>4, <2>5, ReachStep
<1>9. ASSUME NEW old \in NamedPaths, GoesBack(old) PROVE Reach(E2)
  <2>1. \A path, i : Leads(E0, path, i) <=> Leads(E2, path, i)
    BY <1>9, GoesBackLeads
  <2>2. PICK i \in Named(old), d \in Parent(old), x \in E0 : x[5] = i /\ AddedTo(E0 \ {x}, E2, d, Last(old), i)
    BY Zenon, <1>9 DEF GoesBack
  <2>3. PICK y \in Places : y[5] = i /\ E2 = (E0 \ {x}) \cup {y}
    BY Zenon, <2>2 DEF AddedTo
  <2>4. \A j : Reached(E0, j) => Reached(E2, j)
    BY Zenon, <2>1 DEF Reached
  <2> HIDE DEF E2
  <2> SUFFICES ASSUME NEW z \in E2 PROVE Reached(E2, z[5])
    BY Zenon DEF Reach
  <2>5. PICK w \in E0 : w[5] = z[5]
    BY <2>2, <2>3
  <2>6. Reached(E0, w[5])
    BY Zenon DEF Reach
  <2> QED BY Zenon, <2>4, <2>5, <2>6
<1>10. \/ Quiet
       \/ \E q \in NamedPaths : Adds(q) /\ (Mkdir(q) \/ OpenCreates(q))
       \/ \E q \in NamedPaths : Drops(q) /\ (Unlink(q) \/ Rmdir(q))
       \/ \E old, new \in NamedPaths : Moves(old, new) /\ Rename(old, new)
       \/ \E old \in NamedPaths : GoesBack(old)
  BY TreeCalls
<1> QED BY Zenon, <1>5, <1>6, <1>7, <1>8, <1>9, <1>10

PathsInv == TreeInv /\ Reach(E0)

(* Careful programs cut nothing off: from the root the entries lead to     *)
(* every inode in use, whatever rename moves and create fails to name.     *)
THEOREM FileTreeReach ==
    ASSUME CarefulNames, CarefulFds
    PROVE  Spec => []PathsInv
<1>1. Init => PathsInv
  <2> SUFFICES ASSUME Init PROVE Reach(E0)
    BY Zenon, TreeInit DEF PathsInv
  <2>1. Tree /\ \A i \in Inodes : node_type[i] # "free" => i = Root
    BY TreeInit DEF TreeInv, Init
  <2>2. Forest(E0, node_type, size, {})
    BY Zenon, <2>1 DEF Tree
  <2>3. /\ \A x \in E0 : x \in Places
        /\ \A i \in Inodes : (\E x \in E0 : x[5] = i) <=> (node_type[i] # "free" /\ i # Root)
    BY <2>2, ForestIs
  <2>4. ASSUME NEW x \in E0 PROVE FALSE
    <3>1. x[5] \in Inodes
      BY <2>3, PlaceIs
    <3> QED BY Zenon, <2>1, <2>3, <3>1
  <2> QED BY Zenon, <2>4 DEF Reach
<1>2. PathsInv /\ [Next]_vars => PathsInv'
  <2> SUFFICES ASSUME TreeInv, Reach(E0), [Next]_vars PROVE TreeInv' /\ Reach(E0')
    BY Zenon DEF PathsInv, Reach, Reached
  <2>1. TreeInv'
    BY TreeStep
  <2> QED BY <2>1, ReachCalls
<1> QED BY <1>1, <1>2, PTL DEF Spec

LEMMA TreeOnePath ==
    ASSUME NInodes - 1 <= MaxDepth, PathsInv
    PROVE  OnePath
<1>1. FsInvariant /\ Tree /\ Reach(E0)
  BY Zenon DEF PathsInv, TreeInv
<1>2. ResolveOK
  BY Zenon, <1>1, ResolveNow
<1>3. Forest(E0, node_type, size, {}) /\ node_type[Root] = "dir"
  BY Zenon, <1>1 DEF Tree, Shape
<1>4. /\ \A x \in E0 : x \in Places
      /\ \A j \in Inodes : (\E x \in E0 : x[5] = j) <=> (node_type[j] # "free" /\ j # Root)
  BY <1>3, ForestIs
<1>5. \A path \in Paths : path \in Seq(Names)
  BY PathIs
<1> SUFFICES ASSUME NEW i \in Inodes
             PROVE  Cardinality({path \in Paths : resolve(path) = i}) = IF node_type[i] = "free" THEN 0 ELSE 1
  BY DEF OnePath
<1> DEFINE P == {path \in Paths : resolve(path) = i}
<1>6. \A path : path \in P <=> path \in Paths /\ Leads(E0, path, i)
  BY Zenon, <1>2, <1>5 DEF ResolveOK
<1> HIDE DEF P
<1>7. CASE node_type[i] = "free"
  <2>1. ASSUME NEW path \in P PROVE FALSE
    <3>1. path \in Seq(Names) /\ Leads(E0, path, i)
      BY Zenon, <1>5, <1>6
    <3>2. i # Root
      BY <1>3, <1>7
    <3>3. path # <<>>
      BY <3>1, <3>2, LeadsRoot
    <3>4. \E d \in Inodes : HasEntry(E0, d, Last(path), i)
      BY Zenon, <3>1, <3>3, LeadsLast
    <3> QED BY Zenon, <1>4, <1>7, <3>4 DEF HasEntry
  <2>2. P = {}
    BY <2>1
  <2> QED BY <1>7, <2>2, FS_EmptySet DEF P
<1>8. CASE node_type[i] # "free"
  <2>1. \E path \in Seq(Names) : Leads(E0, path, i)
    <3>1. CASE i = Root
      BY Zenon, <3>1, ReachedRoot DEF Reached
    <3>2. CASE i # Root
      <4>1. PICK x \in E0 : x[5] = i
        BY Zenon, <1>4, <1>8, <3>2
      <4> QED BY Zenon, <1>1, <4>1 DEF Reach, Reached
    <3> QED BY Zenon, <3>1, <3>2
  <2>2. PICK path \in Seq(Names) : Leads(E0, path, i)
    BY Zenon, <2>1
  <2>3. Len(path) <= NInodes - 1
    BY <1>3, <2>2, WayBound
  <2>4. path \in Paths
    <3> DEFINE m == Len(path)
    <3>1. m \in Nat /\ path \in [1 .. m -> Names]
      BY LenProperties
    <3>2. m \in 0 .. MaxDepth
      BY <2>3, <3>1, FileSystemAssumption
    <3> HIDE DEF m
    <3> QED BY <3>1, <3>2 DEF Paths
  <2>5. ASSUME NEW p \in P PROVE p = path
    <3>1. p \in Seq(Names) /\ Leads(E0, p, i)
      BY Zenon, <1>5, <1>6
    <3> QED BY <1>3, <2>2, <3>1, OneWay
  <2>6. path \in P
    BY Zenon, <1>6, <2>2, <2>4
  <2>7. P = {path}
    BY <2>5, <2>6
  <2> QED BY <1>8, <2>7, FS_Singleton DEF P
<1> QED BY <1>7, <1>8

(* For careful programs every file and directory has exactly one path and  *)
(* what is free has none: a failed create, a removal or a rename, of whole *)
(* subtrees and without room too, neither loses nor doubles anything.  The *)
(* bound on the length of paths leaves room for the deepest tree.          *)
THEOREM FileTreeOnePath ==
    ASSUME CarefulNames, CarefulFds, NInodes - 1 <= MaxDepth
    PROVE  Spec => []OnePath
<1>1. PathsInv => OnePath
  BY TreeOnePath
<1> QED BY <1>1, FileTreeReach, PTL

-----------------------------------------------------------------------------
(* What files hold.                                                         *)

LEMMA Divides ==
    ASSUME NEW a \in Nat, NEW d \in Nat \ {0}
    PROVE  /\ a \div d \in Nat /\ a % d \in 0 .. d - 1
           /\ a = d * (a \div d) + (a % d)
OBVIOUS

LEMMA DivIs ==
    ASSUME NEW k \in Nat
    PROVE  /\ k \div CellsPerBlock \in Nat /\ k % CellsPerBlock \in Cells
           /\ (k \div CellsPerBlock) * CellsPerBlock + (k % CellsPerBlock) = k
<1> DEFINE m == CellsPerBlock
           q == k \div m
           r == k % m
<1>1. m \in Nat \ {0}
  BY FileSystemAssumption
<1>2. q \in Nat /\ r \in 0 .. m - 1 /\ k = m * q + r
  BY <1>1, Divides
<1> HIDE DEF q, r
<1>3. q * m + r = k
  BY <1>1, <1>2
<1>4. r \in Cells
  BY <1>2 DEF Cells
<1>5. q \in Nat /\ r \in Cells /\ q * m + r = k
  BY <1>2, <1>3, <1>4
<1> HIDE DEF m
<1> QED BY ONLY <1>5 DEF q, r, m

LEMMA KeepIs ==
    ASSUME NEW k \in Nat, NEW length \in Nat, k < length
    PROVE  ~(k \div CellsPerBlock >= Keep(length))
<1> DEFINE m == CellsPerBlock
           s == k \div m
           a == length + m - 1
           t == a \div m
<1>1. m \in Nat /\ m >= 1
  BY FileSystemAssumption
<1>2. a \in Nat
  BY <1>1
<1>3. s \in Nat /\ k % m \in 0 .. m - 1 /\ s * m + (k % m) = k
  BY DivIs DEF Cells
<1>4. t \in Nat /\ a % m \in 0 .. m - 1 /\ t * m + (a % m) = a
  <2> HIDE DEF a
  <2> QED BY <1>2, DivIs DEF Cells
<1>5. Keep(length) = t
  BY DEF Keep
<1>6. ASSUME s >= t PROVE FALSE
  <2>1. s * m <= k
    <3> DEFINE u == s * m
               r == k % m
    <3>1. u \in Int /\ r \in Int /\ r >= 0 /\ u + r = k
      BY <1>1, <1>3
    <3> HIDE DEF u, r
    <3>2. u <= k
      BY <3>1
    <3> QED BY <3>2 DEF u
  <2>2. t * m >= length
    <3> DEFINE u == t * m
               r == a % m
    <3>1. u \in Int /\ r \in Int /\ r <= m - 1 /\ u + r = length + m - 1
      BY <1>1, <1>4
    <3> HIDE DEF u, r, m
    <3>2. u >= length
      BY <1>1, <3>1
    <3> QED BY <3>2 DEF u
  <2>3. s * m >= t * m
    <3> HIDE DEF s, t, m
    <3> QED BY <1>1, <1>3, <1>4, <1>6
  <2> DEFINE v == s * m
             u == t * m
  <2>4. v \in Int /\ u \in Int /\ v <= k /\ u >= length /\ v >= u
    BY <1>1, <1>3, <1>4, <2>1, <2>2, <2>3
  <2> HIDE DEF u, v
  <2> QED BY <2>4
<1> QED BY <1>5, <1>6

\* The blocks of inode j and what is in them stay.
FileKept(j) ==
    \A s \in Slots : /\ blocks'[j][s] = blocks[j][s]
                     /\ blocks[j][s] # 0 => \A c \in Cells : content'[blocks[j][s]][c] = content[blocks[j][s]][c]

LEMMA CellKept ==
    ASSUME NEW j, FileKept(j), NEW k \in Nat
    PROVE  CellAt(j, k)' = CellAt(j, k)
<1> DEFINE s == k \div CellsPerBlock
           c == k % CellsPerBlock
<1>1. c \in Cells
  BY DivIs
<1>2. CellAt(j, k) = IF s \in Slots /\ blocks[j][s] # 0 THEN content[blocks[j][s]][c] ELSE Zero
  BY Zenon DEF CellAt
<1>3. CellAt(j, k)' = IF s \in Slots /\ blocks'[j][s] # 0 THEN content'[blocks'[j][s]][c] ELSE Zero
  BY Zenon DEF CellAt
<1> HIDE DEF s, c
<1>4. CASE s \in Slots /\ blocks[j][s] # 0
  <2>1. blocks'[j][s] = blocks[j][s] /\ content'[blocks[j][s]][c] = content[blocks[j][s]][c]
    BY <1>1, <1>4 DEF FileKept
  <2>2. CellAt(j, k) = content[blocks[j][s]][c]
    BY <1>2, <1>4
  <2>3. CellAt(j, k)' = content'[blocks'[j][s]][c]
    BY <1>3, <1>4, <2>1
  <2> QED BY Zenon, <2>1, <2>2, <2>3
<1>5. CASE ~(s \in Slots /\ blocks[j][s] # 0)
  <2>1. s \in Slots => blocks'[j][s] = blocks[j][s]
    BY Zenon DEF FileKept
  <2> QED BY <1>2, <1>3, <1>5, <2>1
<1> QED BY <1>4, <1>5

\* add_entry reaches the directory only.
LEMMA AddKeeps ==
    ASSUME NEW bl \in InodeBlocksType, NEW cn \in ContentType, free_map \in SUBSET Blocks, Exclusive(bl, free_map),
           NEW sz, NEW d \in Inodes, NEW e, AddEntry(bl, sz, cn, d, e), NEW j \in Inodes, j # d, NEW t \in Slots
    PROVE  /\ blocks'[j][t] = bl[j][t]
           /\ bl[j][t] # 0 => \A c \in Cells : content'[bl[j][t]][c] = cn[bl[j][t]][c]
<1>1. PICK s \in Slots :
        \/ /\ bl[d][s] # 0
           /\ \E c \in Cells : content' = Put(cn, bl[d][s], c, e)
           /\ blocks' = bl
        \/ \E b \in free_map : content' = Fresh(cn, b, e) /\ blocks' = Placed(bl, d, s, b)
  BY Zenon DEF AddEntry, Put, Fresh, Placed
<1>2. bl[j][t] # 0 => bl[j][t] \in Blocks /\ bl[j][t] \notin free_map
  BY DEF InodeBlocksType, Exclusive
<1>3. ASSUME bl[d][s] # 0, NEW c \in Cells, content' = Put(cn, bl[d][s], c, e), blocks' = bl
      PROVE  /\ blocks'[j][t] = bl[j][t]
             /\ bl[j][t] # 0 => \A x \in Cells : content'[bl[j][t]][x] = cn[bl[j][t]][x]
  <2>1. bl[d][s] # bl[j][t] \/ bl[j][t] = 0
    BY DEF Exclusive
  <2>2. bl[j][t] # 0 => \A x \in Cells : content'[bl[j][t]][x] = cn[bl[j][t]][x]
    <3> DEFINE b == bl[j][t]
               b2 == bl[d][s]
    <3>1. b # 0 => b # b2 /\ b \in Blocks
      BY <1>2, <2>1
    <3>2. content' = Put(cn, b2, c, e)
      BY Zenon, <1>3
    <3> HIDE DEF b, b2
    <3>3. b # 0 => \A x \in Cells : content'[b][x] = cn[b][x]
      BY <3>1, <3>2 DEF Put, ContentType
    <3> QED BY Zenon, <3>3 DEF b
  <2> QED BY Zenon, <1>3, <2>2
<1>4. ASSUME NEW b \in free_map, content' = Fresh(cn, b, e), blocks' = Placed(bl, d, s, b)
      PROVE  /\ blocks'[j][t] = bl[j][t]
             /\ bl[j][t] # 0 => \A x \in Cells : content'[bl[j][t]][x] = cn[bl[j][t]][x]
  <2>1. blocks'[j][t] = bl[j][t]
    BY <1>4 DEF Placed, InodeBlocksType
  <2>2. bl[j][t] # 0 => content'[bl[j][t]] = cn[bl[j][t]]
    <3> DEFINE b3 == bl[j][t]
    <3>1. b3 # 0 => b3 # b /\ b3 \in Blocks
      BY <1>2
    <3> HIDE DEF b3
    <3>2. b3 # 0 => content'[b3] = cn[b3]
      BY <1>4, <3>1 DEF Fresh, ContentType
    <3> QED BY Zenon, <3>2 DEF b3
  <2> QED BY Zenon, <2>1, <2>2
<1> QED BY Zenon, <1>1, <1>3, <1>4

\* remove_entry too.
LEMMA RemoveKeeps ==
    ASSUME FsInvariant, Tree, NEW path \in NamedPaths, NEW i \in Named(path), NEW d \in Parent(path),
           NEW j \in Inodes, j # d, NEW t \in Slots, blocks[j][t] # 0, NEW c \in Cells
    PROVE  Removed(d, Last(path))[blocks[j][t]][c] = content[blocks[j][t]][c]
<1>1. /\ blocks \in InodeBlocksType /\ content \in ContentType /\ Exclusive(blocks, free_map)
  BY DiskIs
<1> DEFINE n == Last(path)
<1>2. d \in Inodes /\ HasEntry(E0, d, n, i)
  BY NamedEntry
<1> HIDE DEF n
<1>3. PICK x \in E0 : x[1] = d /\ x[4] = n
  BY Zenon, <1>2 DEF HasEntry
<1>4. x \in Places /\ IsEntry(node_type, blocks, content, x[1], x[2], x[3], x[4], x[5])
  BY Zenon, EntsIs DEF E0
<1>5. x[2] \in Slots /\ x[3] \in Cells /\ blocks[d][x[2]] # 0
  <2>1. blocks[x[1]][x[2]] # 0
    BY Zenon, <1>4 DEF IsEntry
  <2> QED BY <1>3, <1>4, <2>1, PlaceIs
<1>6. Removed(d, n) = Put(content, blocks[d][x[2]], x[3], Zero)
  BY <1>2, <1>3, FindIs
<1> DEFINE b == blocks[j][t]
           b2 == blocks[d][x[2]]
           y == x[3]
<1>7. b # b2 /\ b \in Blocks
  <2>1. b # b2
    BY <1>1, <1>2, <1>5 DEF Exclusive
  <2>2. b \in Blocks
    BY <1>1 DEF InodeBlocksType
  <2> QED BY <2>1, <2>2
<1>8. Removed(d, n) = Put(content, b2, y, Zero)
  BY Zenon, <1>6
<1> HIDE DEF b, b2, y
<1>9. Removed(d, n)[b][c] = content[b][c]
  BY <1>1, <1>7, <1>8 DEF Put, ContentType
<1> QED BY Zenon, <1>9 DEF b, n

LEMMA CreateKeeps ==
    ASSUME TreeInv, NEW path \in NamedPaths, NEW type, NEW i \in inode_map, CreateAt(path, type, i),
           NEW j \in Inodes, node_type[j] = "file"
    PROVE  FileKept(j)
<1>1. FsInvariant /\ Tree
  BY Zenon DEF TreeInv
<1>2. PICK d \in Parent(path) :
        /\ node_type[d] = "dir"
        /\ AddEntry([blocks EXCEPT ![i] = NoBlocks], [size EXCEPT ![i] = 0], content, d, Entry(Last(path), i))
  BY Zenon DEF CreateAt
<1>3. [blocks EXCEPT ![i] = NoBlocks] = blocks
  BY <1>1, FreeIs
<1> DEFINE sz == [size EXCEPT ![i] = 0]
           e == Entry(Last(path), i)
<1>4. AddEntry(blocks, sz, content, d, e)
  BY Zenon, <1>2, <1>3
<1> HIDE DEF sz, e
<1>5. d \in Inodes /\ j # d
  BY <1>2, NamedInodes
<1>6. /\ blocks \in InodeBlocksType /\ content \in ContentType /\ free_map \in SUBSET Blocks
      /\ Exclusive(blocks, free_map)
  BY <1>1, DiskIs
<1>7. ASSUME NEW s \in Slots
      PROVE  /\ blocks'[j][s] = blocks[j][s]
             /\ blocks[j][s] # 0 => \A c \in Cells : content'[blocks[j][s]][c] = content[blocks[j][s]][c]
  BY <1>4, <1>5, <1>6, AddKeeps
<1> QED BY Zenon, <1>7 DEF FileKept

LEMMA MoveKeeps ==
    ASSUME TreeInv, NEW old \in NamedPaths, NEW i \in Named(old), NEW d \in Parent(old), NEW p \in Inodes,
           node_type[p] = "dir", NEW e, AddEntry(blocks, LeftBehind(d), Removed(d, Last(old)), p, e),
           NEW j \in Inodes, node_type[j] = "file"
    PROVE  FileKept(j)
<1>1. FsInvariant /\ Tree
  BY Zenon DEF TreeInv
<1>2. d \in Inodes /\ node_type[d] = "dir"
  <2>1. \E x \in E0 : d \in Inodes /\ node_type[d] = "dir"
    BY Zenon, <1>1, RemoveTree
  <2> QED BY Zenon, <2>1
<1>3. j # d /\ j # p
  BY <1>2
<1> DEFINE cn == Removed(d, Last(old))
           sz == LeftBehind(d)
<1>4. cn \in ContentType
  <2>1. \E x \in E0 : Removed(d, Last(old)) \in ContentType
    BY Zenon, <1>1, RemoveTree
  <2> QED BY Zenon, <2>1
<1>5. /\ blocks \in InodeBlocksType /\ free_map \in SUBSET Blocks /\ Exclusive(blocks, free_map)
  BY <1>1, DiskIs
<1>6. ASSUME NEW s \in Slots, blocks[j][s] # 0, NEW c \in Cells PROVE cn[blocks[j][s]][c] = content[blocks[j][s]][c]
  BY <1>1, <1>3, <1>6, RemoveKeeps
<1>7. AddEntry(blocks, sz, cn, p, e)
  BY Zenon
<1> HIDE DEF cn, sz
<1>8. ASSUME NEW s \in Slots
      PROVE  /\ blocks'[j][s] = blocks[j][s]
             /\ blocks[j][s] # 0 => \A c \in Cells : content'[blocks[j][s]][c] = cn[blocks[j][s]][c]
  BY ONLY <1>3, <1>4, <1>5, <1>7, AddKeeps, p \in Inodes, j \in Inodes, s \in Slots
<1>9. ASSUME NEW s \in Slots
      PROVE  /\ blocks'[j][s] = blocks[j][s]
             /\ blocks[j][s] # 0 => \A c \in Cells : content'[blocks[j][s]][c] = content[blocks[j][s]][c]
  BY <1>6, <1>8
<1> QED BY Zenon, <1>9 DEF FileKept

LEMMA ReleaseKeeps ==
    ASSUME TreeInv, NEW path \in NamedPaths, NEW i \in Named(path), Release(path, i),
           NEW j \in Inodes, node_type[j] = "file", j # i
    PROVE  FileKept(j)
<1>1. FsInvariant /\ Tree
  BY Zenon DEF TreeInv
<1>2. PICK d \in Parent(path) : content' = Removed(d, Last(path)) /\ FreeSlots(i, UsedFrom(i, 0))
  BY Zenon DEF Release, RemoveEntry
<1>3. i \in Inodes /\ d \in Inodes /\ node_type[d] = "dir"
  BY Zenon, <1>1, RemoveTree
<1>4. j # d
  BY <1>3
<1>5. \A s \in Slots : blocks'[j][s] = blocks[j][s]
  BY <1>1, <1>2, <1>3, FreeSlotsCells
<1>6. ASSUME NEW s \in Slots, blocks[j][s] # 0, NEW c \in Cells
      PROVE  content'[blocks[j][s]][c] = content[blocks[j][s]][c]
  <2>1. Removed(d, Last(path))[blocks[j][s]][c] = content[blocks[j][s]][c]
    BY <1>1, <1>4, <1>6, RemoveKeeps
  <2> QED BY Zenon, <1>2, <2>1
<1> QED BY Zenon, <1>5, <1>6 DEF FileKept

\* A write leaves the cells outside of its range, those of holes too.
LEMMA WriteKeeps ==
    ASSUME FsInvariant, FsInvariant', NEW i \in Inodes, NEW off \in Nat, NEW v, NEW S, NEW got, NEW done,
           WriteTo(i, off, v, S, got, done), NEW k \in Nat, k \notin off .. off + done - 1
    PROVE  CellAt(i, k)' = CellAt(i, k)
<1> DEFINE s == k \div CellsPerBlock
           c == k % CellsPerBlock
<1>1. c \in Cells /\ s * CellsPerBlock + c = k
  BY DivIs
<1>2. CellAt(i, k) = IF s \in Slots /\ blocks[i][s] # 0 THEN content[blocks[i][s]][c] ELSE Zero
  BY Zenon DEF CellAt
<1>3. CellAt(i, k)' = IF s \in Slots /\ blocks'[i][s] # 0 THEN content'[blocks'[i][s]][c] ELSE Zero
  BY Zenon DEF CellAt
<1> HIDE DEF s, c
<1>4. s * CellsPerBlock + c \notin off .. off + done - 1
  BY Zenon, <1>1
<1>5. CASE s \notin Slots
  BY <1>2, <1>3, <1>5
<1>6. CASE s \in Slots /\ blocks[i][s] # 0
  <2>1. blocks'[i][s] = blocks[i][s] /\ content'[blocks[i][s]][c] = content[blocks[i][s]][c]
    BY <1>1, <1>4, <1>6, WriteCells
  <2>2. CellAt(i, k) = content[blocks[i][s]][c]
    BY <1>2, <1>6
  <2>3. CellAt(i, k)' = content'[blocks'[i][s]][c]
    BY <1>3, <1>6, <2>1
  <2> QED BY Zenon, <2>1, <2>2, <2>3
<1>7. CASE s \in Slots /\ blocks[i][s] = 0
  <2>1. CellAt(i, k) = Zero
    BY <1>2, <1>7
  <2>2. CASE blocks'[i][s] = 0
    BY <1>3, <2>1, <2>2
  <2>3. CASE blocks'[i][s] # 0
    <3> DEFINE b == blocks'[i][s]
               nb(t) == NewBlock(i, S, got, t)
               taken == {got[t] : t \in S}
               In(t) == t * CellsPerBlock + c \in off .. off + done - 1
    <3>1. \A t \in Slots : blocks'[i][t] = nb(t)
      BY WriteCells
    <3>2. s \in S /\ b \in taken
      <4>1. b = nb(s)
        BY <1>7, <3>1
      <4>2. s \in S
        BY Zenon, <1>7, <2>3, <4>1 DEF NewBlock
      <4>3. nb(s) = got[s]
        BY Zenon, <4>2 DEF NewBlock
      <4> QED BY Zenon, <4>1, <4>2, <4>3
    <3>3. b \in Blocks
      <4>1. got \in [S -> free_map]
        BY Zenon DEF WriteTo
      <4>2. free_map \in SUBSET Blocks
        BY DiskIs
      <4> QED BY <3>2, <4>1, <4>2
    <3>4. ASSUME NEW t \in Slots, nb(t) = b PROVE t = s
      <4>1. blocks'[i][t] = blocks'[i][s]
        BY Zenon, <3>1, <3>4
      <4>2. BlocksExclusive'
        BY Zenon DEF FsInvariant
      <4>3. \A a, e \in Inodes, x, y \in Slots : blocks'[a][x] # 0 => (blocks'[a][x] = blocks'[e][y] => a = e /\ x = y)
        BY <4>2 DEF BlocksExclusive
      <4> QED BY <1>7, <2>3, <4>1, <4>3
    <3>5. ~ \E t \in Slots : nb(t) = b /\ In(t)
      BY Zenon, <1>4, <3>4
    <3>6. content' = [b2 \in Blocks |-> [x \in Cells |->
             IF \E t \in Slots : nb(t) = b2 /\ t * CellsPerBlock + x \in off .. off + done - 1
             THEN v
             ELSE IF b2 \in taken THEN Zero
             ELSE content[b2][x]]]
      BY Zenon DEF WriteTo
    <3> HIDE DEF b, nb, taken
    <3>7. content'[b][c] = IF \E t \in Slots : nb(t) = b /\ In(t) THEN v ELSE IF b \in taken THEN Zero ELSE content[b][c]
      BY <1>1, <3>3, <3>6
    <3>8. content'[b][c] = Zero
      BY Zenon, <3>2, <3>5, <3>7
    <3>9. CellAt(i, k)' = content'[b][c]
      BY Zenon, <1>3, <1>7, <2>3 DEF b
    <3> QED BY Zenon, <2>1, <3>8, <3>9
  <2> QED BY Zenon, <2>2, <2>3
<1> QED BY Zenon, <1>5, <1>6, <1>7

FilesKept ==
    \A i \in Inodes : node_type[i] = "file" =>
        \A k \in 0 .. size[i] - 1 : CellAt(i, k)' # CellAt(i, k) =>
            \/ node_type'[i] = "free"
            \/ \E f \in Fds : fds[f].valid /\ fds[f].inode = i /\
                 \/ \E n \in 1 .. MaxWrite, v \in Written :
                      Write(f, n, v) /\ k \in fds[f].pos .. fds'[f].pos - 1
                 \/ \E length \in 0 .. k : Truncate(f, length)

LEMMA FilesStep ==
    ASSUME CarefulNames, CarefulFds, TreeInv, TreeInv', [Next]_vars
    PROVE  FilesKept
<1>1. FsInvariant /\ Tree /\ FsInvariant'
  BY Zenon DEF TreeInv
<1>2. /\ node_type \in TypesType /\ blocks \in InodeBlocksType /\ size \in [Inodes -> Nat] /\ fds \in FdsType
  BY <1>1, DiskIs
<1> SUFFICES ASSUME NEW i \in Inodes, node_type[i] = "file", NEW k \in 0 .. size[i] - 1,
                    CellAt(i, k)' # CellAt(i, k), node_type'[i] # "free"
             PROVE  \E f \in Fds : fds[f].valid /\ fds[f].inode = i /\
                      \/ \E n \in 1 .. MaxWrite, v \in Written :
                           Write(f, n, v) /\ k \in fds[f].pos .. fds'[f].pos - 1
                      \/ \E length \in 0 .. k : Truncate(f, length)
  BY Zenon DEF FilesKept
<1>3. k \in Nat
  BY <1>2
<1>4. ~ FileKept(i)
  BY <1>3, CellKept
<1>5. ASSUME blocks' = blocks, content' = content PROVE FALSE
  BY Zenon, <1>4, <1>5 DEF FileKept
<1>6. ASSUME UNCHANGED diskVars PROVE FALSE
  <2>1. blocks' = blocks /\ content' = content
    BY <1>6 DEF diskVars
  <2> QED BY <1>5, <2>1
<1>7. ASSUME NEW path \in NamedPaths, Mkdir(path) \/ OpenCreates(path) PROVE FALSE
  <2>1. \E j \in inode_map, type \in {"file", "dir"} : CreateAt(path, type, j)
    BY <1>7 DEF Mkdir, OpenCreates
  <2> QED BY <1>4, <2>1, CreateKeeps
<1>8. ASSUME NEW path \in NamedPaths, CreateFails(path) PROVE FALSE
  <2>1. PICK j \in inode_map : blocks' = [blocks EXCEPT ![j] = NoBlocks] /\ content' = content
    BY <1>8 DEF CreateFails
  <2>2. [blocks EXCEPT ![j] = NoBlocks] = blocks
    BY <1>1, FreeIs
  <2> QED BY Zenon, <1>5, <2>1, <2>2
<1>9. ASSUME NEW path \in NamedPaths, Unlink(path) \/ Rmdir(path) PROVE FALSE
  <2>1. PICK j \in Named(path) : Release(path, j)
    BY Zenon, <1>9 DEF Unlink, Rmdir
  <2>2. CASE j = i
    <3>1. node_type' = [node_type EXCEPT ![i] = "free"]
      BY <2>1, <2>2 DEF Release, FreeInode
    <3>2. node_type'[i] = "free"
      BY <1>2, <3>1 DEF TypesType
    <3> QED BY <3>2
  <2>3. CASE j # i
    BY <1>4, <2>1, <2>3, ReleaseKeeps
  <2> QED BY <2>2, <2>3
<1>10. ASSUME NEW old \in NamedPaths, NEW new \in NamedPaths, Rename(old, new) PROVE FALSE
  <2>1. PICK j \in Named(old), d \in Parent(old), p \in Parent(new) :
          /\ node_type[p] = "dir"
          /\ AddEntry(blocks, LeftBehind(d), Removed(d, Last(old)), p, Entry(Last(new), j))
    BY Zenon, <1>10 DEF Rename, RenameFrom
  <2>2. p \in Inodes
    BY NamedInodes
  <2> DEFINE e == Entry(Last(new), j)
  <2>3. AddEntry(blocks, LeftBehind(d), Removed(d, Last(old)), p, e)
    BY Zenon, <2>1
  <2> HIDE DEF e
  <2> QED BY <1>4, <2>1, <2>2, <2>3, MoveKeeps
<1>11. ASSUME NEW old \in NamedPaths, NEW new \in NamedPaths, RenameRollsBack(old, new) PROVE FALSE
  <2>1. PICK j \in Named(old), d \in Parent(old) :
          AddEntry(blocks, LeftBehind(d), Removed(d, Last(old)), d, Entry(Last(old), j))
    BY Zenon, <1>11 DEF RenameRollsBack
  <2>2. d \in Inodes /\ node_type[d] = "dir"
    <3>1. \E x \in E0 : d \in Inodes /\ node_type[d] = "dir"
      BY Zenon, <1>1, RemoveTree
    <3> QED BY Zenon, <3>1
  <2> DEFINE e == Entry(Last(old), j)
  <2>3. AddEntry(blocks, LeftBehind(d), Removed(d, Last(old)), d, e)
    BY Zenon, <2>1
  <2> HIDE DEF e
  <2> QED BY <1>4, <2>2, <2>3, MoveKeeps
<1>12. ASSUME NEW f \in Fds, NEW n \in 1 .. MaxWrite, NEW v \in Written, Write(f, n, v)
       PROVE  fds[f].valid /\ fds[f].inode = i /\ k \in fds[f].pos .. fds'[f].pos - 1
  <2>1. n \in Nat /\ v \in CellValues
    BY FileSystemAssumption DEF Written
  <2>2. /\ fds[f].valid /\ fds[f].inode \in Inodes /\ fds[f].pos \in Nat
        /\ \E S, got, done : /\ WriteTo(fds[f].inode, fds[f].pos, v, S, got, done)
                             /\ fds' = [fds EXCEPT ![f].pos = fds[f].pos + done]
    BY <1>1, <1>12, <2>1, WriteIs
  <2> DEFINE j == fds[f].inode
             off == fds[f].pos
  <2>3. PICK S, got, done : WriteTo(j, off, v, S, got, done) /\ fds' = [fds EXCEPT ![f].pos = off + done]
    BY Zenon, <2>2
  <2>4. fds'[f].pos = off + done
    <3> DEFINE pos == off + done
    <3> HIDE DEF pos
    <3>1. fds' = [fds EXCEPT ![f].pos = pos]
      BY <2>3 DEF pos
    <3>2. fds'[f].pos = pos
      BY <1>2, <3>1 DEF FdsType
    <3> QED BY <3>2 DEF pos
  <2>5. j \in Inodes /\ off \in Nat
    BY <2>2
  <2> HIDE DEF j, off
  <2>6. j = i
    <3> SUFFICES ASSUME j # i PROVE FALSE
      OBVIOUS
    <3>1. ASSUME NEW s \in Slots
          PROVE  /\ blocks'[i][s] = blocks[i][s]
                 /\ blocks[i][s] # 0 => \A c \in Cells : content'[blocks[i][s]][c] = content[blocks[i][s]][c]
      BY <1>1, <2>3, <2>5, WriteCells
    <3> QED BY Zenon, <1>4, <3>1 DEF FileKept
  <2>7. k \in off .. off + done - 1
    <3> SUFFICES ASSUME k \notin off .. off + done - 1 PROVE FALSE
      OBVIOUS
    <3>1. WriteTo(i, off, v, S, got, done)
      BY <2>3, <2>6
    <3>2. CellAt(i, k)' = CellAt(i, k)
      BY <1>1, <1>3, <2>5, <3>1, WriteKeeps
    <3> QED BY Zenon, <3>2
  <2> DEFINE pos2 == fds'[f].pos
  <2> HIDE DEF pos2
  <2>8. k \in off .. pos2 - 1
    <3>1. pos2 = off + done
      BY Zenon, <2>4 DEF pos2
    <3>2. done \in Nat
      BY Zenon, <2>3 DEF WriteTo
    <3> QED BY <2>5, <2>7, <3>1, <3>2
  <2> QED BY Zenon, <2>2, <2>6, <2>8 DEF j, off, pos2
<1>13. ASSUME NEW f \in Fds, NEW length \in 0 .. Capacity, Truncate(f, length)
       PROVE  fds[f].valid /\ fds[f].inode = i /\ length \in 0 .. k
  <2> DEFINE j == fds[f].inode
  <2>1. fds[f].valid /\ FreeSlots(j, UsedFrom(j, Keep(length))) /\ content' = content
    BY <1>13 DEF Truncate
  <2>2. j \in Inodes
    BY <1>2 DEF FdsType
  <2>3. length \in Nat
    BY FileSystemAssumption DEF Capacity
  <2> HIDE DEF j
  <2>4. \A s \in Slots : blocks'[i][s] = IF i = j /\ s >= Keep(length) THEN 0 ELSE blocks[i][s]
    BY <1>1, <2>1, <2>2, FreeSlotsCells
  <2>5. j = i
    <3> SUFFICES ASSUME j # i PROVE FALSE
      OBVIOUS
    <3>1. \A s \in Slots : blocks'[i][s] = blocks[i][s]
      BY <2>4
    <3> QED BY Zenon, <1>4, <2>1, <3>1 DEF FileKept
  <2>6. ~(k < length)
    <3> SUFFICES ASSUME k < length PROVE FALSE
      OBVIOUS
    <3> DEFINE s == k \div CellsPerBlock
               c == k % CellsPerBlock
    <3>1. ~(s >= Keep(length))
      BY <1>3, <2>3, KeepIs
    <3>2. CellAt(i, k) = IF s \in Slots /\ blocks[i][s] # 0 THEN content[blocks[i][s]][c] ELSE Zero
      BY Zenon DEF CellAt
    <3>3. CellAt(i, k)' = IF s \in Slots /\ blocks'[i][s] # 0 THEN content'[blocks'[i][s]][c] ELSE Zero
      BY Zenon DEF CellAt
    <3> HIDE DEF s, c
    <3>4. s \in Slots => blocks'[i][s] = blocks[i][s]
      BY <2>4, <3>1
    <3>5. CellAt(i, k)' = CellAt(i, k)
      BY Zenon, <2>1, <3>2, <3>3, <3>4
    <3> QED BY Zenon, <3>5
  <2>7. length \in 0 .. k
    BY <1>3, <2>3, <2>6
  <2> QED BY Zenon, <2>1, <2>5, <2>7 DEF j
<1>14. ASSUME NEW path \in Paths, NEW flags \in {"ro", "rw"}, Open(path, flags) PROVE FALSE
  BY Zenon, <1>6, <1>14 DEF Open
<1>15. ASSUME NEW f \in Fds, Close(f) \/ ReadNext(f) \/ \E pos \in 0 .. MaxPos : Seek(f, pos) PROVE FALSE
  BY Zenon, <1>6, <1>15 DEF Close, ReadNext, Seek
<1>16. ASSUME UNCHANGED vars PROVE FALSE
  BY <1>6, <1>16 DEF vars, diskVars
<1>17. Next
  BY Zenon, <1>16
<1> QED BY Zenon, <1>7, <1>8, <1>9, <1>10, <1>11, <1>12, <1>13, <1>14, <1>15, <1>17 DEF Next

(* For careful programs a cell within a file changes only by a write        *)
(* through one of its descriptors that covers it, by an ftruncate at or     *)
(* below it, or with the file: a partial write that runs out of blocks,     *)
(* the last block that ftruncate keeps, entries that come and go and blocks *)
(* that change hands never reach it.                                        *)
THEOREM FileTreeFilesFrame ==
    ASSUME CarefulNames, CarefulFds
    PROVE  Spec => FilesFrame
<1>1. TreeInv /\ TreeInv' /\ [Next]_vars =>
        [\A i \in Inodes : node_type[i] = "file" =>
          \A k \in 0 .. size[i] - 1 : CellAt(i, k)' # CellAt(i, k) =>
            \/ node_type'[i] = "free"
            \/ \E f \in Fds : fds[f].valid /\ fds[f].inode = i /\
                 \/ \E n \in 1 .. MaxWrite, v \in Written :
                      Write(f, n, v) /\ k \in fds[f].pos .. fds'[f].pos - 1
                 \/ \E length \in 0 .. k : Truncate(f, length)]_vars
  BY Zenon, FilesStep DEF FilesKept
<1> QED BY <1>1, FileTreeInvariant, PTL DEF Spec, FilesFrame

-----------------------------------------------------------------------------
(* Where files end.                                                         *)

\* No file has a block at or behind its end.
Within ==
    \A i \in Inodes, s \in Slots :
        node_type[i] = "file" /\ blocks[i][s] # 0 => s * CellsPerBlock < size[i]

\* A write takes blocks below the end that it leaves behind, also when it has
\* to stop in front of a slot that gets none.
LEMMA WriteEnds ==
    ASSUME FsInvariant, NEW f \in Fds, NEW n \in Nat, NEW v, Write(f, n, v), NEW s \in Slots
    PROVE  /\ size'[fds[f].inode] \in Nat /\ size'[fds[f].inode] >= size[fds[f].inode]
           /\ blocks'[fds[f].inode][s] # blocks[fds[f].inode][s] =>
                s * CellsPerBlock < size'[fds[f].inode]
<1> DEFINE i == fds[f].inode
           off == fds[f].pos
           missing == Missing(i, off, off + n)
           served == {t \in missing :
                        Cardinality({u \in missing : u < t}) < Cardinality(free_map)}
           ends == {InodeBlocks} \cup (missing \ served)
<1>1. /\ blocks \in InodeBlocksType /\ size \in [Inodes -> Nat] /\ fds \in FdsType
      /\ free_map \in SUBSET Blocks
  BY DiskIs
<1>2. i \in Inodes /\ off \in Nat
  BY <1>1 DEF FdsType
<1>3. missing \subseteq Slots /\ \A t \in missing : t * CellsPerBlock < off + n
  BY DEF Missing
<1>4. \E stop \in ends, got \in [served -> free_map] :
        LET room == stop * CellsPerBlock - off
            done == IF room < 0 THEN 0 ELSE IF n > room THEN room ELSE n
            bl == [t \in Slots |-> IF t \in served THEN got[t] ELSE blocks[i][t]]
        IN  /\ blocks' = [blocks EXCEPT ![i] = bl]
            /\ size' = IF off + done > size[i]
                       THEN [size EXCEPT ![i] = off + done] ELSE size
  BY ZenonT(60) DEF Write
<1>5. ASSUME NEW t \in served, NEW stop \in ends PROVE t \in Slots /\ stop \in Nat /\ t < stop
  <2>1. t \in Slots /\ t \in missing
    BY <1>3
  <2>2. CASE stop = InodeBlocks
    BY <2>1, <2>2, FileSystemAssumption DEF Slots
  <2>3. CASE stop \in missing /\ stop \notin served
    <3> DEFINE A == {u \in missing : u < t}
               B == {u \in missing : u < stop}
    <3>1. stop \in Slots /\ stop \in Nat /\ t \in Nat
      BY <1>3, <2>1, <2>3, Constants
    <3>2. IsFiniteSet(A) /\ IsFiniteSet(B)
      <4>1. A \subseteq Slots /\ B \subseteq Slots
        BY <1>3
      <4> HIDE DEF A, B
      <4> QED BY <4>1, Constants, FS_Subset
    <3>3. IsFiniteSet(free_map)
      BY <1>1, Constants, FS_Subset
    <3> DEFINE ca == Cardinality(A)
               cb == Cardinality(B)
               cf == Cardinality(free_map)
    <3>4. ca \in Nat /\ cb \in Nat /\ cf \in Nat
      BY <3>2, <3>3, FS_CardinalityType
    <3>5. ca < cf /\ ~(cb < cf)
      BY <2>3
    <3>6. ASSUME stop <= t PROVE cb <= ca
      <4>1. ASSUME NEW u \in missing, u < stop PROVE u < t
        <5>1. u \in Nat
          BY <1>3, Constants
        <5> QED BY <3>1, <3>6, <4>1, <5>1
      <4>2. B \subseteq A
        <5> HIDE DEF missing
        <5> QED BY <4>1
      <4> QED BY <3>2, <4>2, FS_Subset
    <3> HIDE DEF ca, cb, cf
    <3>7. ~(stop <= t)
      BY <3>4, <3>5, <3>6
    <3> QED BY <2>1, <3>1, <3>7
  <2> QED BY <2>2, <2>3
<1> HIDE DEF i, off, missing, served, ends
<1>6. PICK stop \in ends, got \in [served -> free_map] :
        LET room == stop * CellsPerBlock - off
            done == IF room < 0 THEN 0 ELSE IF n > room THEN room ELSE n
            bl == [t \in Slots |-> IF t \in served THEN got[t] ELSE blocks[i][t]]
        IN  /\ blocks' = [blocks EXCEPT ![i] = bl]
            /\ size' = IF off + done > size[i]
                       THEN [size EXCEPT ![i] = off + done] ELSE size
  BY <1>4
<1> DEFINE room == stop * CellsPerBlock - off
           done == IF room < 0 THEN 0 ELSE IF n > room THEN room ELSE n
           bl == [t \in Slots |-> IF t \in served THEN got[t] ELSE blocks[i][t]]
           end == off + done
<1>7. stop \in Nat
  <2>1. ends \subseteq Nat
    BY <1>3, Constants, FileSystemAssumption DEF ends
  <2> QED BY <2>1
<1>8. end \in Nat
  BY <1>2, <1>7, FileSystemAssumption
<1>9. blocks' = [blocks EXCEPT ![i] = bl] /\ size' = IF end > size[i] THEN [size EXCEPT ![i] = end] ELSE size
  BY <1>6
<1>10. ASSUME s \in served PROVE s * CellsPerBlock < end
  <2> DEFINE c == CellsPerBlock
             a == s * c
             b == stop * c
  <2>1. c \in Nat \ {0} /\ s \in Nat
    BY FileSystemAssumption, Constants
  <2>2. a \in Nat /\ b \in Nat /\ a < off + n
    <3>1. s \in missing
      BY <1>10 DEF served
    <3> QED BY <1>3, <1>7, <2>1, <3>1
  <2>3. a < b
    <3>1. s < stop
      BY <1>5, <1>10
    <3> HIDE DEF c
    <3> QED BY <1>7, <2>1, <3>1
  <2>4. end = off + (IF b - off < 0 THEN 0 ELSE IF n > b - off THEN b - off ELSE n)
    OBVIOUS
  <2> HIDE DEF a, b, end
  <2>5. a < end
    BY <1>2, <2>2, <2>3, <2>4
  <2> QED BY <2>5 DEF a
<1> HIDE DEF end, done, room
<1>11. size'[i] \in Nat /\ size'[i] >= size[i] /\ size'[i] >= end
  BY <1>1, <1>2, <1>8, <1>9
<1>12. ASSUME blocks'[i][s] # blocks[i][s] PROVE s * CellsPerBlock < size'[i]
  <2>1. blocks'[i][s] = bl[s]
    <3> HIDE DEF bl
    <3> QED BY <1>1, <1>2, <1>9 DEF InodeBlocksType
  <2>2. s \in served
    BY <1>12, <2>1
  <2> DEFINE a == s * CellsPerBlock
             z == size'[i]
  <2>3. a \in Nat /\ a < end
    BY <1>10, <2>2, FileSystemAssumption, Constants
  <2>4. z \in Nat /\ z >= end
    BY <1>11
  <2> HIDE DEF a, z
  <2>5. a < z
    BY <1>8, <2>3, <2>4
  <2> QED BY <2>5 DEF a, z
<1> QED BY <1>11, <1>12 DEF i

\* What truncate keeps starts before the new end.
LEMMA KeepEnds ==
    ASSUME NEW s \in Slots, NEW length \in Nat, ~(s >= Keep(length))
    PROVE  s * CellsPerBlock < length
<1> DEFINE m == CellsPerBlock
           a == length + m - 1
           t == a \div m
<1>1. m \in Nat /\ m >= 1 /\ s \in Nat
  BY FileSystemAssumption, Constants
<1>2. a \in Nat
  BY <1>1
<1>3. t \in Nat /\ a % m \in 0 .. m - 1 /\ t * m + (a % m) = a
  <2> HIDE DEF a
  <2> QED BY <1>2, DivIs DEF Cells
<1>4. s + 1 <= t
  <2>1. Keep(length) = t
    BY DEF Keep
  <2> HIDE DEF t
  <2> QED BY <1>1, <1>3, <2>1
<1>5. t * m <= length + m - 1
  <2> DEFINE u == t * m
             r == a % m
  <2>1. u \in Int /\ r \in Int /\ r >= 0 /\ u + r = length + m - 1
    BY <1>1, <1>3
  <2> HIDE DEF u, r, m
  <2>2. u <= length + m - 1
    BY <1>1, <2>1
  <2> QED BY <2>2 DEF u
<1>6. s * m + m <= t * m
  <2> HIDE DEF t, m
  <2> QED BY <1>1, <1>3, <1>4
<1> DEFINE u == s * m
           w == t * m
<1>7. u \in Int /\ w \in Int /\ u + m <= w /\ w <= length + m - 1
  BY <1>1, <1>3, <1>5, <1>6
<1> HIDE DEF u, w, m
<1>8. u < length
  BY <1>1, <1>7
<1> QED BY <1>8 DEF u, m

\* Adding an entry to directory p leaves the size of everything else.
LEMMA AddSizes ==
    ASSUME NEW bl, NEW cn, NEW sz \in [Inodes -> Nat], NEW p \in Inodes, NEW e, AddEntry(bl, sz, cn, p, e),
           NEW j \in Inodes, j # p
    PROVE  size'[j] = sz[j]
BY DEF AddEntry

\* What remove_entry leaves of the directory d that held the entry.
LEMMA LeftIs ==
    ASSUME FsInvariant, Tree, NEW path \in NamedPaths, NEW i \in Named(path), NEW d \in Parent(path)
    PROVE  /\ d \in Inodes /\ node_type[d] = "dir"
           /\ Removed(d, Last(path)) \in ContentType /\ LeftBehind(d) \in [Inodes -> Nat]
<1>1. \E x \in E0 : /\ d \in Inodes /\ node_type[d] = "dir"
                    /\ Removed(d, Last(path)) \in ContentType /\ LeftBehind(d) \in [Inodes -> Nat]
  BY Zenon, RemoveTree
<1> QED BY Zenon, <1>1

LEMMA WithinStep ==
    ASSUME CarefulNames, CarefulFds, TreeInv, Within, [Next]_vars
    PROVE  Within'
<1>1. FsInvariant /\ Tree /\ FdsLive(fds, node_type)
  BY Zenon DEF TreeInv
<1>2. /\ node_type \in TypesType /\ blocks \in InodeBlocksType /\ size \in [Inodes -> Nat] /\ fds \in FdsType
      /\ content \in ContentType /\ free_map \in SUBSET Blocks /\ Exclusive(blocks, free_map)
  BY <1>1, DiskIs
<1> SUFFICES ASSUME NEW i \in Inodes, NEW s \in Slots, node_type'[i] = "file", blocks'[i][s] # 0
             PROVE  s * CellsPerBlock < size'[i]
  BY DEF Within
<1>3. ASSUME node_type[i] = "file", blocks'[i][s] = blocks[i][s], size'[i] = size[i]
      PROVE  s * CellsPerBlock < size'[i]
  BY Zenon, <1>3 DEF Within
<1>4. ASSUME node_type' = node_type, blocks' = blocks, size' = size PROVE s * CellsPerBlock < size'[i]
  BY Zenon, <1>3, <1>4
<1>5. ASSUME UNCHANGED diskVars PROVE s * CellsPerBlock < size'[i]
  <2>1. node_type' = node_type /\ blocks' = blocks /\ size' = size
    BY <1>5 DEF diskVars
  <2> QED BY <1>4, <2>1
<1>6. ASSUME NEW path \in NamedPaths, Mkdir(path) \/ OpenCreates(path) PROVE s * CellsPerBlock < size'[i]
  <2>1. PICK j \in inode_map, type \in {"file", "dir"} : CreateAt(path, type, j)
    BY <1>6 DEF Mkdir, OpenCreates
  <2>2. PICK d \in Parent(path) :
          /\ node_type[d] = "dir"
          /\ AddEntry([blocks EXCEPT ![j] = NoBlocks], [size EXCEPT ![j] = 0], content, d, Entry(Last(path), j))
          /\ node_type' = [node_type EXCEPT ![j] = type]
    BY Zenon, <2>1 DEF CreateAt
  <2>3. /\ j \in Inodes /\ node_type[j] = "free" /\ blocks[j][s] = 0
        /\ [blocks EXCEPT ![j] = NoBlocks] = blocks
    BY <1>1, FreeIs
  <2>4. d \in Inodes /\ d # j /\ d # i
    <3>1. d \in Inodes /\ d # j
      BY <2>2, <2>3, NamedInodes
    <3>2. node_type'[d] = "dir"
      BY <1>2, <2>2, <3>1 DEF TypesType
    <3> QED BY <3>1, <3>2
  <2> DEFINE sz == [size EXCEPT ![j] = 0]
             e == Entry(Last(path), j)
  <2>5. sz \in [Inodes -> Nat] /\ (i # j => sz[i] = size[i])
    BY <1>2, <2>3
  <2>6. AddEntry(blocks, sz, content, d, e)
    BY Zenon, <2>2, <2>3
  <2> HIDE DEF sz, e
  <2>7. blocks'[i][s] = blocks[i][s]
    BY <1>2, <2>4, <2>6, AddKeeps
  <2>8. i # j
    BY <2>3, <2>7
  <2>9. size'[i] = size[i]
    BY <2>4, <2>5, <2>6, <2>8, AddSizes
  <2>10. node_type[i] = "file"
    BY <1>2, <2>2, <2>8 DEF TypesType
  <2> QED BY <1>3, <2>7, <2>9, <2>10
<1>7. ASSUME NEW path \in NamedPaths, CreateFails(path) PROVE s * CellsPerBlock < size'[i]
  <2>1. PICK j \in inode_map : /\ blocks' = [blocks EXCEPT ![j] = NoBlocks]
                               /\ size' = [size EXCEPT ![j] = 0]
                               /\ node_type' = [node_type EXCEPT ![j] = "free"]
    BY <1>7 DEF CreateFails
  <2>2. j \in Inodes /\ [blocks EXCEPT ![j] = NoBlocks] = blocks
    BY <1>1, FreeIs
  <2>3. i # j
    BY <1>2, <2>1, <2>2 DEF TypesType
  <2>4. node_type[i] = "file" /\ size'[i] = size[i]
    BY <1>2, <2>1, <2>3 DEF TypesType
  <2>5. blocks'[i][s] = blocks[i][s]
    BY Zenon, <2>1, <2>2
  <2> QED BY <1>3, <2>4, <2>5
<1>8. ASSUME NEW path \in NamedPaths, Unlink(path) \/ Rmdir(path) PROVE s * CellsPerBlock < size'[i]
  <2>1. PICK j \in Named(path) : Release(path, j)
    BY Zenon, <1>8 DEF Unlink, Rmdir
  <2>2. PICK d \in Parent(path) : /\ size' = LeftBehind(d) /\ FreeSlots(j, UsedFrom(j, 0))
                                  /\ node_type' = [node_type EXCEPT ![j] = "free"]
    BY Zenon, <2>1 DEF Release, RemoveEntry, FreeInode
  <2>3. j \in Inodes /\ d \in Inodes /\ node_type[d] = "dir"
    BY Zenon, <1>1, RemoveTree
  <2>4. i # j /\ node_type[i] = "file"
    BY <1>2, <2>2, <2>3 DEF TypesType
  <2>5. size'[i] = size[i]
    BY <1>2, <2>2, <2>3, <2>4 DEF LeftBehind
  <2>6. blocks'[i][s] = blocks[i][s]
    BY <1>1, <2>2, <2>3, <2>4, FreeSlotsCells
  <2> QED BY <1>3, <2>4, <2>5, <2>6
<1>9. ASSUME NEW old \in NamedPaths, NEW new \in NamedPaths, Rename(old, new) \/ RenameRollsBack(old, new)
      PROVE  s * CellsPerBlock < size'[i]
  <2>0. PICK j \in Named(old), d \in Parent(old), p \in Parent(new), q \in Inodes :
          /\ node_type[p] = "dir" /\ (q = p \/ q = d)
          /\ \E e : AddEntry(blocks, LeftBehind(d), Removed(d, Last(old)), q, e)
          /\ node_type' = node_type
    <3>1. \A d \in Parent(old), p \in Parent(new) : d \in Inodes /\ p \in Inodes
      BY NamedInodes
    <3>2. CASE Rename(old, new)
      BY Zenon, <3>1, <3>2 DEF Rename, RenameFrom
    <3>3. CASE RenameRollsBack(old, new)
      BY Zenon, <3>1, <3>3 DEF RenameRollsBack, RenameFrom
    <3> QED BY <1>9, <3>2, <3>3
  <2>1. PICK e : AddEntry(blocks, LeftBehind(d), Removed(d, Last(old)), q, e)
    BY Zenon, <2>0
  <2>2. d \in Inodes /\ node_type[d] = "dir" /\ Removed(d, Last(old)) \in ContentType /\ LeftBehind(d) \in [Inodes -> Nat]
    BY <1>1, LeftIs
  <2>3. node_type[i] = "file" /\ i # d /\ i # q
    BY <2>0, <2>2
  <2> DEFINE sz == LeftBehind(d)
             cn == Removed(d, Last(old))
  <2>4. sz[i] = size[i]
    BY <1>2, <2>2, <2>3 DEF LeftBehind
  <2>5. AddEntry(blocks, sz, cn, q, e) /\ sz \in [Inodes -> Nat] /\ cn \in ContentType
    BY Zenon, <2>1, <2>2
  <2> HIDE DEF sz, cn
  <2>6. size'[i] = size[i]
    BY <2>3, <2>4, <2>5, AddSizes
  <2>7. blocks'[i][s] = blocks[i][s]
    BY <1>2, <2>3, <2>5, AddKeeps
  <2> QED BY <1>3, <2>3, <2>6, <2>7
<1>10. ASSUME NEW f \in Fds, NEW n \in 1 .. MaxWrite, NEW v \in Written, Write(f, n, v)
       PROVE  s * CellsPerBlock < size'[i]
  <2>1. n \in Nat /\ v \in CellValues
    BY FileSystemAssumption DEF Written
  <2> DEFINE j == fds[f].inode
             off == fds[f].pos
  <2>2. /\ j \in Inodes /\ off \in Nat /\ node_type' = node_type
        /\ \E S, got, done : WriteTo(j, off, v, S, got, done)
    BY <1>1, <1>10, <2>1, WriteIs
  <2>3. PICK S, got, done : WriteTo(j, off, v, S, got, done)
    BY Zenon, <2>2
  <2>4. node_type[i] = "file"
    BY Zenon, <2>2
  <2>5. /\ size'[j] \in Nat /\ size'[j] >= size[j]
        /\ blocks'[j][s] # blocks[j][s] => s * CellsPerBlock < size'[j]
    BY <1>1, <1>10, <2>1, WriteEnds
  <2> HIDE DEF j, off
  <2>6. CASE i # j
    <3>1. blocks'[i][s] = blocks[i][s]
      BY <1>1, <2>2, <2>3, <2>6, WriteCells
    <3>2. size'[i] = size[i]
      BY Zenon, <2>3, <2>6 DEF WriteTo
    <3> QED BY <1>3, <2>4, <3>1, <3>2
  <2>7. CASE i = j /\ blocks'[i][s] = blocks[i][s]
    <3> DEFINE a == s * CellsPerBlock
               y == size[i]
               z == size'[i]
    <3>1. a < y
      BY Zenon, <2>4, <2>7 DEF Within
    <3>2. y \in Nat /\ z \in Nat /\ z >= y
      BY <1>2, <2>5, <2>7
    <3>3. a \in Nat
      BY FileSystemAssumption, Constants
    <3> HIDE DEF a, y, z
    <3>4. a < z
      BY <3>1, <3>2, <3>3
    <3> QED BY Zenon, <3>4 DEF a, z
  <2>8. CASE i = j /\ blocks'[i][s] # blocks[i][s]
    BY Zenon, <2>5, <2>8
  <2> QED BY Zenon, <2>6, <2>7, <2>8
<1>11. ASSUME NEW f \in Fds, NEW length \in 0 .. Capacity, Truncate(f, length)
       PROVE  s * CellsPerBlock < size'[i]
  <2> DEFINE j == fds[f].inode
  <2>1. /\ FreeSlots(j, UsedFrom(j, Keep(length))) /\ node_type' = node_type
        /\ size' = [size EXCEPT ![j] = length]
    BY <1>11 DEF Truncate
  <2>2. j \in Inodes /\ length \in Nat
    BY <1>2, FileSystemAssumption DEF FdsType, Capacity
  <2> HIDE DEF j
  <2>3. blocks'[i][s] = IF i = j /\ s >= Keep(length) THEN 0 ELSE blocks[i][s]
    BY <1>1, <2>1, <2>2, FreeSlotsCells
  <2>4. node_type[i] = "file"
    BY Zenon, <2>1
  <2>5. CASE i # j
    <3>1. size'[i] = size[i]
      BY <1>2, <2>1, <2>2, <2>5
    <3> QED BY Zenon, <1>3, <2>3, <2>4, <2>5, <3>1
  <2>6. CASE i = j
    <3>1. ~(s >= Keep(length))
      BY Zenon, <2>3, <2>6
    <3>2. size'[i] = length
      BY <1>2, <2>1, <2>6
    <3>3. s * CellsPerBlock < length
      BY <2>2, <3>1, KeepEnds
    <3> QED BY Zenon, <3>2, <3>3
  <2> QED BY Zenon, <2>5, <2>6
<1>12. ASSUME NEW path \in Paths, NEW flags \in {"ro", "rw"}, Open(path, flags) PROVE s * CellsPerBlock < size'[i]
  BY Zenon, <1>5, <1>12 DEF Open
<1>13. ASSUME NEW f \in Fds, Close(f) \/ ReadNext(f) \/ \E pos \in 0 .. MaxPos : Seek(f, pos)
       PROVE  s * CellsPerBlock < size'[i]
  BY Zenon, <1>5, <1>13 DEF Close, ReadNext, Seek
<1>14. ASSUME UNCHANGED vars PROVE s * CellsPerBlock < size'[i]
  BY <1>5, <1>14 DEF vars, diskVars
<1> QED BY Zenon, <1>6, <1>7, <1>8, <1>9, <1>10, <1>11, <1>12, <1>13, <1>14 DEF Next

LEMMA TreeNoLeak == TreeInv /\ Within => NoLeak
<1> SUFFICES ASSUME TreeInv, Within, NEW b \in Blocks \ free_map
             PROVE  \E i \in Inodes \ inode_map : \E s \in Slots :
                      /\ blocks[i][s] = b
                      /\ node_type[i] = "file" => s * CellsPerBlock < size[i]
  BY DEF NoLeak
<1>1. FsInvariant /\ Tree /\ Owned(blocks, free_map)
  BY Zenon DEF TreeInv
<1>2. PICK i \in Inodes, s \in Slots : blocks[i][s] = b
  BY <1>1 DEF Owned
<1>3. b # 0
  BY Constants
<1>4. node_type[i] # "free"
  BY Zenon, <1>1, <1>2, <1>3 DEF Tree, Shape
<1>5. i \notin inode_map
  BY <1>1, <1>4, DiskIs
<1>6. node_type[i] = "file" => s * CellsPerBlock < size[i]
  BY Zenon, <1>2, <1>3 DEF Within
<1> QED BY <1>2, <1>5, <1>6

(* Programs that keep away from names in use and from what is open lose no *)
(* block: whatever they create, write, truncate, rename and remove, each   *)
(* block that alloc_block handed out is in the inode of something that     *)
(* exists, and in a file before its end, for images of any size.           *)
THEOREM FileTreeNoLeak ==
    ASSUME CarefulNames, CarefulFds
    PROVE  Spec => []NoLeak
<1>1. Init => Within
  BY DEF Init, Within
<1>2. TreeInv /\ Within /\ [Next]_vars => Within'
  BY WithinStep
<1> QED BY <1>1, <1>2, FileTreeInvariant, TreeNoLeak, PTL DEF Spec
=============================================================================
