------------------------------ MODULE TomFSBlocks ------------------------------
(****************************************************************************)
(* The block allocator of TomFS (tomfs.c) on the disk of the kernel         *)
(* (filesystem.c, ata.c): the bitmap of a volume of one block group, as     *)
(* make_fs.c makes them, the copy of it in the block cache, and             *)
(* tfsAllocateBlock and tfsDeallocateBlocks, one access to the disk at a    *)
(* time.  The disk may fail, and the machine may stop, at any sector of a   *)
(* write; stopping empties the cache.                                       *)
(*                                                                          *)
(* The bitmap is a binary tree: node 1 is its root, nodes 2n and 2n+1 are   *)
(* the children of n, and the leaves stand for the blocks 1, 2, 3, ... of   *)
(* the group.  The bit of a leaf says that its block is taken, that of an   *)
(* inner node that its whole subtree is.                                    *)
(****************************************************************************)
EXTENDS Integers, FiniteSets

CONSTANTS
  Levels,           \* height of the tree (14 in the code)
  total_blocks,     \* blocks of the volume, the header's included
  SectorNodes       \* bits of the bitmap in a sector of the disk (4096)

TFS_BLOCK_GROUP_SIZE == 2^Levels

ASSUME BlocksAssumption ==
  /\ Levels \in Nat \ {0}
  /\ total_blocks \in 3..TFS_BLOCK_GROUP_SIZE     \* one group, not quite full
  /\ SectorNodes \in Nat \ {0}

\* What a power is, which the provers do not know.
ASSUME PowersOfTwo ==
  /\ 2^0 = 1
  /\ \A k \in 1..Levels : 2^k = 2 * 2^(k - 1)

Nodes == 1..(2 * TFS_BLOCK_GROUP_SIZE - 1)
Leaves == TFS_BLOCK_GROUP_SIZE..(2 * TFS_BLOCK_GROUP_SIZE - 1)
InnerNodes == Nodes \ Leaves
GroupBlocks == 1..TFS_BLOCK_GROUP_SIZE    \* some lie past the end of the volume
BitmapBlock == 1
RootDirectory == 2

Sectors == 0..((2 * TFS_BLOCK_GROUP_SIZE - 1) \div SectorNodes)

VARIABLES
  bitmap,      \* nodes whose bit is set, on the disk
  cached,      \* the block cache has the bitmap's block
  copy,        \* nodes whose bit is set there
  last_write,  \* how the disk got what it has, as far as the cache does not know
  damaged,     \* a bitmap that was half written has been read
  in_use,      \* blocks that callers were given and have not given back
  call         \* the call of tfsAllocateBlock in progress

disk == << bitmap, cached, copy, last_write, damaged >>
vars == << bitmap, cached, copy, last_write, damaged, in_use, call >>

Places == {"none", "desired", "find", "claim", "write", "full", "failed"}
Idle == [at |-> "none", block |-> 0]

-----------------------------------------------------------------------------
\* The bitmap as a tree.

Leaf(block) == TFS_BLOCK_GROUP_SIZE + block - 1
Ancestor(node, k) == node \div 2^k
Sibling(node) == IF node % 2 = 0 THEN node + 1 ELSE node - 1

\* Mutant: the ancestors of a freed block stay set.
ClearBitmapBitAlone(bits, block) == bits \ {Leaf(block)}

\* Sets the block's bit, and that of each ancestor whose other child is set too.
SetBitmapBit(bits, block) ==
  bits \cup {Ancestor(Leaf(block), k) :
               k \in {n \in 0..Levels :
                        \A j \in 0..(n - 1) : Sibling(Ancestor(Leaf(block), j)) \in bits}}

\* Clears the block's bit and its ancestors', up to one that is clear already.
ClearBitmapBit(bits, block) ==
  bits \ {Ancestor(Leaf(block), k) :
            k \in {n \in 0..Levels :
                     \A j \in 0..n : Ancestor(Leaf(block), j) \in bits}}

CheckBitmapBit(bits, block) == Leaf(block) \in bits

\* Mutant: the search looks at the whole group.
CandidatesOfGroup(bits) ==
  {b \in GroupBlocks : \A k \in 0..Levels : Ancestor(Leaf(b), k) \notin bits}

\* The blocks tfsFindEmptyBlock may return: those its search can reach without
\* entering a full subtree or one past the end.  Coins flipped along the way, from a
\* seed that nobody initialises, decide which; both sides are tried, so it fails only
\* if there is none.
Candidates(bits) ==
  {b \in GroupBlocks : /\ b - 1 < (total_blocks - 1) % TFS_BLOCK_GROUP_SIZE
                       /\ \A k \in 0..Levels : Ancestor(Leaf(b), k) \notin bits}

-----------------------------------------------------------------------------
\* The block cache and the disk.

\* What read_fn reads.
View == IF cached THEN copy ELSE bitmap

\* What read_fn changes: the block is in the cache, of the disk's content if it was not.
Known == IF cached THEN last_write ELSE "done"

Load ==
  /\ cached' = TRUE
  /\ damaged' = (damaged \/ (~cached /\ last_write = "torn"))

ReadBitmap ==
  /\ Load
  /\ copy' = View
  /\ last_write' = Known
  /\ UNCHANGED bitmap

\* write_fn after read_fn: the disk and then the cache.
WriteBitmap(bits) ==
  /\ Load
  /\ bitmap' = bits
  /\ copy' = bits
  /\ last_write' = "done"

\* The disk when the first sectors of a write have reached it, and no others.
Torn(bits, sectors) ==
  {n \in bits : n \div SectorNodes < sectors} \cup
  {n \in bitmap : n \div SectorNodes >= sectors}

WritePart(bits, sectors) ==
  LET content == Torn(bits, sectors)
  IN /\ bitmap' = content
     /\ last_write' = CASE content = bitmap -> Known
                        [] content = bits -> "failed"
                        [] OTHER -> "torn"

\* Mutant: the cache is written first.
FailToWriteCacheFirst(bits) ==
  /\ Load
  /\ \E sectors \in 0..Cardinality(Sectors) : WritePart(bits, sectors)
  /\ copy' = bits

\* write_fn after read_fn, when the disk fails before a sector or after the last one:
\* the cache stays as it is.
FailToWrite(bits) ==
  /\ Load
  /\ \E sectors \in 0..Cardinality(Sectors) : WritePart(bits, sectors)
  /\ copy' = View

\* The machine stops in a write.
StopInWrite(bits) ==
  /\ \E sectors \in Sectors : WritePart(bits, sectors)
  /\ damaged' = (damaged \/ (~cached /\ last_write = "torn"))
  /\ copy' = {}
  /\ cached' = FALSE
  /\ call' = Idle

-----------------------------------------------------------------------------
\* A formatted volume: the bitmap and the root directory take the first two blocks.
Init ==
  /\ bitmap = SetBitmapBit(SetBitmapBit({}, BitmapBlock), RootDirectory)
  /\ cached = FALSE
  /\ copy = {}
  /\ last_write = "done"
  /\ damaged = FALSE
  /\ in_use = {RootDirectory}
  /\ call = Idle

\* Blocks callers ask for: tfsCreateFile asks for the first one after the bitmap and
\* tfsWriteFile for the one after the file's last, which may lie past the end.
Desirable == {RootDirectory} \cup {b + 1 : b \in in_use}

AllocateBlock ==
  /\ call = Idle
  /\ \E desired \in Desirable : call' = [at |-> "desired", block |-> desired]
  /\ UNCHANGED << disk, in_use >>

Goto(place) == call' = [call EXCEPT !.at = place]

\* Mutant: the block is taken as it is.
AttemptUnchecked(otherwise) ==
  /\ \/ WriteBitmap(SetBitmapBit(View, call.block)) /\ Goto("write")
     \/ FailToWrite(SetBitmapBit(View, call.block)) /\ Goto(otherwise)
  /\ UNCHANGED in_use

\* tfsAttemptToAllocateBlock of the block of the call, which goes on at the place
\* given if the block is taken or the disk fails.
Attempt(otherwise) ==
  /\ \/ /\ CheckBitmapBit(View, call.block)
        /\ ReadBitmap
        /\ Goto(otherwise)
     \/ /\ ~CheckBitmapBit(View, call.block)
        /\ WriteBitmap(SetBitmapBit(View, call.block))
        /\ Goto("write")
     \/ /\ ~CheckBitmapBit(View, call.block)
        /\ FailToWrite(SetBitmapBit(View, call.block))
        /\ Goto(otherwise)
     \/ /\ ~CheckBitmapBit(View, call.block)
        /\ StopInWrite(SetBitmapBit(View, call.block))
  /\ UNCHANGED in_use

\* The desired block, and the block that was found.
AttemptDesired == call.at = "desired" /\ Attempt("find")
AttemptFound == call.at = "claim" /\ Attempt("failed")

FindEmptyBlock ==
  /\ call.at = "find"
  /\ \/ \E b \in Candidates(View) : call' = [at |-> "claim", block |-> b]
     \/ /\ Candidates(View) = {}
        /\ call' = [at |-> "full", block |-> 0]
  /\ ReadBitmap
  /\ UNCHANGED in_use

\* The block's header is written and the block returned.
WriteBlockHeader ==
  /\ call.at = "write"
  /\ call.block < total_blocks
  /\ in_use' = in_use \cup {call.block}
  /\ call' = Idle
  /\ UNCHANGED disk

\* The disk fails to read the bitmap, which a cached one does not need, or to write the
\* block, as it must past its end.  An attempt to get the desired block then goes on to
\* the search; anything else ends the call.
IOError ==
  /\ \/ call.at = "desired" /\ ~cached /\ Goto("find")
     \/ call.at = "find" /\ ~cached /\ Goto("failed")
     \/ call.at = "write" /\ Goto("failed")
  /\ UNCHANGED << disk, in_use >>

\* The call returns 0.
ReturnZero ==
  /\ call.at \in {"full", "failed"}
  /\ call' = Idle
  /\ UNCHANGED << disk, in_use >>

\* A block is given back, whatever comes of it; the rest of a chain is up to the caller.
DeallocateBlocks ==
  /\ call = Idle
  /\ \E b \in in_use \ {RootDirectory} :
       /\ \/ WriteBitmap(ClearBitmapBit(View, b)) /\ UNCHANGED call
          \/ FailToWrite(ClearBitmapBit(View, b)) /\ UNCHANGED call
          \/ StopInWrite(ClearBitmapBit(View, b))
       /\ in_use' = in_use \ {b}

\* The machine stops and starts again: what is on the disk stays.
Crash ==
  /\ cached' = FALSE
  /\ copy' = {}
  /\ call' = Idle
  /\ UNCHANGED << bitmap, last_write, damaged, in_use >>

Next ==
  \/ AllocateBlock
  \/ AttemptDesired
  \/ FindEmptyBlock
  \/ AttemptFound
  \/ WriteBlockHeader
  \/ IOError
  \/ ReturnZero
  \/ DeallocateBlocks
  \/ Crash

Spec == Init /\ [][Next]_vars

-----------------------------------------------------------------------------
Summarised(bits) ==
  \A n \in InnerNodes : n \in bits <=> {2 * n, 2 * n + 1} \subseteq bits

\* Whatever is taken and freed, an inner node's bit is set exactly if those of both its
\* children are (the test's validate_block_bitmap); setting and clearing climb only as
\* far as they must.  A write that fails does not spoil what the kernel goes on with;
\* only the machine stopping then can.
TreeSummarises ==
  ~damaged => /\ cached => Summarised(copy)
              /\ last_write # "torn" => Summarised(bitmap)

\* tfsAllocateBlock never wipes a block somebody uses, and a block in use is marked in
\* the cache and on the disk, whatever errors, torn writes and restarts came before.
LiveBlocksKept ==
  /\ \A b \in in_use : CheckBitmapBit(bitmap, b) /\ CheckBitmapBit(View, b)
  /\ call.at = "write" => call.block \notin in_use

\* The search stays within the volume although the tree's leaves go on past its end, and
\* gives up only if every block is taken: what it skips as full is full.
SearchFindsFree ==
  /\ call.at = "claim" => call.block < total_blocks
  /\ call.at = "full" /\ ~damaged =>
       \A b \in 1..(total_blocks - 1) : CheckBitmapBit(View, b)

\* The cache has what the disk has, unless a write failed since; and then it has what
\* the callers think is there.
CacheCoherent == cached /\ last_write = "done" => copy = bitmap
=============================================================================
