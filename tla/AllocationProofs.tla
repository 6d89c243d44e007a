--------------------------- MODULE AllocationProofs ---------------------------
(****************************************************************************)
(* The two allocators that keep their books in bitmaps: the kernel's heap,  *)
(* which hands out pages, and TomFS, which hands out blocks.                *)
(*                                                                          *)
(* Heap is proved for every number of segments and size of page groups,     *)
(* and every memory map whose usable entries lie apart.  HeapInv            *)
(* follows initHeap: the segments so far are made of the entries read, which*)
(* those to come are apart from, and the bitmaps placed so far come one     *)
(* after the other and are clear.  Then allocPage keeps bitmap, headers and *)
(* the pages handed out in agreement, because every page of a group has an  *)
(* address of its own.                                                      *)
(*                                                                          *)
(* TomFSBlocks is proved for volumes and sectors of any size: blocks in     *)
(* use stay marked, and the cache stays coherent, whatever fails, tears and *)
(* stops.  What a block's mark depends on is its own leaf: clearing another *)
(* block's bit touches that block's leaf and inner nodes, and a torn write  *)
(* is made of the old leaves and the new ones.                              *)
(****************************************************************************)
EXTENDS Heap, TomFSBlocks, CommonLemmas, FiniteSetTheorems, TLAPS

BitmapBits == {"empty", "some", "full"}

HeapType ==
  /\ memory_map \in MemoryMaps
  /\ next_entry \in Nat \ {0}
  /\ cur_segment \in Slots
  /\ placed \in Nat /\ placed <= cur_segment + 1
  /\ segments \in [Slots -> [base : Nat, length : Nat, bitmap_offset : Nat]]
  /\ memory_bitmap \in [DOMAIN memory_bitmap -> [GroupsInByte -> BitmapBits]]
  /\ group_header \in [Slots -> [GroupsInByte -> SUBSET PagesInGroup]]
  /\ heap_segment \in Slots
  /\ calls \in Nat

\* Bitmaps are placed when the map is read, and pages are handed out after that.
InOrder ==
  /\ placed > 0 => next_entry > Len(memory_map)
  /\ ~HeapUp => handed = {} /\ calls = 0

\* Usable memory of the entries read so far.
EntriesRead == {e \in DOMAIN memory_map : e < next_entry /\ IsUsable(memory_map[e])}
PagesRead == UNION {PagesOf(memory_map[k]) : k \in EntriesRead}

SegmentsOfPagesRead ==
  /\ \A i \in Slots : segments[i].base = 0 => segments[i].length = 0
  /\ \A i \in Slots : i > cur_segment => segments[i].base = 0
  /\ \A i \in Slots : PagesOf(segments[i]) \subseteq PagesRead
  /\ \A i, j \in Slots : i # j => PagesOf(segments[i]) \cap PagesOf(segments[j]) = {}

BitmapsInARow ==
  /\ \A i \in Slots : i < placed => BitmapOf(segments[i]) \subseteq DOMAIN memory_bitmap
  /\ \A i, j \in Slots :
       i < j /\ j < placed =>
         segments[i].bitmap_offset + BitmapBytes(segments[i]) <= segments[j].bitmap_offset
  /\ ~HeapUp => \A b \in DOMAIN memory_bitmap, g \in GroupsInByte : memory_bitmap[b][g] = "empty"

HeapInv ==
  /\ HeapType
  /\ InOrder
  /\ SegmentsOfPagesRead
  /\ BitmapsInARow
  /\ IsFiniteSet(handed)
  /\ PagesServedOnce
  /\ BitmapTruthful

-----------------------------------------------------------------------------
LEMMA HeapConstants ==
  /\ MAX_HEAP_MEMORY_SEGMENTS \in Nat \ {0}
  /\ GroupPages \in Nat \ {0}
  /\ FirstMegabyte \in Nat \ {0}
  /\ BytePages \in Nat \ {0}
  /\ BytePages = 4 * GroupPages + 4
  /\ 0 \in Slots /\ Slots \subseteq Nat
BY HeapAssumption DEF BytePages, Slots

\* Quotients.
LEMMA Quotients ==
  ASSUME NEW n \in Nat, NEW d \in Nat \ {0}
  PROVE  /\ n \div d \in Nat
         /\ n \div d > 0 => n >= d
         /\ 0 \div d = 0
<1>1. n = d * (n \div d) + (n % d) /\ n % d \in 0..(d - 1) /\ n \div d \in Int
  OBVIOUS
<1>2. n \div d \in Nat
  OBVIOUS
<1>3. n < d => n \div d = 0
  OBVIOUS
<1>4. 0 \div d = 0
  OBVIOUS
<1> QED BY <1>2, <1>3, <1>4

\* What BitmapBytes makes of a segment.
LEMMA BytesOfSegment ==
  ASSUME NEW s \in [base : Nat, length : Nat, bitmap_offset : Nat]
  PROVE  /\ BitmapBytes(s) \in Nat
         /\ BitmapBytes(s) > 0 => s.length >= BytePages
         /\ s.length = 0 => BitmapBytes(s) = 0
<1>1. s.length \in Nat
  OBVIOUS
<1> QED BY <1>1, Quotients, HeapConstants DEF BitmapBytes

-----------------------------------------------------------------------------
\* The pages of the groups of a segment, headers included (number -1), lie in it.
LEMMA PagesInSegment ==
  ASSUME HeapType, NEW i \in Slots, CanServe(i),
         NEW group \in GroupsInByte, NEW page \in -1..(GroupPages - 1)
  PROVE  PageAddress(i, group, page) \in PagesOf(segments[i])
<1>1. /\ segments[i] \in [base : Nat, length : Nat, bitmap_offset : Nat]
      /\ segments[i].length >= 4 * GroupPages + 4
  BY BytesOfSegment, HeapConstants DEF HeapType, CanServe
<1>2. GroupPages \in Nat
  BY HeapConstants
<1>3. group = 0 \/ group = 1 \/ group = 2 \/ group = 3
  BY DEF GroupsInByte
<1>4. PageAddress(i, group, page) - segments[i].base \in 0..(4 * GroupPages + 3)
  BY <1>1, <1>2, <1>3 DEF PageAddress
<1> QED BY <1>1, <1>2, <1>4 DEF PagesOf, PageAddress, GroupsInByte

\* No two of them are the same.
LEMMA PagesDiffer ==
  ASSUME HeapType, SegmentsOfPagesRead,
         NEW i \in Slots, CanServe(i), NEW j \in Slots, CanServe(j),
         NEW group \in GroupsInByte, NEW page \in -1..(GroupPages - 1),
         NEW other \in GroupsInByte, NEW number \in -1..(GroupPages - 1),
         PageAddress(i, group, page) = PageAddress(j, other, number)
  PROVE  i = j /\ group = other /\ page = number
<1>1. i = j
  BY PagesInSegment DEF SegmentsOfPagesRead
<1>2. segments[i].base \in Nat
  BY DEF HeapType
<1>3. group * (GroupPages + 1) + page = other * (GroupPages + 1) + number
  BY <1>1, <1>2, HeapConstants DEF PageAddress, GroupsInByte
<1>4. /\ group = 0 \/ group = 1 \/ group = 2 \/ group = 3
      /\ other = 0 \/ other = 1 \/ other = 2 \/ other = 3
  BY DEF GroupsInByte
<1>5. group = other
  BY <1>3, <1>4, HeapConstants
<1>6. page = number
  BY <1>3, <1>5, HeapConstants DEF GroupsInByte
<1> QED BY <1>1, <1>5, <1>6

\* Each segment that serves has a byte of the bitmap of its own.
LEMMA BytesDiffer ==
  ASSUME HeapType, SegmentsOfPagesRead, BitmapsInARow, HeapUp,
         NEW i \in Slots, CanServe(i)
  PROVE  /\ segments[i].bitmap_offset \in DOMAIN memory_bitmap
         /\ \A j \in Slots : CanServe(j) /\ j # i =>
              segments[j].bitmap_offset # segments[i].bitmap_offset
<1>1. ASSUME NEW k \in Slots, CanServe(k)
      PROVE  /\ k < placed
             /\ segments[k].bitmap_offset \in Nat
             /\ BitmapBytes(segments[k]) \in Nat \ {0}
  <2>1. k <= cur_segment
    BY <1>1, HeapConstants DEF SegmentsOfPagesRead, CanServe, HeapType
  <2>2. segments[k] \in [base : Nat, length : Nat, bitmap_offset : Nat]
    BY DEF HeapType
  <2> QED BY <1>1, <2>1, <2>2, BytesOfSegment, HeapConstants DEF HeapUp, HeapType, CanServe
<1>2. segments[i].bitmap_offset \in BitmapOf(segments[i])
  BY <1>1 DEF BitmapOf
<1>3. segments[i].bitmap_offset \in DOMAIN memory_bitmap
  BY <1>1, <1>2 DEF BitmapsInARow
<1>4. ASSUME NEW j \in Slots, CanServe(j), j # i
      PROVE  segments[j].bitmap_offset # segments[i].bitmap_offset
  <2>1. i \in Nat /\ j \in Nat
    BY HeapConstants
  <2>2. /\ i < j => segments[i].bitmap_offset + BitmapBytes(segments[i]) <= segments[j].bitmap_offset
        /\ j < i => segments[j].bitmap_offset + BitmapBytes(segments[j]) <= segments[i].bitmap_offset
    BY <1>1, <1>4 DEF BitmapsInARow
  <2> QED BY <1>1, <1>4, <2>1, <2>2
<1> QED BY <1>3, <1>4

-----------------------------------------------------------------------------
\* Where initHeap is.
LEMMA Counters ==
  ASSUME HeapType
  PROVE  /\ memory_map \in Seq(Entries) /\ Len(memory_map) \in Nat
         /\ next_entry \in Nat /\ next_entry > 0
         /\ cur_segment \in Slots /\ cur_segment \in Nat
         /\ placed \in Nat /\ placed <= cur_segment + 1
<1>1. memory_map \in Seq(Entries)
  BY HeapAssumption DEF HeapType
<1>2. cur_segment \in Slots /\ cur_segment \in Nat
  BY HeapConstants DEF HeapType
<1>3. next_entry \in Nat /\ next_entry > 0 /\ placed \in Nat /\ placed <= cur_segment + 1
  BY DEF HeapType
<1> QED BY <1>1, <1>2, <1>3

\* What is known of an entry of the map.
LEMMA EntryOfMap ==
  ASSUME HeapType, NEW k \in DOMAIN memory_map
  PROVE  /\ memory_map[k] \in Entries
         /\ k \in 1..Len(memory_map) /\ Len(memory_map) \in Nat
         /\ IsUsable(memory_map[k]) => memory_map[k].base > 0
         /\ \A j \in DOMAIN memory_map :
              j # k /\ IsUsable(memory_map[j]) /\ IsUsable(memory_map[k])
                => PagesOf(memory_map[j]) \cap PagesOf(memory_map[k]) = {}
<1>1. memory_map \in Seq(Entries)
  BY HeapAssumption DEF HeapType
<1>2. memory_map[k] \in Entries /\ k \in 1..Len(memory_map) /\ Len(memory_map) \in Nat
  BY <1>1
<1>3. IsUsable(memory_map[k]) => memory_map[k].base > 0
  BY <1>2, HeapConstants DEF IsUsable, Entries
<1>4. \A j \in DOMAIN memory_map :
        j # k /\ IsUsable(memory_map[j]) /\ IsUsable(memory_map[k])
          => PagesOf(memory_map[j]) \cap PagesOf(memory_map[k]) = {}
  BY HeapAssumption DEF HeapType
<1> QED BY <1>2, <1>3, <1>4

LEMMA HeapInitInvariant == HeapInit => HeapInv
<1> SUFFICES ASSUME HeapInit PROVE HeapInv
  OBVIOUS
<1> USE DEF HeapInit
<1>1. \A i \in Slots : segments[i] = NoSegment
  OBVIOUS
<1>2. DOMAIN memory_bitmap = {} /\ memory_bitmap = [b \in {} |-> 0]
  OBVIOUS
<1>3. memory_bitmap \in [DOMAIN memory_bitmap -> [GroupsInByte -> BitmapBits]]
  BY <1>2
<1>4. group_header \in [Slots -> [GroupsInByte -> SUBSET PagesInGroup]]
  OBVIOUS
<1>5. HeapType
  BY <1>3, <1>4, HeapConstants DEF HeapType, NoSegment
<1>6. ~HeapUp /\ InOrder
  BY DEF InOrder, HeapUp
<1>7. \A i \in Slots : PagesOf(segments[i]) = {}
  BY <1>1 DEF NoSegment, PagesOf
<1>8. SegmentsOfPagesRead
  BY <1>1, <1>7 DEF SegmentsOfPagesRead, NoSegment
<1>9. BitmapsInARow
  BY <1>2, <1>5, HeapConstants DEF BitmapsInARow, HeapType
<1>10. IsFiniteSet(handed) /\ PagesServedOnce
  BY FS_EmptySet DEF PagesServedOnce
<1>11. BitmapTruthful
  BY <1>6 DEF BitmapTruthful
<1> QED BY <1>5, <1>6, <1>8, <1>9, <1>10, <1>11 DEF HeapInv

\* While the map is read nothing is handed out, which leaves little to keep.
LEMMA ReadingKeeps ==
  ASSUME HeapInv, next_entry <= Len(memory_map),
         UNCHANGED << memory_map, placed, memory_bitmap, remaining_memory, alloc_vars >>,
         HeapType', SegmentsOfPagesRead'
  PROVE  HeapInv'
<1> USE DEF alloc_vars
<1>1. /\ placed \in Nat /\ cur_segment \in Nat /\ cur_segment' \in Nat
      /\ Len(memory_map) \in Nat /\ next_entry \in Nat
  <2>1. cur_segment' \in Slots
    BY DEF HeapType
  <2> QED BY <2>1, Counters, HeapConstants DEF HeapInv
<1>2. placed = 0 /\ placed' = 0
  BY <1>1 DEF HeapInv, InOrder
<1>3. ~HeapUp /\ ~HeapUp'
  BY <1>1, <1>2 DEF HeapUp
<1>4. InOrder'
  BY <1>2, <1>3 DEF InOrder, HeapInv
<1>5. BitmapsInARow'
  <2>1. \A i \in Slots : ~(i < placed')
    BY <1>2, HeapConstants
  <2>2. \A b \in DOMAIN memory_bitmap', g \in GroupsInByte : memory_bitmap'[b][g] = "empty"
    BY <1>3 DEF BitmapsInARow, HeapInv
  <2> QED BY <2>1, <2>2 DEF BitmapsInARow
<1>6. handed' = {} /\ calls' = 0
  BY <1>3 DEF InOrder, HeapInv
<1>7. IsFiniteSet(handed)' /\ PagesServedOnce'
  BY <1>6, FS_EmptySet DEF PagesServedOnce
<1>8. BitmapTruthful'
  BY <1>3 DEF BitmapTruthful
<1> QED BY <1>4, <1>5, <1>7, <1>8 DEF HeapInv

LEMMA ReadEntryKeeps ==
  ASSUME HeapInv, ReadEntry
  PROVE  HeapInv'
<1> DEFINE entry == memory_map[next_entry]
           cur == cur_segment
           Record == [base : Nat, length : Nat, bitmap_offset : Nat]
<1>1. /\ next_entry \in DOMAIN memory_map
      /\ memory_map \in Seq(Entries) /\ memory_map' = memory_map
      /\ next_entry \in Nat /\ next_entry <= Len(memory_map) /\ Len(memory_map) \in Nat
  BY Counters DEF HeapInv, ReadEntry
<1>2. entry \in Entries
  BY <1>1, EntryOfMap DEF HeapInv
<1>3. \A i \in Slots : segments[i] \in Record
  BY DEF HeapInv, HeapType
<1>4. cur \in Slots /\ cur \in Nat /\ placed = 0 /\ placed' = 0
  BY <1>1, Counters DEF HeapInv, InOrder, ReadEntry
<1>5. ASSUME NEW next \in Nat \ {0}, next > next_entry, Skip(next) PROVE HeapInv'
  <2>1. HeapType'
    BY <1>1, <1>4, <1>5 DEF HeapType, HeapInv, Skip, ReadEntry, alloc_vars
  <2>2. PagesRead \subseteq PagesRead'
    BY <1>1, <1>5 DEF PagesRead, EntriesRead, Skip
  <2>3. SegmentsOfPagesRead'
    BY <1>5, <2>2 DEF SegmentsOfPagesRead, Skip, HeapInv
  <2> QED BY <2>1, <2>3, ReadingKeeps DEF ReadEntry
<1>6. ASSUME IsUsable(entry), next_entry' = next_entry + 1
      PROVE  /\ PagesRead' = PagesRead \cup PagesOf(entry)
             /\ \A i \in Slots : PagesOf(segments[i]) \cap PagesOf(entry) = {}
             /\ entry.base > 0
  <2>1. EntriesRead' = EntriesRead \cup {next_entry}
    BY <1>1, <1>6 DEF EntriesRead
  <2>2. PagesRead' = PagesRead \cup PagesOf(entry)
    BY <1>1, <2>1 DEF PagesRead
  <2>3. \A k \in EntriesRead : PagesOf(memory_map[k]) \cap PagesOf(entry) = {}
    BY <1>1, <1>6, EntryOfMap DEF EntriesRead, HeapInv
  <2>4. PagesRead \cap PagesOf(entry) = {}
    BY <2>3 DEF PagesRead
  <2>5. entry.base > 0
    BY <1>1, <1>6, EntryOfMap DEF HeapInv
  <2> QED BY <2>2, <2>4, <2>5 DEF HeapInv, SegmentsOfPagesRead
<1>7. ASSUME NEW i \in Slots, i = cur \/ i = cur + 1, segments[i].length = 0,
             i = cur + 1 => segments[cur].base # 0,
             IsUsable(entry), Begin(i)
      PROVE  HeapInv'
  <2>1. segments' = [segments EXCEPT ![i] = [segments[i] EXCEPT !.base = entry.base,
                                                              !.length = entry.length]]
    BY <1>7, <1>3 DEF Begin, HeapType, HeapInv
  <2>2. /\ segments'[i] \in Record /\ segments'[i].base = entry.base
        /\ segments'[i].length = entry.length
        /\ \A j \in Slots : j # i => segments'[j] = segments[j]
        /\ segments' \in [Slots -> Record]
    BY <2>1, <1>2, <1>3 DEF Entries, HeapType, HeapInv
  <2>3. HeapType'
    <3>1. next_entry' \in Nat \ {0} /\ cur_segment' \in Slots /\ placed' <= cur_segment' + 1
      BY <1>1, <1>4, <1>7, HeapConstants DEF Begin
    <3> QED BY <1>4, <2>2, <3>1 DEF HeapType, HeapInv, ReadEntry, alloc_vars
  <2>4. PagesOf(segments'[i]) = PagesOf(entry)
    BY <2>2 DEF PagesOf
  <2>5. /\ PagesRead' = PagesRead \cup PagesOf(entry)
        /\ \A j \in Slots : PagesOf(segments[j]) \cap PagesOf(entry) = {}
        /\ entry.base > 0
    BY <1>6, <1>7 DEF Begin
  <2>6. \A j \in Slots : j > i => j > cur
    BY <1>4, <1>7, HeapConstants
  <2>7. cur_segment' = i
    BY <1>7 DEF Begin
  <2>8. SegmentsOfPagesRead
    BY DEF HeapInv
  <2>9. SegmentsOfPagesRead'
    <3>1. \A j \in Slots : segments'[j].base = 0 => segments'[j].length = 0
      BY <2>2, <2>5, <2>8, <1>2 DEF SegmentsOfPagesRead, Entries
    <3>2. \A j \in Slots : j > cur_segment' => segments'[j].base = 0
      BY <2>2, <2>6, <2>7, <2>8, HeapConstants DEF SegmentsOfPagesRead
    <3>3. \A j \in Slots : PagesOf(segments'[j]) \subseteq PagesRead'
      BY <2>2, <2>4, <2>5, <2>8 DEF SegmentsOfPagesRead
    <3>4. \A j, k \in Slots : j # k => PagesOf(segments'[j]) \cap PagesOf(segments'[k]) = {}
      BY <2>2, <2>4, <2>5, <2>8 DEF SegmentsOfPagesRead
    <3> QED BY <3>1, <3>2, <3>3, <3>4 DEF SegmentsOfPagesRead
  <2> QED BY <2>3, <2>9, ReadingKeeps DEF ReadEntry
<1>8. ASSUME IsUsable(entry), segments[cur].base # 0, Follows(entry), Lengthen
      PROVE  HeapInv'
  <2>1. segments' = [segments EXCEPT ![cur] = [segments[cur] EXCEPT
                                                 !.length = @ + entry.length]]
    BY <1>8, <1>3, <1>4 DEF Lengthen, HeapType, HeapInv
  <2>2. /\ segments'[cur] \in Record /\ segments'[cur].base = segments[cur].base
        /\ segments'[cur].length = segments[cur].length + entry.length
        /\ \A j \in Slots : j # cur => segments'[j] = segments[j]
        /\ segments' \in [Slots -> Record]
    BY <2>1, <1>2, <1>3, <1>4 DEF Entries, HeapType, HeapInv
  <2>3. HeapType'
    <3>1. next_entry' \in Nat \ {0} /\ cur_segment' \in Slots /\ placed' <= cur_segment' + 1
      BY <1>1, <1>4, <1>8, HeapConstants DEF Lengthen
    <3> QED BY <1>4, <2>2, <3>1 DEF HeapType, HeapInv, ReadEntry, alloc_vars
  <2>4. PagesOf(segments'[cur]) = PagesOf(segments[cur]) \cup PagesOf(entry)
    BY <1>2, <1>3, <1>4, <1>8, <2>2 DEF PagesOf, Follows, Entries
  <2>5. /\ PagesRead' = PagesRead \cup PagesOf(entry)
        /\ \A j \in Slots : PagesOf(segments[j]) \cap PagesOf(entry) = {}
    BY <1>6, <1>8 DEF Lengthen
  <2>6. SegmentsOfPagesRead
    BY DEF HeapInv
  <2>7. SegmentsOfPagesRead'
    <3>1. \A j \in Slots : segments'[j].base = 0 => segments'[j].length = 0
      BY <1>8, <2>2, <2>6 DEF SegmentsOfPagesRead
    <3>2. \A j \in Slots : j > cur_segment' => segments'[j].base = 0
      BY <1>4, <1>8, <2>2, <2>6, HeapConstants DEF SegmentsOfPagesRead, Lengthen
    <3>3. \A j \in Slots : PagesOf(segments'[j]) \subseteq PagesRead'
      BY <2>2, <2>4, <2>5, <2>6 DEF SegmentsOfPagesRead
    <3>4. \A j, k \in Slots : j # k => PagesOf(segments'[j]) \cap PagesOf(segments'[k]) = {}
      BY <1>4, <2>2, <2>4, <2>5, <2>6 DEF SegmentsOfPagesRead
    <3> QED BY <3>1, <3>2, <3>3, <3>4 DEF SegmentsOfPagesRead
  <2> QED BY <2>3, <2>7, ReadingKeeps DEF ReadEntry
<1>9. CASE ~IsUsable(entry) /\ Skip(next_entry + 1)
  BY <1>1, <1>5, <1>9
<1>10. CASE IsUsable(entry) /\ segments[cur].base = 0 /\ Begin(cur)
  BY <1>4, <1>7, <1>10 DEF HeapInv, SegmentsOfPagesRead
<1>11. CASE IsUsable(entry) /\ segments[cur].base # 0 /\ Follows(entry) /\ Lengthen
  BY <1>8, <1>11
<1>12. CASE /\ IsUsable(entry) /\ segments[cur].base # 0
            /\ cur + 1 \in Slots /\ Begin(cur + 1)
  <2>1. segments[cur + 1].length = 0
    BY <1>4, <1>12 DEF HeapInv, SegmentsOfPagesRead
  <2> QED BY <1>7, <1>12, <2>1
<1>13. CASE Skip(Len(memory_map) + 1)
  BY <1>1, <1>5, <1>13
<1> QED BY <1>9, <1>10, <1>11, <1>12, <1>13 DEF ReadEntry

LEMMA PlaceBitmapKeeps ==
  ASSUME HeapInv, PlaceBitmap
  PROVE  HeapInv'
<1> DEFINE p == placed
           Record == [base : Nat, length : Nat, bitmap_offset : Nat]
           segment == [segments[p] EXCEPT !.bitmap_offset = BitmapOffset(p)]
<1>1. /\ next_entry > Len(memory_map) /\ p \in Nat /\ p <= cur_segment
      /\ cur_segment \in Nat /\ cur_segment \in Slots /\ p \in Slots
  BY Counters, HeapConstants DEF HeapInv, PlaceBitmap, Slots
<1>2. \A i \in Slots : /\ segments[i] \in Record
                       /\ BitmapBytes(segments[i]) \in Nat
  BY BytesOfSegment DEF HeapInv, HeapType
<1>3. /\ p > 0 => p - 1 \in Slots
      /\ BitmapOffset(p) \in Nat
  <2>1. p > 0 => p - 1 \in Slots
    BY <1>1, HeapConstants DEF Slots
  <2> QED BY <1>1, <1>2, <2>1 DEF BitmapOffset
<1>4. segments' = [segments EXCEPT ![p] = segment]
  BY DEF PlaceBitmap
<1>5. /\ segments' \in [Slots -> Record]
      /\ \A i \in Slots : i # p => segments'[i] = segments[i]
      /\ segments'[p] = segment /\ segment \in Record
      /\ segments'[p].bitmap_offset = BitmapOffset(p)
      /\ \A i \in Slots : /\ segments'[i].base = segments[i].base
                          /\ segments'[i].length = segments[i].length
  <2>1. /\ segment \in Record /\ segment.bitmap_offset = BitmapOffset(p)
        /\ segment.base = segments[p].base /\ segment.length = segments[p].length
    BY <1>1, <1>2, <1>3
  <2> QED BY <1>1, <1>4, <2>1 DEF HeapInv, HeapType
<1>6. \A i \in Slots : /\ PagesOf(segments'[i]) = PagesOf(segments[i])
                       /\ BitmapBytes(segments'[i]) = BitmapBytes(segments[i])
  BY <1>5 DEF PagesOf, BitmapBytes
<1> HIDE DEF segment
<1>7. memory_bitmap' = [b \in DOMAIN memory_bitmap \cup BitmapOf(segment) |->
                          IF b \in BitmapOf(segment) THEN [g \in GroupsInByte |-> "empty"]
                          ELSE memory_bitmap[b]]
  BY DEF PlaceBitmap, segment
<1>8. /\ DOMAIN memory_bitmap' = DOMAIN memory_bitmap \cup BitmapOf(segment)
      /\ memory_bitmap' \in [DOMAIN memory_bitmap' -> [GroupsInByte -> BitmapBits]]
  BY <1>7 DEF HeapInv, HeapType, BitmapBits
<1>9. HeapType'
  <2>1. placed' \in Nat /\ placed' <= cur_segment' + 1
    BY <1>1 DEF PlaceBitmap
  <2> QED BY <1>5, <1>8, <2>1 DEF HeapInv, HeapType, PlaceBitmap, alloc_vars
<1>10. ~HeapUp /\ handed' = {} /\ calls' = 0
  BY <1>1 DEF HeapUp, HeapInv, InOrder, PlaceBitmap, alloc_vars
<1>11. InOrder'
  BY <1>1, <1>10 DEF InOrder, PlaceBitmap
<1>12. SegmentsOfPagesRead'
  <2>1. PagesRead' = PagesRead
    BY DEF PagesRead, EntriesRead, PlaceBitmap
  <2> QED BY <1>5, <1>6, <2>1 DEF SegmentsOfPagesRead, HeapInv, PlaceBitmap
<1>13. \A b \in DOMAIN memory_bitmap', g \in GroupsInByte : memory_bitmap'[b][g] = "empty"
  BY <1>7, <1>8, <1>10 DEF HeapInv, BitmapsInARow
<1>14. \A i \in Slots : i < placed' => BitmapOf(segments'[i]) \subseteq DOMAIN memory_bitmap'
  <2> SUFFICES ASSUME NEW i \in Slots, i < placed'
               PROVE  BitmapOf(segments'[i]) \subseteq DOMAIN memory_bitmap'
    OBVIOUS
  <2>1. i < p \/ i = p
    BY <1>1, HeapConstants DEF PlaceBitmap
  <2>2. CASE i = p
    BY <1>5, <1>8, <2>2
  <2>3. CASE i < p
    BY <1>1, <1>5, <1>8, <2>3 DEF HeapInv, BitmapsInARow
  <2> QED BY <2>1, <2>2, <2>3
<1>15. \A i, j \in Slots :
         i < j /\ j < placed' =>
           segments'[i].bitmap_offset + BitmapBytes(segments'[i]) <= segments'[j].bitmap_offset
  <2> SUFFICES ASSUME NEW i \in Slots, NEW j \in Slots, i < j, j < placed'
               PROVE  segments'[i].bitmap_offset + BitmapBytes(segments'[i])
                        <= segments'[j].bitmap_offset
    OBVIOUS
  <2>1. i \in Nat /\ j \in Nat /\ i < p /\ (j < p \/ j = p)
    BY <1>1, HeapConstants DEF PlaceBitmap
  <2>2. segments'[i] = segments[i] /\ segments[i].bitmap_offset \in Nat
    BY <1>2, <1>5, <2>1
  <2>3. \A k \in Slots : i < k /\ k < p =>
          segments[i].bitmap_offset + BitmapBytes(segments[i]) <= segments[k].bitmap_offset
    BY DEF HeapInv, BitmapsInARow
  <2>4. CASE j < p
    <3>1. segments'[j] = segments[j]
      BY <1>1, <1>5, <2>1, <2>4
    <3> QED BY <2>2, <2>3, <2>4, <3>1
  <2>5. CASE j = p
    <3>1. p # 0 /\ p - 1 \in Slots
      BY <1>1, <1>3, <2>1
    <3>2. segments'[j].bitmap_offset =
            segments[p - 1].bitmap_offset + BitmapBytes(segments[p - 1])
      BY <1>5, <2>5, <3>1 DEF BitmapOffset
    <3>3. /\ segments[p - 1].bitmap_offset \in Nat
          /\ BitmapBytes(segments[p - 1]) \in Nat /\ BitmapBytes(segments[i]) \in Nat
      BY <1>2, <3>1
    <3>4. CASE i = p - 1
      BY <2>2, <3>2, <3>3, <3>4
    <3>5. CASE i < p - 1
      <4>1. segments[i].bitmap_offset + BitmapBytes(segments[i]) <= segments[p - 1].bitmap_offset
        BY <1>1, <2>3, <3>1, <3>5
      <4> QED BY <2>2, <3>2, <3>3, <4>1
    <3> QED BY <1>1, <2>1, <3>4, <3>5
  <2> QED BY <2>1, <2>4, <2>5
<1>16. BitmapsInARow'
  BY <1>13, <1>14, <1>15 DEF BitmapsInARow
<1>17. IsFiniteSet(handed)' /\ PagesServedOnce'
  BY <1>10, FS_EmptySet DEF PagesServedOnce
<1>18. BitmapTruthful'
  <2> SUFFICES ASSUME NEW i \in Slots, NEW group \in GroupsInByte, HeapUp', CanServe(i)'
               PROVE  Bits(i, group)' = "empty"
    BY <1>10 DEF BitmapTruthful
  <2>1. i <= cur_segment
    <3>1. segments[i].base # 0 /\ i \in Nat
      BY <1>5, HeapConstants DEF CanServe
    <3>2. ~(i > cur_segment)
      BY <3>1 DEF HeapInv, SegmentsOfPagesRead
    <3> QED BY <1>1, <3>1, <3>2
  <2>2. i < placed'
    BY <1>1, <2>1, HeapConstants DEF HeapUp, PlaceBitmap
  <2>3. /\ segments'[i].bitmap_offset \in Nat
        /\ BitmapBytes(segments'[i]) \in Nat /\ BitmapBytes(segments'[i]) > 0
    BY <1>2, <1>5, <1>6 DEF CanServe
  <2>4. segments'[i].bitmap_offset \in BitmapOf(segments'[i])
    BY <2>3 DEF BitmapOf
  <2> QED BY <1>13, <1>14, <2>2, <2>4 DEF Bits
<1> QED BY <1>9, <1>11, <1>12, <1>16, <1>17, <1>18 DEF HeapInv

-----------------------------------------------------------------------------
\* Pages of a group that were handed out.
Used(i, group) == {page \in PagesInGroup : PageAddress(i, group, page) \in handed}

\* The bits of a group, and what they say.
LEMMA BitsOfGroup ==
  ASSUME HeapInv, HeapUp, NEW i \in Slots, CanServe(i), NEW group \in GroupsInByte
  PROVE  /\ Bits(i, group) \in BitmapBits
         /\ group_header[i][group] \subseteq PagesInGroup
         /\ PagesInGroup # {}
         /\ Bits(i, group) = "empty" => Used(i, group) = {}
         /\ Bits(i, group) = "some" => Used(i, group) = group_header[i][group]
         /\ Bits(i, group) = "full" => Used(i, group) = PagesInGroup
<1>1. segments[i].bitmap_offset \in DOMAIN memory_bitmap
  BY BytesDiffer DEF HeapInv
<1>2. Bits(i, group) \in BitmapBits
  BY <1>1 DEF HeapInv, HeapType, Bits
<1>3. group_header[i][group] \subseteq PagesInGroup
  BY DEF HeapInv, HeapType
<1>4. 0 \in PagesInGroup
  BY HeapConstants DEF PagesInGroup
<1>5. CASE Bits(i, group) = "empty"
  BY <1>2, <1>3, <1>4, <1>5 DEF HeapInv, BitmapTruthful, Used
<1>6. CASE Bits(i, group) = "some"
  BY <1>2, <1>3, <1>4, <1>6 DEF HeapInv, BitmapTruthful, Used
<1>7. CASE Bits(i, group) = "full"
  BY <1>2, <1>3, <1>4, <1>7 DEF HeapInv, BitmapTruthful, Used
<1> QED BY <1>2, <1>3, <1>4, <1>5, <1>6, <1>7 DEF BitmapBits

\* A group that has nothing to give is full.
LEMMA NothingAvailable ==
  ASSUME HeapInv, HeapUp, NEW i \in Slots, CanServe(i), NEW group \in GroupsInByte,
         Available(i, group) = {}
  PROVE  BitsAfter(i, group) = "full" /\ Used(i, group) = PagesInGroup
BY BitsOfGroup DEF Available, BitsAfter, BitmapBits, Used

\* What Mark changes.
LEMMA Marking ==
  ASSUME HeapInv, HeapUp, NEW i \in Slots, CanServe(i), NEW last \in GroupsInByte,
         memory_bitmap' = Mark(i, last), UNCHANGED segments
  PROVE  /\ DOMAIN memory_bitmap' = DOMAIN memory_bitmap
         /\ memory_bitmap' \in [DOMAIN memory_bitmap' -> [GroupsInByte -> BitmapBits]]
         /\ \A j \in Slots, g \in GroupsInByte :
              CanServe(j) => Bits(j, g)' = IF j = i /\ g <= last THEN BitsAfter(i, g)
                                          ELSE Bits(j, g)
<1> DEFINE byte == segments[i].bitmap_offset
           after == [g \in GroupsInByte |-> IF g <= last THEN BitsAfter(i, g)
                                            ELSE memory_bitmap[byte][g]]
<1>1. byte \in DOMAIN memory_bitmap
  BY BytesDiffer DEF HeapInv
<1>2. memory_bitmap' = [memory_bitmap EXCEPT ![byte] = after]
  BY DEF Mark
<1>3. memory_bitmap \in [DOMAIN memory_bitmap -> [GroupsInByte -> BitmapBits]]
  BY DEF HeapInv, HeapType
<1>4. \A g \in GroupsInByte : BitsAfter(i, g) \in BitmapBits
  BY DEF BitsAfter, BitmapBits
<1>5. after \in [GroupsInByte -> BitmapBits]
  BY <1>1, <1>3, <1>4
<1> HIDE DEF after
<1>6. /\ DOMAIN memory_bitmap' = DOMAIN memory_bitmap
      /\ memory_bitmap' \in [DOMAIN memory_bitmap' -> [GroupsInByte -> BitmapBits]]
      /\ memory_bitmap'[byte] = after
      /\ \A b \in DOMAIN memory_bitmap : b # byte => memory_bitmap'[b] = memory_bitmap[b]
  BY <1>1, <1>2, <1>3, <1>5
<1>7. ASSUME NEW j \in Slots, NEW g \in GroupsInByte, CanServe(j)
      PROVE  Bits(j, g)' = IF j = i /\ g <= last THEN BitsAfter(i, g) ELSE Bits(j, g)
  <2>1. CASE j = i
    BY <1>6, <2>1 DEF Bits, after
  <2>2. CASE j # i
    <3>1. /\ segments[j].bitmap_offset \in DOMAIN memory_bitmap
          /\ segments[j].bitmap_offset # byte
      BY <1>7, <2>2, BytesDiffer DEF HeapInv
    <3> QED BY <1>6, <2>2, <3>1 DEF Bits
  <2> QED BY <2>1, <2>2
<1> QED BY <1>6, <1>7

\* What a group has to give is what was not handed out of it.
LEMMA AvailableIsUnused ==
  ASSUME HeapInv, HeapUp, NEW i \in Slots, CanServe(i), NEW group \in GroupsInByte
  PROVE  /\ PagesInGroup \ Available(i, group) = Used(i, group)
         /\ Available(i, group) \subseteq PagesInGroup
BY BitsOfGroup DEF Available, BitmapBits, Used

\* What neither initHeap nor a search changes stays as it is while pages are handed out.
LEMMA ServingKeeps ==
  ASSUME HeapInv, HeapUp, UNCHANGED init_vars, DOMAIN memory_bitmap' = DOMAIN memory_bitmap
  PROVE  HeapUp' /\ InOrder' /\ SegmentsOfPagesRead' /\ BitmapsInARow'
<1> USE DEF init_vars
<1>1. HeapUp'
  BY DEF HeapUp
<1>2. InOrder'
  BY <1>1 DEF HeapInv, InOrder
<1>3. SegmentsOfPagesRead'
  BY DEF HeapInv, SegmentsOfPagesRead, PagesRead, EntriesRead
<1>4. BitmapsInARow'
  BY <1>1 DEF HeapInv, BitmapsInARow
<1> QED BY <1>1, <1>2, <1>3, <1>4

LEMMA AllocPageKeeps ==
  ASSUME HeapInv, AllocPage
  PROVE  HeapInv'
<1>1. /\ HeapUp /\ UNCHANGED init_vars /\ calls' = calls + 1
      /\ UNCHANGED << memory_map, next_entry, cur_segment, placed, heap_memory, segments >>
  BY DEF AllocPage, init_vars
<1>2. PICK i \in Slots, group \in GroupsInByte, page \in PagesInGroup :
        /\ Stops(i)
        /\ FirstAvailable(i, group, page)
        /\ group_header' = [group_header EXCEPT ![i][group] =
                              (PagesInGroup \ Available(i, group)) \cup {page}]
        /\ handed' = handed \cup {PageAddress(i, group, page)}
        /\ memory_bitmap' = Mark(i, group)
        /\ heap_segment' = i
  BY DEF AllocPage
<1> DEFINE a == PageAddress(i, group, page)
<1>3. CanServe(i)
  BY <1>2 DEF Stops
<1>4. /\ page \in Available(i, group) /\ page \notin Used(i, group)
      /\ \A g \in GroupsInByte : g < group => Available(i, g) = {}
  <2>1. page \in Available(i, group) /\ \A g \in 0..(group - 1) : Available(i, g) = {}
    BY <1>2 DEF FirstAvailable
  <2>2. \A g \in GroupsInByte : g < group => g \in 0..(group - 1)
    BY DEF GroupsInByte
  <2> QED BY <1>1, <1>3, <2>1, <2>2, AvailableIsUnused
<1>5. a \notin handed
  BY <1>4 DEF Used
<1>6. /\ group_header \in [Slots -> [GroupsInByte -> SUBSET PagesInGroup]]
      /\ Used(i, group) \cup {page} \subseteq PagesInGroup
      /\ group_header' = [group_header EXCEPT ![i][group] = Used(i, group) \cup {page}]
  BY <1>1, <1>2, <1>3, AvailableIsUnused DEF HeapInv, HeapType, Used
<1>7. /\ group_header' \in [Slots -> [GroupsInByte -> SUBSET PagesInGroup]]
      /\ group_header'[i][group] = Used(i, group) \cup {page}
      /\ \A j \in Slots, g \in GroupsInByte :
           j # i \/ g # group => group_header'[j][g] = group_header[j][g]
  BY <1>6
<1>8. /\ DOMAIN memory_bitmap' = DOMAIN memory_bitmap
      /\ memory_bitmap' \in [DOMAIN memory_bitmap' -> [GroupsInByte -> BitmapBits]]
      /\ \A j \in Slots, g \in GroupsInByte :
           CanServe(j) => Bits(j, g)' = IF j = i /\ g <= group THEN BitsAfter(i, g)
                                       ELSE Bits(j, g)
  BY <1>1, <1>2, <1>3, Marking
<1>9. HeapType'
  BY <1>1, <1>2, <1>7, <1>8 DEF HeapInv, HeapType
<1>10. HeapUp' /\ InOrder' /\ SegmentsOfPagesRead' /\ BitmapsInARow'
  BY <1>1, <1>8, ServingKeeps
<1>11. \A j \in Slots, g \in GroupsInByte, number \in -1..(GroupPages - 1) :
         /\ CanServe(j)' = CanServe(j)
         /\ PageAddress(j, g, number)' = PageAddress(j, g, number)
         /\ CanServe(j) /\ PageAddress(j, g, number) = a => j = i /\ g = group /\ number = page
  <2>1. page \in -1..(GroupPages - 1)
    BY HeapConstants DEF PagesInGroup
  <2>2. \A j \in Slots : CanServe(j)' = CanServe(j)
    BY <1>1 DEF CanServe
  <2>3. \A j \in Slots, g \in GroupsInByte, number \in -1..(GroupPages - 1) :
          PageAddress(j, g, number)' = PageAddress(j, g, number)
    BY <1>1 DEF PageAddress
  <2> QED BY <1>3, <2>1, <2>2, <2>3, PagesDiffer DEF HeapInv
<1>12. PagesInGroup \subseteq -1..(GroupPages - 1) /\ -1 \in -1..(GroupPages - 1)
       /\ -1 \notin PagesInGroup
  BY HeapConstants DEF PagesInGroup
<1>13. \A j \in Slots, g \in GroupsInByte :
         CanServe(j) => Used(j, g)' = IF j = i /\ g = group THEN Used(i, group) \cup {page}
                                     ELSE Used(j, g)
  <2> SUFFICES ASSUME NEW j \in Slots, NEW g \in GroupsInByte, CanServe(j)
               PROVE  Used(j, g)' = IF j = i /\ g = group THEN Used(i, group) \cup {page}
                                   ELSE Used(j, g)
    OBVIOUS
  <2>1. Used(j, g)' = {n \in PagesInGroup : PageAddress(j, g, n) \in handed \cup {a}}
    BY <1>2, <1>11, <1>12 DEF Used
  <2>2. CASE j = i /\ g = group
    BY <1>11, <1>12, <2>1, <2>2 DEF Used
  <2>3. CASE ~(j = i /\ g = group)
    BY <1>11, <1>12, <2>1, <2>3 DEF Used
  <2> QED BY <2>2, <2>3
<1>14. BitmapTruthful'
  <2> SUFFICES ASSUME NEW j \in Slots, NEW g \in GroupsInByte, CanServe(j)
               PROVE  /\ Bits(j, g)' = "empty" => Used(j, g)' = {}
                      /\ Bits(j, g)' = "some" => /\ Used(j, g)' = group_header'[j][g]
                                                /\ Used(j, g)' # {}
                      /\ Bits(j, g)' = "full" => Used(j, g)' = PagesInGroup
                      /\ Bits(j, g)' \in BitmapBits
    BY <1>11, <1>12 DEF BitmapTruthful, Used, BitmapBits
  <2>1. CASE j = i /\ g = group
    <3>1. Bits(j, g)' = "some"
      BY <1>4, <1>8, <2>1 DEF BitsAfter, GroupsInByte
    <3> QED BY <1>3, <1>7, <1>13, <2>1, <3>1 DEF BitmapBits
  <2>2. CASE j = i /\ g < group
    <3>1. g <= group /\ g # group
      BY <2>2 DEF GroupsInByte
    <3>2. BitsAfter(i, g) = "full" /\ Used(i, g) = PagesInGroup
      BY <1>1, <1>3, <1>4, <2>2, NothingAvailable
    <3> QED BY <1>3, <1>8, <1>13, <2>2, <3>1, <3>2 DEF BitmapBits
  <2>3. CASE j # i \/ g > group
    <3>1. ~(j = i /\ g <= group) /\ ~(j = i /\ g = group)
      BY <2>3 DEF GroupsInByte
    <3>2. /\ Bits(j, g)' = Bits(j, g) /\ Used(j, g)' = Used(j, g)
          /\ group_header'[j][g] = group_header[j][g]
      BY <1>7, <1>8, <1>13, <3>1
    <3>3. Bits(j, g) = "some" => Used(j, g) # {}
      BY <1>1 DEF HeapInv, BitmapTruthful, Used
    <3> QED BY <1>1, <3>2, <3>3, BitsOfGroup
  <2> QED BY <2>1, <2>2, <2>3 DEF GroupsInByte
<1>15. IsFiniteSet(handed)' /\ PagesServedOnce'
  <2>1. IsFiniteSet(handed') /\ Cardinality(handed') = calls'
    BY <1>1, <1>2, <1>5, FS_AddElement DEF HeapInv, PagesServedOnce
  <2>2. PagesRead \subseteq UsablePages /\ UsablePages' = UsablePages
    BY <1>1 DEF PagesRead, EntriesRead, UsablePages
  <2>3. a \in PagesOf(segments[i])
    BY <1>3, <1>12, PagesInSegment DEF HeapInv
  <2>4. handed' \subseteq UsablePages'
    BY <1>2, <2>2, <2>3 DEF HeapInv, PagesServedOnce, SegmentsOfPagesRead
  <2>5. \A j \in Slots, g \in GroupsInByte :
          CanServe(j)' => PageAddress(j, g, -1)' \notin handed'
    BY <1>2, <1>11, <1>12 DEF HeapInv, PagesServedOnce
  <2> QED BY <2>1, <2>4, <2>5 DEF PagesServedOnce
<1> QED BY <1>9, <1>10, <1>14, <1>15 DEF HeapInv

\* Nothing is handed out by a search that comes to loop; it may mark groups full.
LEMMA SpinKeeps ==
  ASSUME HeapInv, Spin
  PROVE  HeapInv'
<1>1. /\ HeapUp /\ UNCHANGED init_vars
      /\ UNCHANGED << memory_map, next_entry, cur_segment, placed, heap_memory, segments >>
      /\ UNCHANGED << group_header, handed, calls >>
  BY DEF Spin, init_vars
<1>2. \A j \in Slots, g \in GroupsInByte :
        /\ CanServe(j)' = CanServe(j)
        /\ Used(j, g)' = Used(j, g)
        /\ PageAddress(j, g, -1)' = PageAddress(j, g, -1)
  BY <1>1 DEF CanServe, Used, PageAddress
<1>3. IsFiniteSet(handed)' /\ PagesServedOnce'
  BY <1>1, <1>2 DEF HeapInv, PagesServedOnce, UsablePages
<1>4. ASSUME heap_segment' \in Slots, DOMAIN memory_bitmap' = DOMAIN memory_bitmap,
             memory_bitmap' \in [DOMAIN memory_bitmap' -> [GroupsInByte -> BitmapBits]],
             \A j \in Slots, g \in GroupsInByte :
               CanServe(j) => \/ Bits(j, g)' = Bits(j, g)
                              \/ Bits(j, g)' = "full" /\ Used(j, g) = PagesInGroup
      PROVE  HeapInv'
  <2>1. HeapType'
    BY <1>1, <1>4 DEF HeapInv, HeapType
  <2>2. HeapUp' /\ InOrder' /\ SegmentsOfPagesRead' /\ BitmapsInARow'
    BY <1>1, <1>4, ServingKeeps
  <2>3. BitmapTruthful'
    <3> SUFFICES ASSUME NEW j \in Slots, NEW g \in GroupsInByte, CanServe(j)
                 PROVE  /\ Bits(j, g)' = "empty" => Used(j, g) = {}
                        /\ Bits(j, g)' = "some" => /\ Used(j, g) = group_header[j][g]
                                                  /\ Used(j, g) # {}
                        /\ Bits(j, g)' = "full" => Used(j, g) = PagesInGroup
                        /\ Bits(j, g)' \in BitmapBits
      BY <1>1, <1>2 DEF BitmapTruthful, Used, BitmapBits
    <3>1. Bits(j, g) = "some" => Used(j, g) # {}
      BY <1>1 DEF HeapInv, BitmapTruthful, Used
    <3>2. CASE Bits(j, g)' = Bits(j, g)
      BY <1>1, <3>1, <3>2, BitsOfGroup
    <3>3. CASE Bits(j, g)' = "full" /\ Used(j, g) = PagesInGroup
      BY <3>3 DEF BitmapBits
    <3> QED BY <1>4, <3>2, <3>3
  <2> QED BY <1>3, <2>1, <2>2, <2>3 DEF HeapInv
<1>5. CASE \E i \in Slots :
             /\ Stops(i)
             /\ \A group \in GroupsInByte : Available(i, group) = {}
             /\ memory_bitmap' = Mark(i, 3)
             /\ heap_segment' = i
  <2>1. PICK i \in Slots :
          /\ Stops(i)
          /\ \A group \in GroupsInByte : Available(i, group) = {}
          /\ memory_bitmap' = Mark(i, 3)
          /\ heap_segment' = i
    BY <1>5
  <2>2. CanServe(i) /\ 3 \in GroupsInByte /\ \A g \in GroupsInByte : g <= 3
    BY <2>1 DEF Stops, GroupsInByte
  <2>3. /\ DOMAIN memory_bitmap' = DOMAIN memory_bitmap
        /\ memory_bitmap' \in [DOMAIN memory_bitmap' -> [GroupsInByte -> BitmapBits]]
        /\ \A j \in Slots, g \in GroupsInByte :
             CanServe(j) => Bits(j, g)' = IF j = i /\ g <= 3 THEN BitsAfter(i, g)
                                         ELSE Bits(j, g)
    BY <1>1, <2>1, <2>2, Marking
  <2>4. \A g \in GroupsInByte : BitsAfter(i, g) = "full" /\ Used(i, g) = PagesInGroup
    BY <1>1, <2>1, <2>2, NothingAvailable
  <2> QED BY <1>4, <2>1, <2>2, <2>3, <2>4
<1>6. CASE UNCHANGED << memory_bitmap, heap_segment >>
  <2>1. \A j \in Slots, g \in GroupsInByte : Bits(j, g)' = Bits(j, g)
    BY <1>1, <1>6 DEF Bits
  <2>2. heap_segment' \in Slots /\ memory_bitmap' \in [DOMAIN memory_bitmap' -> [GroupsInByte -> BitmapBits]]
    BY <1>6 DEF HeapInv, HeapType
  <2> QED BY <1>4, <1>6, <2>1, <2>2
<1> QED BY <1>5, <1>6 DEF Spin

LEMMA HeapNextKeepsInvariant ==
  ASSUME HeapInv, [HeapNext]_heapVars
  PROVE  HeapInv'
<1>1. CASE ReadEntry
  BY <1>1, ReadEntryKeeps
<1>2. CASE PlaceBitmap
  BY <1>2, PlaceBitmapKeeps
<1>3. CASE AllocPage
  BY <1>3, AllocPageKeeps
<1>4. CASE Spin
  BY <1>4, SpinKeeps
<1>5. CASE UNCHANGED heapVars
  <2> USE <1>5 DEF heapVars, init_vars, alloc_vars
  <2>1. HeapType' /\ InOrder' /\ IsFiniteSet(handed)'
    BY DEF HeapInv, HeapType, InOrder, HeapUp
  <2>2. SegmentsOfPagesRead'
    BY DEF HeapInv, SegmentsOfPagesRead, PagesRead, EntriesRead
  <2>3. BitmapsInARow'
    BY DEF HeapInv, BitmapsInARow, HeapUp
  <2>4. PagesServedOnce'
    BY DEF HeapInv, PagesServedOnce, UsablePages, CanServe, PageAddress
  <2>5. BitmapTruthful'
    BY DEF HeapInv, BitmapTruthful, HeapUp, CanServe, PageAddress, Bits
  <2> QED BY <2>1, <2>2, <2>3, <2>4, <2>5 DEF HeapInv
<1> QED BY <1>1, <1>2, <1>3, <1>4, <1>5 DEF HeapNext

-----------------------------------------------------------------------------
\* At every step of initHeap and allocPage the segments are made of the entries read so
\* far, their bitmaps come one after the other, and bitmap, headers and the pages
\* handed out agree.
THEOREM HeapInvariant == HeapSpec => []HeapInv
BY HeapInitInvariant, HeapNextKeepsInvariant, PTL DEF HeapSpec

\* Whatever memory map is read, and however many entries lengthen a segment, the
\* segments of initHeap share neither pages nor bytes of the bitmap.
THEOREM SegmentsStayApart == HeapSpec => []SegmentsApart
<1>1. ASSUME HeapInv, NEW i \in Slots, HeapUp
      PROVE  /\ i < placed \/ BitmapOf(segments[i]) = {}
             /\ i \in Nat /\ placed \in Nat
             /\ segments[i].bitmap_offset \in Nat
             /\ BitmapBytes(segments[i]) \in Nat
  <2>1. /\ segments[i] \in [base : Nat, length : Nat, bitmap_offset : Nat]
        /\ i \in Nat /\ placed \in Nat /\ cur_segment \in Nat /\ placed > cur_segment
    BY <1>1, Counters, HeapConstants DEF HeapInv, HeapType, HeapUp
  <2>2. BitmapBytes(segments[i]) \in Nat /\ segments[i].bitmap_offset \in Nat
    BY <2>1, BytesOfSegment
  <2>3. CASE i > cur_segment
    <3>1. BitmapBytes(segments[i]) = 0
      BY <1>1, <2>1, <2>3, BytesOfSegment DEF HeapInv, SegmentsOfPagesRead
    <3> QED BY <2>1, <2>2, <3>1 DEF BitmapOf
  <2> QED BY <2>1, <2>2, <2>3
<1>2. ASSUME HeapInv PROVE SegmentsApart
  <2>1. PagesRead \subseteq UsablePages
    BY DEF PagesRead, EntriesRead, UsablePages
  <2>2. ASSUME NEW i \in Slots
        PROVE  /\ PagesOf(segments[i]) \subseteq UsablePages
               /\ \A j \in Slots \ {i} : PagesOf(segments[i]) \cap PagesOf(segments[j]) = {}
    BY <1>2, <2>1 DEF HeapInv, SegmentsOfPagesRead
  <2>3. ASSUME NEW i \in Slots, HeapUp
        PROVE  BitmapOf(segments[i]) \subseteq DOMAIN memory_bitmap
    BY <1>1, <1>2, <2>3 DEF HeapInv, BitmapsInARow
  <2>4. ASSUME NEW i \in Slots, NEW j \in Slots, HeapUp, i < j
        PROVE  BitmapOf(segments[i]) \cap BitmapOf(segments[j]) = {}
    <3>1. CASE j < placed
      <4>1. segments[i].bitmap_offset + BitmapBytes(segments[i]) <= segments[j].bitmap_offset
        BY <1>2, <2>4, <3>1 DEF HeapInv, BitmapsInARow
      <4>2. /\ segments[i].bitmap_offset \in Nat /\ segments[j].bitmap_offset \in Nat
            /\ BitmapBytes(segments[i]) \in Nat /\ BitmapBytes(segments[j]) \in Nat
        BY <1>1, <1>2, <2>4
      <4> QED BY <4>1, <4>2 DEF BitmapOf
    <3>2. CASE ~(j < placed)
      BY <1>1, <1>2, <2>4, <3>2
    <3> QED BY <3>1, <3>2
  <2>5. \A i, j \in Slots : i # j => i < j \/ j < i
    BY HeapConstants
  <2> QED BY <2>2, <2>3, <2>4, <2>5 DEF SegmentsApart
<1> QED BY <1>2, HeapInvariant, PTL

\* allocPage returns no page twice, and no header of a group: for any number of
\* segments, size of groups and memory map, and whatever the headers held at first.
THEOREM PagesAlwaysServedOnce == HeapSpec => []PagesServedOnce
<1>1. HeapInv => PagesServedOnce
  BY DEF HeapInv
<1> QED BY <1>1, HeapInvariant, PTL

\* The bits of a group always say what its header says, and that says what was
\* handed out, so that a group counted as full has no page left.
THEOREM BitmapAlwaysTruthful == HeapSpec => []BitmapTruthful
<1>1. HeapInv => BitmapTruthful
  BY DEF HeapInv
<1> QED BY <1>1, HeapInvariant, PTL

-----------------------------------------------------------------------------
(****************************************************************************)
(* TomFSBlocks.                                                             *)
(****************************************************************************)

LeavesOf(blocks) == {Leaf(b) : b \in blocks}

\* Leaves that are set on the disk and in the cache.
Marked(leaves) == leaves \subseteq bitmap /\ (cached => leaves \subseteq copy)

CallTyped ==
  /\ call \in [at : Places, block : Nat]
  /\ call.at \in {"desired", "claim", "write"} => call.block \in GroupBlocks

\* A block that was just marked for the call in progress is nobody else's.
CallMarked ==
  call.at = "write" => Marked({Leaf(call.block)}) /\ call.block \notin in_use

IInv ==
  /\ in_use \subseteq 1..(total_blocks - 1)
  /\ CallTyped
  /\ Marked(LeavesOf(in_use))
  /\ CallMarked
  /\ CacheCoherent

-----------------------------------------------------------------------------
LEMMA Powers ==
  /\ \A k \in 0..Levels : 2^k \in Nat /\ 2^k >= 1
  /\ \A k \in 1..Levels : 2^k >= 2
<1> DEFINE holds == {k \in Nat : 2^k \in Nat /\ 2^k >= 1}
<1>1. 0 \in holds
  BY PowersOfTwo
<1>2. \A k \in 1..Levels : k - 1 \in holds => k \in holds
  BY PowersOfTwo
<1>3. 0..Levels \subseteq holds
  <2> HIDE DEF holds
  <2> QED BY <1>1, <1>2, UpTo, BlocksAssumption
<1>4. \A k \in 0..Levels : 2^k \in Nat /\ 2^k >= 1
  BY <1>3
<1>5. ASSUME NEW k \in 1..Levels PROVE 2^k >= 2
  <2>1. 2^(k - 1) \in Nat /\ 2^(k - 1) >= 1 /\ 2^k = 2 * 2^(k - 1)
    BY <1>4, PowersOfTwo
  <2> QED BY <2>1
<1> QED BY <1>4, <1>5

LEMMA GroupSize == TFS_BLOCK_GROUP_SIZE \in Nat /\ TFS_BLOCK_GROUP_SIZE >= 2
BY BlocksAssumption, Powers DEF TFS_BLOCK_GROUP_SIZE

LEMMA SectorsFinite == Cardinality(Sectors) \in Nat
BY GroupSize, BlocksAssumption, FS_Interval, FS_CardinalityType DEF Sectors

LEMMA LeafType ==
  ASSUME NEW b \in GroupBlocks
  PROVE  /\ Leaf(b) \in Nat
         /\ TFS_BLOCK_GROUP_SIZE <= Leaf(b) /\ Leaf(b) < 2 * TFS_BLOCK_GROUP_SIZE
BY GroupSize DEF Leaf, GroupBlocks

\* Different blocks have different leaves.
LEMMA LeavesApart ==
  ASSUME NEW b \in GroupBlocks, NEW c \in GroupBlocks, Leaf(b) = Leaf(c)
  PROVE  b = c
BY GroupSize DEF Leaf, GroupBlocks

\* Setting a block's bit clears nothing.
LEMMA SetMarks ==
  ASSUME NEW bits, NEW b \in GroupBlocks
  PROVE  bits \subseteq SetBitmapBit(bits, b) /\ Leaf(b) \in SetBitmapBit(bits, b)
<1> DEFINE climbed == {n \in 0..Levels :
                         \A j \in 0..(n - 1) : Sibling(Ancestor(Leaf(b), j)) \in bits}
<1>1. 0 \in climbed
  BY BlocksAssumption
<1>2. Ancestor(Leaf(b), 0) = Leaf(b)
  BY LeafType, PowersOfTwo DEF Ancestor
<1>3. Leaf(b) \in {Ancestor(Leaf(b), k) : k \in climbed}
  BY <1>1, <1>2
<1> QED BY <1>3 DEF SetBitmapBit

\* A proper ancestor of a leaf is not a leaf.
LEMMA HalfOrLess ==
  ASSUME NEW m \in Nat, NEW n \in Nat, NEW size \in Nat, m >= 2, n < 2 * size
  PROVE  n \div m < size
<1>1. n \div m \in Nat /\ m * (n \div m) <= n
  OBVIOUS
<1>2. 2 * (n \div m) <= m * (n \div m)
  BY <1>1
<1> QED BY <1>1, <1>2

\* Clearing a block's bit leaves those of other blocks alone.
LEMMA ClearKeepsOthers ==
  ASSUME NEW bits, NEW b \in GroupBlocks, NEW c \in GroupBlocks, b # c, Leaf(c) \in bits
  PROVE  Leaf(c) \in ClearBitmapBit(bits, b)
<1>1. ASSUME NEW k \in 0..Levels PROVE Ancestor(Leaf(b), k) # Leaf(c)
  <2>1. CASE k = 0
    <3>1. Ancestor(Leaf(b), 0) = Leaf(b)
      BY LeafType, PowersOfTwo DEF Ancestor
    <3> QED BY <3>1, <2>1, LeavesApart
  <2>2. CASE k # 0
    <3>1. 2^k \in Nat /\ 2^k >= 2
      BY <2>2, Powers, BlocksAssumption
    <3>2. Ancestor(Leaf(b), k) < TFS_BLOCK_GROUP_SIZE
      BY <3>1, LeafType, GroupSize, HalfOrLess DEF Ancestor
    <3> QED BY <3>2, LeafType, GroupSize DEF Ancestor
  <2> QED BY <2>1, <2>2
<1> QED BY <1>1 DEF ClearBitmapBit

-----------------------------------------------------------------------------
\* The tree.  Whether an inner node agrees with its children after a bit is set or
\* cleared depends on those three nodes alone, and only the ancestors of the block's leaf
\* change.

LEMMA QuotientUnique ==
  ASSUME NEW d \in Nat, NEW q \in Nat, NEW r \in Nat, r < d, NEW p \in Nat, NEW t \in Nat,
         t < d, d * q + r = d * p + t
  PROVE  q = p
<1>1. CASE q < p
  <2>1. d * (p - q) >= d
    BY <1>1
  <2>2. d * (p - q) = d * p - d * q
    OBVIOUS
  <2> QED BY <2>1, <2>2
<1>2. CASE p < q
  <2>1. d * (q - p) >= d
    BY <1>2
  <2>2. d * (q - p) = d * q - d * p
    OBVIOUS
  <2> QED BY <2>1, <2>2
<1> QED BY <1>1, <1>2

LEMMA Division ==
  ASSUME NEW n \in Nat, NEW d \in Nat, d >= 1
  PROVE  n \div d \in Nat /\ n % d \in Nat /\ n % d < d /\ n = d * (n \div d) + (n % d)
OBVIOUS

LEMMA DivideTwice ==
  ASSUME NEW n \in Nat, NEW d \in Nat, d >= 1
  PROVE  n \div (2 * d) = (n \div d) \div 2
<1> DEFINE q == n \div d
           r == n % d
           h == q \div 2
           s == q % 2
           e == 2 * d
<1>1. q \in Nat /\ r \in Nat /\ r < d /\ n = d * q + r
  OBVIOUS
<1>2. h \in Nat /\ s \in {0, 1} /\ q = 2 * h + s
  BY <1>1
<1>3. d * s + r \in Nat /\ d * s + r < e
  BY <1>1, <1>2
<1>4. n = e * h + (d * s + r)
  <2>1. d * q = d * (2 * h) + d * s
    BY <1>1, <1>2
  <2>2. d * (2 * h) = e * h
    BY <1>2
  <2> QED BY <1>1, <2>1, <2>2
<1>5. e \in Nat /\ e >= 1
  OBVIOUS
<1> HIDE DEF q, r, h, s, e
<1>6. n \div e = h
  <2> DEFINE p == n \div e
             u == n % e
             t == d * s + r
  <2>1. p \in Nat /\ u \in Nat /\ u < e /\ n = e * p + u
    BY <1>5, Division
  <2>2. t \in Nat /\ t < e /\ n = e * h + t
    BY <1>3, <1>4
  <2> HIDE DEF p, u, t
  <2>3. e * p + u = e * h + t
    BY <2>1, <2>2
  <2>4. p = h
    BY <1>2, <1>5, <2>1, <2>2, <2>3, QuotientUnique
  <2> QED BY <2>4 DEF p
<1> QED BY <1>6 DEF e, h, q

\* The ancestors of a leaf, from the leaf to the root: each is half of the one before.
LEMMA Ancestors ==
  ASSUME NEW leaf \in Leaves
  PROVE  /\ leaf \in Nat
         /\ Ancestor(leaf, 0) = leaf
         /\ Ancestor(leaf, Levels) = 1
         /\ \A k \in 0..Levels : Ancestor(leaf, k) \in Nat
         /\ \A k \in 1..Levels : Ancestor(leaf, k) = Ancestor(leaf, k - 1) \div 2
<1>1. leaf \in Nat /\ TFS_BLOCK_GROUP_SIZE <= leaf /\ leaf < 2 * TFS_BLOCK_GROUP_SIZE
  BY GroupSize DEF Leaves
<1>2. Ancestor(leaf, 0) = leaf
  BY <1>1, PowersOfTwo DEF Ancestor
<1>3. Ancestor(leaf, Levels) = 1
  <2> DEFINE size == TFS_BLOCK_GROUP_SIZE
  <2>1. size \in Nat /\ leaf - size \in Nat /\ leaf - size < size /\ size >= 1
    BY <1>1, GroupSize
  <2>2. leaf = size * 1 + (leaf - size)
    BY <2>1, <1>1
  <2>3. /\ leaf \div size \in Nat /\ leaf % size \in Nat /\ leaf % size < size
        /\ leaf = size * (leaf \div size) + (leaf % size)
    BY <2>1, <1>1, Division
  <2> HIDE DEF size
  <2>4. leaf \div size = 1
    BY <2>1, <2>2, <2>3, QuotientUnique
  <2> QED BY <2>4 DEF size, Ancestor, TFS_BLOCK_GROUP_SIZE
<1>4. \A k \in 0..Levels : Ancestor(leaf, k) \in Nat
  <2> SUFFICES ASSUME NEW k \in 0..Levels PROVE Ancestor(leaf, k) \in Nat
    OBVIOUS
  <2>1. 2^k \in Nat /\ 2^k >= 1
    BY Powers
  <2> QED BY <1>1, <2>1 DEF Ancestor
<1>5. ASSUME NEW k \in 1..Levels
      PROVE  Ancestor(leaf, k) = Ancestor(leaf, k - 1) \div 2
  <2>1. 2^(k - 1) \in Nat /\ 2^(k - 1) >= 1 /\ 2^k = 2 * 2^(k - 1)
    BY Powers, PowersOfTwo, BlocksAssumption
  <2> QED BY <1>1, <2>1, DivideTwice DEF Ancestor
<1> QED BY <1>1, <1>2, <1>3, <1>4, <1>5

\* They are at least 1, and each is at most half of any below it.
LEMMA AncestorsShrink ==
  ASSUME NEW leaf \in Leaves, NEW i \in 0..Levels, NEW k \in 0..Levels, i < k
  PROVE  Ancestor(leaf, k) >= 1 /\ 2 * Ancestor(leaf, k) <= Ancestor(leaf, i)
<1>1. Levels \in Nat
  BY BlocksAssumption
<1>2. \A k1 \in 1..Levels : /\ Ancestor(leaf, k1) \in Nat /\ Ancestor(leaf, k1 - 1) \in Nat
                            /\ 2 * Ancestor(leaf, k1) <= Ancestor(leaf, k1 - 1)
  <2> SUFFICES ASSUME NEW k1 \in 1..Levels
               PROVE  /\ Ancestor(leaf, k1) \in Nat /\ Ancestor(leaf, k1 - 1) \in Nat
                      /\ 2 * Ancestor(leaf, k1) <= Ancestor(leaf, k1 - 1)
    OBVIOUS
  <2>1. /\ Ancestor(leaf, k1) \in Nat /\ Ancestor(leaf, k1 - 1) \in Nat
        /\ Ancestor(leaf, k1) = Ancestor(leaf, k1 - 1) \div 2
    BY <1>1, Ancestors
  <2> QED BY <2>1
<1>3. \A i1 \in 0..Levels : \A k1 \in (i1 + 1)..Levels :
        2 * Ancestor(leaf, k1) <= Ancestor(leaf, i1)
  <2> SUFFICES ASSUME NEW i1 \in 0..Levels
               PROVE  \A k1 \in (i1 + 1)..Levels : 2 * Ancestor(leaf, k1) <= Ancestor(leaf, i1)
    OBVIOUS
  <2> DEFINE holds == {k1 \in Nat : i1 < k1 => 2 * Ancestor(leaf, k1) <= Ancestor(leaf, i1)}
  <2>1. 0 \in holds
    BY <1>1
  <2>2. ASSUME NEW k1 \in 1..Levels, k1 - 1 \in holds PROVE k1 \in holds
    <3>1. CASE i1 = k1 - 1
      BY <1>1, <1>2, <3>1
    <3>2. CASE i1 < k1 - 1
      <4>1. /\ 2 * Ancestor(leaf, k1 - 1) <= Ancestor(leaf, i1) /\ Ancestor(leaf, k1) \in Nat
            /\ Ancestor(leaf, k1 - 1) \in Nat /\ Ancestor(leaf, i1) \in Nat
            /\ 2 * Ancestor(leaf, k1) <= Ancestor(leaf, k1 - 1)
        BY <1>1, <1>2, <2>2, <3>2, Ancestors
      <4> QED BY <4>1
    <3> QED BY <1>1, <3>1, <3>2
  <2>3. 0..Levels \subseteq holds
    <3> HIDE DEF holds
    <3> QED BY <1>1, <2>1, <2>2, UpTo
  <2> QED BY <1>1, <2>3
<1>4. Ancestor(leaf, k) >= 1
  <2>1. CASE k = Levels
    BY <2>1, Ancestors
  <2>2. CASE k # Levels
    <3>1. 2 * Ancestor(leaf, Levels) <= Ancestor(leaf, k) /\ Ancestor(leaf, k) \in Nat
      BY <1>1, <1>3, <2>2, Ancestors
    <3> QED BY <3>1, Ancestors
  <2> QED BY <2>1, <2>2
<1> QED BY <1>1, <1>3, <1>4

\* The children of an ancestor are the ancestor below it and that one's sibling, which is
\* no ancestor.
LEMMA ChildrenOfAncestor ==
  ASSUME NEW leaf \in Leaves, NEW k \in 1..Levels
  PROVE  LET child == Ancestor(leaf, k - 1)
         IN  /\ {2 * Ancestor(leaf, k), 2 * Ancestor(leaf, k) + 1} = {child, Sibling(child)}
             /\ \A j \in 0..Levels : Ancestor(leaf, j) # Sibling(child)
             /\ \A j \in 0..Levels : Ancestor(leaf, j) = child => j = k - 1
<1> DEFINE child == Ancestor(leaf, k - 1)
           node == Ancestor(leaf, k)
<1>1. Levels \in Nat /\ k - 1 \in 0..Levels /\ k \in 0..Levels
  BY BlocksAssumption
<1>2. child \in Nat /\ node \in Nat /\ node = child \div 2 /\ node >= 1
  BY <1>1, Ancestors, AncestorsShrink
<1>3. {2 * node, 2 * node + 1} = {child, Sibling(child)}
  BY <1>2 DEF Sibling
<1>4. ASSUME NEW j \in 0..Levels
      PROVE  Ancestor(leaf, j) # Sibling(child) /\ (Ancestor(leaf, j) = child => j = k - 1)
  <2>1. Ancestor(leaf, j) \in Nat
    BY Ancestors
  <2>2. CASE j = k - 1
    BY <1>2, <2>2 DEF Sibling
  <2>3. CASE j = k
    BY <1>2, <2>3 DEF Sibling
  <2>4. CASE j < k - 1
    <3>1. 2 * child <= Ancestor(leaf, j)
      BY <1>1, <2>4, AncestorsShrink
    <3> QED BY <1>2, <2>1, <3>1 DEF Sibling
  <2>5. CASE j > k
    <3>1. 2 * Ancestor(leaf, j) <= node
      BY <1>1, <2>5, AncestorsShrink
    <3> QED BY <1>2, <2>1, <3>1 DEF Sibling
  <2> QED BY <1>1, <2>2, <2>3, <2>4, <2>5
<1> QED BY <1>3, <1>4

\* An inner node that is no ancestor has no ancestor for a child.
LEMMA ChildrenOfOthers ==
  ASSUME NEW leaf \in Leaves, NEW node \in InnerNodes,
         \A k \in 1..Levels : Ancestor(leaf, k) # node
  PROVE  \A j \in 0..Levels : Ancestor(leaf, j) \notin {node, 2 * node, 2 * node + 1}
<1>1. node \in Nat /\ node >= 1 /\ node \notin Leaves
  BY GroupSize DEF InnerNodes, Nodes
<1> SUFFICES ASSUME NEW j \in 0..Levels
             PROVE  Ancestor(leaf, j) \notin {node, 2 * node, 2 * node + 1}
  OBVIOUS
<1>2. Ancestor(leaf, j) \in Nat /\ Levels \in Nat
  BY Ancestors, BlocksAssumption
<1>3. Ancestor(leaf, j) # node
  <2>1. CASE j = 0
    BY <1>1, <2>1, Ancestors
  <2> QED BY <1>2, <2>1
<1>4. CASE j = Levels
  BY <1>1, <1>3, <1>4, Ancestors
<1>5. CASE j < Levels
  <2>1. j + 1 \in 1..Levels /\ Ancestor(leaf, j + 1) = Ancestor(leaf, j) \div 2
    BY <1>2, <1>5, Ancestors
  <2>2. Ancestor(leaf, j) \div 2 # node
    BY <2>1
  <2> QED BY <1>1, <1>2, <1>3, <2>2
<1> QED BY <1>2, <1>4, <1>5

LEMMA LeafIsLeaf ==
  ASSUME NEW b \in GroupBlocks
  PROVE  Leaf(b) \in Leaves
BY GroupSize, LeafType DEF Leaves

\* Setting a block's bit climbs exactly as far as nodes have become full.
LEMMA SetSummarises ==
  ASSUME NEW bits, Summarised(bits), NEW b \in GroupBlocks
  PROVE  Summarised(SetBitmapBit(bits, b))
<1> DEFINE leaf == Leaf(b)
           A(k) == Ancestor(leaf, k)
           after == SetBitmapBit(bits, b)
<1>1. leaf \in Leaves /\ Levels \in Nat
  BY LeafIsLeaf, BlocksAssumption
<1>2. after = bits \cup {A(k) : k \in {n \in 0..Levels : \A j \in 0..(n - 1) : Sibling(A(j)) \in bits}}
  BY DEF SetBitmapBit
<1> SUFFICES ASSUME NEW n \in InnerNodes
             PROVE  n \in after <=> {2 * n, 2 * n + 1} \subseteq after
  BY DEF Summarised
<1>3. n \in bits <=> {2 * n, 2 * n + 1} \subseteq bits
  BY DEF Summarised
<1> HIDE DEF leaf, after
<1>4. CASE \A k \in 1..Levels : A(k) # n
  <2>1. \A j \in 0..Levels : A(j) \notin {n, 2 * n, 2 * n + 1}
    BY <1>1, <1>4, ChildrenOfOthers
  <2> QED BY <1>2, <1>3, <2>1
<1>5. ASSUME NEW k \in 1..Levels, A(k) = n
      PROVE  n \in after <=> {2 * n, 2 * n + 1} \subseteq after
  <2> DEFINE child == A(k - 1)
             climbed(m) == \A j \in 0..(m - 1) : Sibling(A(j)) \in bits
  <2>1. /\ {2 * n, 2 * n + 1} = {child, Sibling(child)}
        /\ \A j \in 0..Levels : A(j) # Sibling(child)
        /\ \A j \in 0..Levels : A(j) = child => j = k - 1
    BY <1>1, <1>5, ChildrenOfAncestor
  <2>2. Sibling(child) \in after <=> Sibling(child) \in bits
    BY <1>2, <2>1
  <2>3. child \in after <=> child \in bits \/ climbed(k - 1)
    BY <1>1, <1>2, <2>1
  <2>4. n \in after <=> n \in bits \/ climbed(k)
    <3>1. \A j \in 0..Levels : A(j) = n => j = k
      <4> SUFFICES ASSUME NEW j \in 0..Levels, A(j) = n, j # k PROVE FALSE
        OBVIOUS
      <4>1. j < k => 2 * A(k) <= A(j)
        BY <1>1, AncestorsShrink
      <4>2. k < j => 2 * A(j) <= A(k)
        BY <1>1, AncestorsShrink
      <4>3. A(k) >= 1 /\ A(k) \in Nat
        BY <1>1, Ancestors, AncestorsShrink
      <4> QED BY <1>1, <1>5, <4>1, <4>2, <4>3
    <3> QED BY <1>1, <1>2, <1>5, <3>1
  <2>5. climbed(k) <=> climbed(k - 1) /\ Sibling(child) \in bits
    BY <1>1
  <2> HIDE DEF climbed, child
  <2> QED BY <1>3, <2>1, <2>2, <2>3, <2>4, <2>5
<1> QED BY <1>4, <1>5

\* Clearing it climbs exactly as far as nodes were full.
LEMMA ClearSummarises ==
  ASSUME NEW bits, Summarised(bits), NEW b \in GroupBlocks
  PROVE  Summarised(ClearBitmapBit(bits, b))
<1> DEFINE leaf == Leaf(b)
           A(k) == Ancestor(leaf, k)
           after == ClearBitmapBit(bits, b)
<1>1. leaf \in Leaves /\ Levels \in Nat
  BY LeafIsLeaf, BlocksAssumption
<1>2. after = bits \ {A(k) : k \in {n \in 0..Levels : \A j \in 0..n : A(j) \in bits}}
  BY DEF ClearBitmapBit
<1> SUFFICES ASSUME NEW n \in InnerNodes
             PROVE  n \in after <=> {2 * n, 2 * n + 1} \subseteq after
  BY DEF Summarised
<1>3. n \in bits <=> {2 * n, 2 * n + 1} \subseteq bits
  BY DEF Summarised
<1> HIDE DEF leaf, after
<1>4. CASE \A k \in 1..Levels : A(k) # n
  <2>1. \A j \in 0..Levels : A(j) \notin {n, 2 * n, 2 * n + 1}
    BY <1>1, <1>4, ChildrenOfOthers
  <2> QED BY <1>2, <1>3, <2>1
<1>5. ASSUME NEW k \in 1..Levels, A(k) = n
      PROVE  n \in after <=> {2 * n, 2 * n + 1} \subseteq after
  <2> DEFINE child == A(k - 1)
             climbed(m) == \A j \in 0..m : A(j) \in bits
  <2>1. /\ {2 * n, 2 * n + 1} = {child, Sibling(child)}
        /\ \A j \in 0..Levels : A(j) # Sibling(child)
        /\ \A j \in 0..Levels : A(j) = child => j = k - 1
    BY <1>1, <1>5, ChildrenOfAncestor
  <2>2. Sibling(child) \in after <=> Sibling(child) \in bits
    BY <1>2, <2>1
  <2>3. child \in after <=> child \in bits /\ ~climbed(k - 1)
    BY <1>1, <1>2, <2>1
  <2>4. n \in after <=> n \in bits /\ ~climbed(k)
    <3>1. \A j \in 0..Levels : A(j) = n => j = k
      <4> SUFFICES ASSUME NEW j \in 0..Levels, A(j) = n, j # k PROVE FALSE
        OBVIOUS
      <4>1. j < k => 2 * A(k) <= A(j)
        BY <1>1, AncestorsShrink
      <4>2. k < j => 2 * A(j) <= A(k)
        BY <1>1, AncestorsShrink
      <4>3. A(k) >= 1 /\ A(k) \in Nat
        BY <1>1, Ancestors, AncestorsShrink
      <4> QED BY <1>1, <1>5, <4>1, <4>2, <4>3
    <3> QED BY <1>1, <1>2, <1>5, <3>1
  <2>5. climbed(k) <=> climbed(k - 1) /\ n \in bits
    BY <1>1, <1>5
  <2> HIDE DEF climbed, child
  <2> QED BY <1>3, <2>1, <2>2, <2>3, <2>4, <2>5
<1> QED BY <1>4, <1>5

\* What is below a full node is full: a block that the search cannot reach is taken.
LEMMA FullBelow ==
  ASSUME NEW bits, Summarised(bits), NEW b \in GroupBlocks, NEW k \in 0..Levels,
         Ancestor(Leaf(b), k) \in bits
  PROVE  Leaf(b) \in bits
<1> DEFINE A(j) == Ancestor(Leaf(b), j)
           full == {j \in 0..Levels : A(j) \in bits}
<1>1. Leaf(b) \in Leaves /\ Levels \in Nat
  BY LeafIsLeaf, BlocksAssumption
<1>2. PICK j \in full : \A i \in full : j <= i
  <2>1. k \in full /\ full \in SUBSET Nat
    OBVIOUS
  <2> QED BY <2>1, LeastOfSet
<1>3. CASE j = 0
  BY <1>1, <1>2, <1>3, Ancestors
<1>4. CASE j # 0
  <2>1. j \in 1..Levels /\ j - 1 \in 0..Levels
    BY <1>1, <1>4
  <2>2. {2 * A(j), 2 * A(j) + 1} = {A(j - 1), Sibling(A(j - 1))}
    BY <1>1, <2>1, ChildrenOfAncestor
  <2>3. A(j) \in InnerNodes
    <3>1. A(j) \in Nat /\ A(j) >= 1 /\ 2 * A(j) <= Leaf(b)
      BY <1>1, <2>1, Ancestors, AncestorsShrink
    <3>2. Leaf(b) < 2 * TFS_BLOCK_GROUP_SIZE
      BY <1>1, GroupSize DEF Leaves
    <3> QED BY <1>1, <3>1, <3>2, GroupSize, LeafType DEF InnerNodes, Nodes, Leaves
  <2>4. A(j - 1) \in bits
    BY <1>2, <2>2, <2>3 DEF Summarised
  <2>5. j - 1 \in full
    BY <2>1, <2>4
  <2>6. j <= j - 1
    BY <1>2, <2>5
  <2> QED BY <1>1, <2>1, <2>6
<1> QED BY <1>3, <1>4

-----------------------------------------------------------------------------
\* Steps of the disk and the cache.

LEMMA TornKeeps ==
  ASSUME NEW bits, NEW sectors \in Nat, NEW leaves \in SUBSET Nat,
         leaves \subseteq bits, leaves \subseteq bitmap
  PROVE  leaves \subseteq Torn(bits, sectors)
BY BlocksAssumption DEF Torn

\* Leaves that are set and are written are set afterwards, however far the write gets.
LEMMA WritesKeep ==
  ASSUME NEW bits, NEW leaves \in SUBSET Nat, Marked(leaves), leaves \subseteq bits,
         CacheCoherent,
         \/ ReadBitmap \/ WriteBitmap(bits) \/ FailToWrite(bits) \/ StopInWrite(bits)
  PROVE  Marked(leaves)' /\ CacheCoherent'
<1>1. leaves \subseteq bitmap /\ leaves \subseteq View
  BY DEF Marked, View
<1>2. CASE ReadBitmap
  <2>1. Marked(leaves)'
    BY <1>1, <1>2 DEF Marked, ReadBitmap
  <2>2. CacheCoherent'
    BY <1>2 DEF CacheCoherent, ReadBitmap, Load, View, Known
  <2> QED BY <2>1, <2>2
<1>3. CASE WriteBitmap(bits)
  BY <1>3 DEF Marked, CacheCoherent, WriteBitmap
<1>4. ASSUME NEW sectors \in Nat, WritePart(bits, sectors)
      PROVE  /\ leaves \subseteq bitmap'
             /\ last_write' = "done" => bitmap' = bitmap /\ Known = "done"
  BY <1>1, <1>4, TornKeeps DEF WritePart
<1>5. CASE FailToWrite(bits)
  <2>1. Cardinality(Sectors) \in Nat
    BY SectorsFinite
  <2>2. PICK sectors \in Nat : WritePart(bits, sectors)
    BY <1>5, <2>1 DEF FailToWrite
  <2>3. copy' = View /\ leaves \subseteq bitmap'
    BY <1>4, <1>5, <2>2 DEF FailToWrite
  <2>4. last_write' = "done" => bitmap' = bitmap /\ Known = "done"
    BY <1>4, <2>2
  <2> QED BY <1>1, <2>3, <2>4 DEF Marked, CacheCoherent, View, Known
<1>6. CASE StopInWrite(bits)
  <2>1. PICK sectors \in Sectors : WritePart(bits, sectors)
    BY <1>6 DEF StopInWrite
  <2>2. sectors \in Nat
    BY DEF Sectors
  <2>3. leaves \subseteq bitmap'
    BY <1>4, <2>1, <2>2
  <2> QED BY <1>6, <2>3 DEF Marked, CacheCoherent, StopInWrite
<1> QED BY <1>2, <1>3, <1>5, <1>6

-----------------------------------------------------------------------------
LEMMA InUseLeaves ==
  ASSUME IInv
  PROVE  /\ in_use \subseteq GroupBlocks
         /\ LeavesOf(in_use) \in SUBSET Nat
         /\ LeavesOf(in_use) \subseteq View
<1>1. in_use \subseteq GroupBlocks
  BY GroupSize, BlocksAssumption DEF IInv, GroupBlocks, TFS_BLOCK_GROUP_SIZE
<1> QED BY <1>1, LeafType DEF IInv, LeavesOf, Marked, View

LEMMA InitInvariant == Init => IInv
<1> SUFFICES ASSUME Init PROVE IInv
  OBVIOUS
<1>1. RootDirectory \in 1..(total_blocks - 1) /\ RootDirectory \in GroupBlocks
  BY GroupSize, BlocksAssumption DEF RootDirectory, GroupBlocks, TFS_BLOCK_GROUP_SIZE
<1>2. Leaf(RootDirectory) \in bitmap
  BY <1>1, SetMarks DEF Init
<1> QED BY <1>1, <1>2
    DEF Init, IInv, CallTyped, Places, Idle, Marked, LeavesOf, CallMarked, CacheCoherent

\* What is left to show of a step that gives and takes no block: where the call goes on.
LEMMA StepKeepsInvariant ==
  ASSUME IInv, UNCHANGED in_use, Marked(LeavesOf(in_use))', CacheCoherent',
         CallTyped', call'.at # "write"
  PROVE  IInv'
BY DEF IInv, CallMarked

LEMMA GotoTyped ==
  ASSUME CallTyped, NEW place \in Places, Goto(place), call.at # "none", call.at # "full",
         place \in {"desired", "claim", "write"} => call.block \in GroupBlocks
  PROVE  CallTyped'
BY DEF CallTyped, Goto

LEMMA IdleTyped == ASSUME call' = Idle PROVE CallTyped' /\ call'.at = "none"
BY DEF CallTyped, Idle, Places

LEMMA AttemptKeepsInvariant ==
  ASSUME IInv, NEW otherwise \in {"find", "failed"}, call.at \in {"desired", "claim"},
         Attempt(otherwise)
  PROVE  IInv'
<1> DEFINE bits == SetBitmapBit(View, call.block)
<1>1. call.block \in GroupBlocks /\ CallTyped /\ UNCHANGED in_use
  BY DEF IInv, CallTyped, Attempt
<1>2. /\ LeavesOf(in_use) \in SUBSET Nat
      /\ Marked(LeavesOf(in_use)) /\ CacheCoherent
      /\ LeavesOf(in_use) \subseteq bits
      /\ Leaf(call.block) \in bits
  BY <1>1, InUseLeaves, SetMarks DEF IInv
<1>3. ASSUME ReadBitmap \/ WriteBitmap(bits) \/ FailToWrite(bits) \/ StopInWrite(bits)
      PROVE  Marked(LeavesOf(in_use))' /\ CacheCoherent'
  <2>1. LeavesOf(in_use)' = LeavesOf(in_use)
    BY <1>1 DEF LeavesOf
  <2> QED BY <1>1, <1>2, <1>3, <2>1, WritesKeep DEF Marked
<1>4. CASE ReadBitmap /\ Goto(otherwise)
  BY <1>1, <1>3, <1>4, StepKeepsInvariant, GotoTyped DEF Places, Goto
<1>5. CASE FailToWrite(bits) /\ Goto(otherwise)
  BY <1>1, <1>3, <1>5, StepKeepsInvariant, GotoTyped DEF Places, Goto
<1>6. CASE StopInWrite(bits)
  <2>1. call' = Idle
    BY <1>6 DEF StopInWrite
  <2> QED BY <2>1, <1>1, <1>3, <1>6, StepKeepsInvariant, IdleTyped
<1>7. CASE ~CheckBitmapBit(View, call.block) /\ WriteBitmap(bits) /\ Goto("write")
  <2>1. CallTyped' /\ call'.block = call.block /\ call'.at = "write"
    BY <1>1, <1>7, GotoTyped DEF Places, Goto, CallTyped
  <2>2. call.block \notin in_use
    BY <1>7, InUseLeaves DEF CheckBitmapBit, LeavesOf
  <2>3. Leaf(call'.block) \in bitmap' /\ Leaf(call'.block) \in copy'
    BY <2>1, <1>2, <1>7 DEF WriteBitmap, Leaf
  <2>4. CallMarked'
    BY <2>1, <2>2, <2>3, <1>1 DEF CallMarked, Marked
  <2> QED BY <2>1, <2>4, <1>1, <1>3, <1>7 DEF IInv
<1> QED BY <1>4, <1>5, <1>6, <1>7 DEF Attempt

\* Steps that leave the disk and the blocks in use alone.
LEMMA CallStepKeepsInvariant ==
  ASSUME IInv, UNCHANGED disk, UNCHANGED in_use, CallTyped', call'.at # "write"
  PROVE  IInv'
BY DEF IInv, CallMarked, CacheCoherent, Marked, LeavesOf, disk

LEMMA AllocateKeepsInvariant ==
  ASSUME IInv, AllocateBlock
  PROVE  IInv'
<1>1. PICK desired \in Desirable : call' = [at |-> "desired", block |-> desired]
  BY DEF AllocateBlock
<1>2. desired \in GroupBlocks
  BY GroupSize, BlocksAssumption
  DEF IInv, Desirable, GroupBlocks, RootDirectory, TFS_BLOCK_GROUP_SIZE
<1>3. CallTyped' /\ call'.at # "write"
  BY <1>1, <1>2, GroupSize DEF CallTyped, Places, GroupBlocks
<1> QED BY <1>3, CallStepKeepsInvariant DEF AllocateBlock

LEMMA FindKeepsInvariant ==
  ASSUME IInv, FindEmptyBlock
  PROVE  IInv'
<1>1. CallTyped' /\ call'.at # "write"
  <2>1. CASE \E b \in Candidates(View) : call' = [at |-> "claim", block |-> b]
    <3>1. PICK b \in GroupBlocks : call' = [at |-> "claim", block |-> b]
      BY <2>1 DEF Candidates
    <3> QED BY <3>1, GroupSize DEF CallTyped, Places, GroupBlocks
  <2>2. CASE call' = [at |-> "full", block |-> 0]
    BY <2>2 DEF CallTyped, Places
  <2> QED BY <2>1, <2>2 DEF FindEmptyBlock
<1>2. ReadBitmap /\ UNCHANGED in_use
  BY DEF FindEmptyBlock
<1>3. Marked(LeavesOf(in_use))' /\ CacheCoherent'
  <2>1. Marked(LeavesOf(in_use)) /\ CacheCoherent /\ LeavesOf(in_use) \in SUBSET Nat
    BY InUseLeaves DEF IInv
  <2>2. LeavesOf(in_use)' = LeavesOf(in_use)
    BY <1>2 DEF LeavesOf
  <2> QED BY <2>1, <2>2, <1>2, WritesKeep DEF Marked
<1> QED BY <1>1, <1>2, <1>3, StepKeepsInvariant

LEMMA HeaderKeepsInvariant ==
  ASSUME IInv, WriteBlockHeader
  PROVE  IInv'
<1>1. /\ call.at = "write" /\ call.block \in 1..(total_blocks - 1)
      /\ Marked({Leaf(call.block)}) /\ Marked(LeavesOf(in_use))
      /\ in_use' = in_use \cup {call.block} /\ call' = Idle /\ UNCHANGED disk
  BY GroupSize, BlocksAssumption DEF WriteBlockHeader, IInv, CallTyped, CallMarked, GroupBlocks
<1>2. Marked(LeavesOf(in_use))'
  BY <1>1 DEF Marked, LeavesOf, disk
<1>3. CallTyped' /\ CallMarked'
  BY <1>1, IdleTyped DEF CallMarked
<1>4. CacheCoherent'
  BY <1>1 DEF IInv, CacheCoherent, disk
<1>5. in_use' \subseteq 1..(total_blocks - 1)
  BY <1>1 DEF IInv
<1> QED BY <1>2, <1>3, <1>4, <1>5 DEF IInv

LEMMA ErrorKeepsInvariant ==
  ASSUME IInv, IOError \/ ReturnZero
  PROVE  IInv'
<1>1. CASE IOError
  <2>1. CallTyped' /\ call'.at # "write"
    BY <1>1 DEF IInv, CallTyped, IOError, Goto, Places
  <2> QED BY <2>1, <1>1, CallStepKeepsInvariant DEF IOError
<1>2. CASE ReturnZero
  BY <1>2, IdleTyped, CallStepKeepsInvariant DEF ReturnZero
<1> QED BY <1>1, <1>2

LEMMA DeallocateKeepsInvariant ==
  ASSUME IInv, DeallocateBlocks
  PROVE  IInv'
<1>1. PICK b \in in_use \ {RootDirectory} :
        /\ \/ WriteBitmap(ClearBitmapBit(View, b)) /\ UNCHANGED call
           \/ FailToWrite(ClearBitmapBit(View, b)) /\ UNCHANGED call
           \/ StopInWrite(ClearBitmapBit(View, b))
        /\ in_use' = in_use \ {b}
  BY DEF DeallocateBlocks
<1> DEFINE bits == ClearBitmapBit(View, b)
           leaves == LeavesOf(in_use \ {b})
<1>2. leaves \in SUBSET Nat /\ leaves \subseteq LeavesOf(in_use)
  BY InUseLeaves DEF LeavesOf
<1>3. leaves \subseteq bits
  <2> SUFFICES ASSUME NEW c \in in_use \ {b} PROVE Leaf(c) \in bits
    BY DEF LeavesOf
  <2>1. Leaf(c) \in View /\ b \in GroupBlocks /\ c \in GroupBlocks
    BY InUseLeaves DEF LeavesOf
  <2> QED BY <2>1, ClearKeepsOthers
<1>4. Marked(leaves) /\ CacheCoherent
  BY <1>2 DEF IInv, Marked
<1>5. WriteBitmap(bits) \/ FailToWrite(bits) \/ StopInWrite(bits)
  BY <1>1
<1>6. LeavesOf(in_use)' = leaves
  BY <1>1 DEF LeavesOf
<1>7. Marked(LeavesOf(in_use))' /\ CacheCoherent'
  <2> HIDE DEF bits, leaves
  <2> QED BY <1>2, <1>3, <1>4, <1>5, <1>6, WritesKeep DEF Marked
<1>8. call' = Idle
  BY <1>1 DEF DeallocateBlocks, StopInWrite
<1>9. in_use' \subseteq 1..(total_blocks - 1) /\ CallTyped' /\ CallMarked'
  BY <1>1, <1>8, IdleTyped DEF IInv, CallMarked
<1> QED BY <1>7, <1>9 DEF IInv

LEMMA CrashKeepsInvariant ==
  ASSUME IInv, Crash
  PROVE  IInv'
<1>1. CallTyped' /\ CallMarked'
  BY IdleTyped DEF Crash, CallMarked
<1>2. Marked(LeavesOf(in_use))' /\ CacheCoherent'
  BY DEF IInv, Crash, Marked, LeavesOf, CacheCoherent
<1> QED BY <1>1, <1>2 DEF IInv, Crash

-----------------------------------------------------------------------------
LEMMA NextKeepsInvariant == IInv /\ [Next]_vars => IInv'
<1> SUFFICES ASSUME IInv, [Next]_vars PROVE IInv'
  OBVIOUS
<1>1. CASE AttemptDesired \/ AttemptFound
  BY <1>1, AttemptKeepsInvariant DEF AttemptDesired, AttemptFound
<1>2. CASE AllocateBlock
  BY <1>2, AllocateKeepsInvariant
<1>3. CASE FindEmptyBlock
  BY <1>3, FindKeepsInvariant
<1>4. CASE WriteBlockHeader
  BY <1>4, HeaderKeepsInvariant
<1>5. CASE IOError \/ ReturnZero
  BY <1>5, ErrorKeepsInvariant
<1>6. CASE DeallocateBlocks
  BY <1>6, DeallocateKeepsInvariant
<1>7. CASE Crash
  BY <1>7, CrashKeepsInvariant
<1>8. CASE UNCHANGED vars
  BY <1>8 DEF vars, IInv, CallTyped, Marked, LeavesOf, CallMarked, CacheCoherent
<1> QED BY <1>1, <1>2, <1>3, <1>4, <1>5, <1>6, <1>7, <1>8 DEF Next

\* The inductive invariant holds whatever is allocated and freed, however the disk
\* fails, and whenever the machine stops.
THEOREM BlocksInvariant == Spec => []IInv
<1> QED BY InitInvariant, NextKeepsInvariant, PTL DEF Spec

\* No block in use is ever given out again, and each is marked on the disk and in the
\* cache.
THEOREM LiveBlocksAlwaysKept == Spec => []LiveBlocksKept
<1>1. IInv => LiveBlocksKept
  BY DEF IInv, LiveBlocksKept, Marked, LeavesOf, CallMarked, CheckBitmapBit, View
<1> QED BY <1>1, BlocksInvariant, PTL

\* The cache never differs from the disk unless a write failed.
THEOREM CacheStaysCoherent == Spec => []CacheCoherent
<1>1. IInv => CacheCoherent
  BY DEF IInv
<1> QED BY <1>1, BlocksInvariant, PTL

-----------------------------------------------------------------------------
\* The tree as the disk and the cache have it.  TreeSummarises is inductive: what is
\* written is computed from a tree that agrees, unless the disk has had a torn bitmap read.

LEMMA ViewSummarised ==
  ASSUME TreeSummarises, damaged' = (damaged \/ (~cached /\ last_write = "torn")), ~damaged'
  PROVE  /\ ~damaged /\ (~cached => last_write # "torn")
         /\ Summarised(View)
<1>1. ~damaged /\ (~cached => last_write # "torn")
  OBVIOUS
<1>2. (cached => Summarised(copy)) /\ (~cached => Summarised(bitmap))
  BY <1>1 DEF TreeSummarises
<1> QED BY <1>1, <1>2 DEF View

LEMMA ReadSummarises ==
  ASSUME TreeSummarises, ReadBitmap
  PROVE  TreeSummarises'
<1> SUFFICES ASSUME ~damaged'
             PROVE  Summarised(copy') /\ (last_write' # "torn" => Summarised(bitmap'))
  BY DEF TreeSummarises, Summarised
<1>1. damaged' = (damaged \/ (~cached /\ last_write = "torn"))
  BY DEF ReadBitmap, Load
<1>2. ~damaged /\ Summarised(View)
  BY <1>1, ViewSummarised
<1>3. copy' = View /\ bitmap' = bitmap /\ last_write' = Known
  BY DEF ReadBitmap
<1>4. Known # "torn" => Summarised(bitmap)
  BY <1>2 DEF Known, View, TreeSummarises
<1> QED BY <1>2, <1>3, <1>4

LEMMA WritesSummarise ==
  ASSUME TreeSummarises, NEW bits, ~damaged' => Summarised(bits),
         WriteBitmap(bits) \/ FailToWrite(bits) \/ StopInWrite(bits)
  PROVE  TreeSummarises'
<1> SUFFICES ASSUME ~damaged'
             PROVE  /\ cached' => Summarised(copy')
                    /\ last_write' # "torn" => Summarised(bitmap')
  BY DEF TreeSummarises, Summarised
<1>1. damaged' = (damaged \/ (~cached /\ last_write = "torn")) \/ WriteBitmap(bits)
  BY DEF FailToWrite, StopInWrite, Load
<1>2. CASE WriteBitmap(bits)
  BY <1>2 DEF WriteBitmap
<1>3. CASE damaged' = (damaged \/ (~cached /\ last_write = "torn")) /\ ~WriteBitmap(bits)
  <2>1. ~damaged /\ (~cached => last_write # "torn") /\ Summarised(View)
    BY <1>3, ViewSummarised
  <2>2. Known # "torn" => Summarised(bitmap)
    <3>1. last_write # "torn" => Summarised(bitmap)
      BY <2>1 DEF TreeSummarises
    <3> QED BY <2>1, <3>1 DEF Known
  <2>4. ASSUME NEW sectors, WritePart(bits, sectors)
        PROVE  last_write' # "torn" => Summarised(bitmap')
    <3>1. CASE bitmap' = bits
      BY <3>1
    <3>2. CASE bitmap' # bits /\ bitmap' = bitmap
      <4>1. last_write' = Known
        BY <2>4, <3>2 DEF WritePart
      <4> QED BY <2>2, <3>2, <4>1
    <3>3. CASE bitmap' # bitmap /\ bitmap' # bits
      BY <2>4, <3>3 DEF WritePart
    <3> QED BY <3>1, <3>2, <3>3
  <2>5. CASE FailToWrite(bits)
    BY <2>1, <2>4, <2>5 DEF FailToWrite
  <2>6. CASE StopInWrite(bits)
    BY <2>4, <2>6 DEF StopInWrite
  <2> QED BY <1>3, <2>5, <2>6
<1> QED BY <1>1, <1>2, <1>3

\* What the code writes is computed from the tree it reads, so it agrees if that does.
LEMMA WrittenSummarised ==
  ASSUME TreeSummarises, NEW b \in GroupBlocks, NEW bits, ~damaged',
         bits \in {SetBitmapBit(View, b), ClearBitmapBit(View, b)},
         WriteBitmap(bits) \/ FailToWrite(bits) \/ StopInWrite(bits)
  PROVE  Summarised(bits)
<1>1. damaged' = (damaged \/ (~cached /\ last_write = "torn"))
  BY DEF WriteBitmap, FailToWrite, StopInWrite, Load
<1>2. Summarised(View)
  BY <1>1, ViewSummarised
<1> QED BY <1>2, SetSummarises, ClearSummarises

LEMMA InitSummarises == Init => TreeSummarises /\ SearchFindsFree
<1> SUFFICES ASSUME Init PROVE TreeSummarises /\ SearchFindsFree
  OBVIOUS
<1>1. BitmapBlock \in GroupBlocks /\ RootDirectory \in GroupBlocks
  BY GroupSize DEF GroupBlocks, BitmapBlock, RootDirectory
<1>2. Summarised({})
  BY DEF Summarised
<1>3. Summarised(bitmap)
  BY <1>1, <1>2, SetSummarises DEF Init
<1> QED BY <1>3 DEF Init, TreeSummarises, SearchFindsFree, Idle

\* The search gives up only when every block is taken, as long as the tree agrees.
LEMMA NoCandidate ==
  ASSUME NEW bits, Summarised(bits), Candidates(bits) = {}, NEW b \in 1..(total_blocks - 1)
  PROVE  CheckBitmapBit(bits, b)
<1>1. b \in GroupBlocks /\ b - 1 < (total_blocks - 1) % TFS_BLOCK_GROUP_SIZE
  <2>1. /\ total_blocks \in Nat /\ total_blocks >= 3 /\ total_blocks <= TFS_BLOCK_GROUP_SIZE
        /\ TFS_BLOCK_GROUP_SIZE \in Nat /\ b \in Nat /\ b >= 1 /\ b <= total_blocks - 1
    BY GroupSize, BlocksAssumption
  <2>2. (total_blocks - 1) % TFS_BLOCK_GROUP_SIZE = total_blocks - 1
    BY <2>1
  <2> QED BY <2>1, <2>2 DEF GroupBlocks
<1>2. PICK k \in 0..Levels : Ancestor(Leaf(b), k) \in bits
  BY <1>1 DEF Candidates
<1> QED BY <1>1, <1>2, FullBelow DEF CheckBitmapBit

LEMMA CandidateInVolume ==
  ASSUME NEW bits, NEW b \in Candidates(bits)
  PROVE  b < total_blocks
<1>1. /\ total_blocks \in Nat /\ total_blocks >= 3 /\ total_blocks <= TFS_BLOCK_GROUP_SIZE
      /\ TFS_BLOCK_GROUP_SIZE \in Nat
  BY GroupSize, BlocksAssumption
<1>2. (total_blocks - 1) % TFS_BLOCK_GROUP_SIZE = total_blocks - 1
  BY <1>1
<1>3. b \in Nat /\ b - 1 < (total_blocks - 1) % TFS_BLOCK_GROUP_SIZE
  BY <1>1 DEF Candidates, GroupBlocks
<1> QED BY <1>1, <1>2, <1>3

LEMMA NextSummarises ==
  ASSUME IInv, TreeSummarises, SearchFindsFree, [Next]_vars
  PROVE  TreeSummarises' /\ SearchFindsFree'
<1> DEFINE Same == UNCHANGED << bitmap, cached, copy, last_write, damaged >>
           Elsewhere == call'.at \notin {"claim", "full"}
<1>1. ASSUME Same PROVE TreeSummarises'
  BY <1>1 DEF TreeSummarises, Summarised
<1>2. ASSUME Elsewhere PROVE SearchFindsFree'
  BY <1>2 DEF SearchFindsFree
<1>3. CASE AttemptDesired \/ AttemptFound
  <2>1. PICK otherwise \in {"find", "failed"} : Attempt(otherwise)
    BY <1>3 DEF AttemptDesired, AttemptFound
  <2>2. call.block \in GroupBlocks /\ call \in [at : Places, block : Nat]
    BY <1>3 DEF IInv, CallTyped, AttemptDesired, AttemptFound
  <2> DEFINE bits == SetBitmapBit(View, call.block)
  <2>3. ReadBitmap \/ WriteBitmap(bits) \/ FailToWrite(bits) \/ StopInWrite(bits)
    BY <2>1 DEF Attempt
  <2>4. TreeSummarises'
    <3>1. CASE ReadBitmap
      BY <3>1, ReadSummarises
    <3>2. CASE WriteBitmap(bits) \/ FailToWrite(bits) \/ StopInWrite(bits)
      <4>1. ~damaged' => Summarised(bits)
        BY <2>2, <3>2, WrittenSummarised
      <4> HIDE DEF bits
      <4> QED BY <3>2, <4>1, WritesSummarise
    <3> QED BY <2>3, <3>1, <3>2
  <2>5. Elsewhere
    BY <2>1, <2>2 DEF Attempt, Goto, StopInWrite, Idle
  <2> QED BY <1>2, <2>4, <2>5
<1>4. CASE AllocateBlock
  <2>1. Same /\ Elsewhere
    BY <1>4 DEF AllocateBlock, disk
  <2> QED BY <1>1, <1>2, <2>1
<1>5. CASE FindEmptyBlock
  <2>1. TreeSummarises'
    BY <1>5, ReadSummarises DEF FindEmptyBlock
  <2>2. View' = View
    BY <1>5 DEF FindEmptyBlock, ReadBitmap, Load, View
  <2>3. CASE \E b \in Candidates(View) : call' = [at |-> "claim", block |-> b]
    <3>1. PICK b \in Candidates(View) : call' = [at |-> "claim", block |-> b]
      BY <2>3
    <3>2. b < total_blocks
      BY CandidateInVolume
    <3>3. SearchFindsFree'
      BY <3>1, <3>2 DEF SearchFindsFree
    <3> QED BY <2>1, <3>3
  <2>4. CASE Candidates(View) = {} /\ call' = [at |-> "full", block |-> 0]
    <3>1. ASSUME ~damaged' PROVE \A b \in 1..(total_blocks - 1) : CheckBitmapBit(View, b)
      <4>1. Summarised(View)
        BY <1>5, <3>1, ViewSummarised DEF FindEmptyBlock, ReadBitmap, Load
      <4> QED BY <2>4, <4>1, NoCandidate
    <3>2. ASSUME ~damaged', NEW b \in 1..(total_blocks - 1)
          PROVE  CheckBitmapBit(View, b)'
      BY <2>2, <3>1, <3>2 DEF CheckBitmapBit, Leaf
    <3>3. SearchFindsFree'
      BY <2>4, <3>2 DEF SearchFindsFree
    <3> QED BY <2>1, <3>3
  <2> QED BY <1>5, <2>1, <2>3, <2>4 DEF FindEmptyBlock
<1>6. CASE WriteBlockHeader \/ IOError \/ ReturnZero
  <2>1. Same
    BY <1>6 DEF WriteBlockHeader, IOError, ReturnZero, disk
  <2>2. Elsewhere
    BY <1>6 DEF WriteBlockHeader, IOError, ReturnZero, Goto, Idle, IInv, CallTyped
  <2> QED BY <1>1, <1>2, <2>1, <2>2
<1>7. CASE DeallocateBlocks
  <2>1. PICK b \in in_use \ {RootDirectory} :
          \/ WriteBitmap(ClearBitmapBit(View, b)) /\ UNCHANGED call
          \/ FailToWrite(ClearBitmapBit(View, b)) /\ UNCHANGED call
          \/ StopInWrite(ClearBitmapBit(View, b))
    BY <1>7 DEF DeallocateBlocks
  <2> DEFINE bits == ClearBitmapBit(View, b)
  <2>2. b \in GroupBlocks
    BY InUseLeaves
  <2>3. ~damaged' => Summarised(bits)
    BY <2>1, <2>2, WrittenSummarised
  <2>4. WriteBitmap(bits) \/ FailToWrite(bits) \/ StopInWrite(bits)
    BY <2>1
  <2>5. TreeSummarises'
    <3> HIDE DEF bits
    <3> QED BY <2>3, <2>4, WritesSummarise
  <2>6. Elsewhere
    BY <1>7, <2>1 DEF DeallocateBlocks, StopInWrite, Idle
  <2> QED BY <1>2, <2>5, <2>6
<1>8. CASE Crash
  <2>1. TreeSummarises'
    BY <1>8 DEF Crash, TreeSummarises, Summarised
  <2>2. Elsewhere
    BY <1>8 DEF Crash, Idle
  <2> QED BY <1>2, <2>1, <2>2
<1>9. CASE UNCHANGED vars
  BY <1>9 DEF vars, TreeSummarises, Summarised, SearchFindsFree, View, CheckBitmapBit, Leaf
<1> QED BY <1>3, <1>4, <1>5, <1>6, <1>7, <1>8, <1>9 DEF Next

\* The bitmap is a tree whose inner nodes say exactly what is below them, on the disk
\* and in the cache, for every height of the tree, as long as no torn write was read.
THEOREM TreeAlwaysSummarises == Spec => []TreeSummarises
<1>1. Init => TreeSummarises /\ SearchFindsFree
  BY InitSummarises
<1>2. IInv /\ (TreeSummarises /\ SearchFindsFree) /\ [Next]_vars
        => (TreeSummarises /\ SearchFindsFree)'
  BY NextSummarises
<1> QED BY <1>1, <1>2, BlocksInvariant, PTL DEF Spec

\* The search never leaves the volume, and finds a block whenever there is one.
THEOREM SearchAlwaysFindsFree == Spec => []SearchFindsFree
<1>1. Init => TreeSummarises /\ SearchFindsFree
  BY InitSummarises
<1>2. IInv /\ (TreeSummarises /\ SearchFindsFree) /\ [Next]_vars
        => (TreeSummarises /\ SearchFindsFree)'
  BY NextSummarises
<1> QED BY <1>1, <1>2, BlocksInvariant, PTL DEF Spec
===============================================================================
