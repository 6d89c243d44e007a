--------------------------------- MODULE Heap ---------------------------------
(****************************************************************************)
(* The page allocator of the kernel (heap.c): initHeap, which makes segments*)
(* of the memory map, and allocPage, which hands out their pages.           *)
(*                                                                          *)
(* Memory is counted in pages: the RAM above 1 MB that a BIOS reports is    *)
(* aligned to pages, and initHeap's rounding leaves it as it is.  The two   *)
(* loops of initHeap take a step for each time round.  Calls of allocPage   *)
(* come one at a time, from the kernel with interrupts off or while booting.*)
(****************************************************************************)
EXTENDS Integers, FiniteSets, Sequences

CONSTANTS
  MAX_HEAP_MEMORY_SEGMENTS,
  GroupPages,       \* pages of a page group, after the one with its header (255)
  FirstMegabyte,    \* page number of address 0x100000
  MemoryMaps        \* the memory maps the boot loader may leave

Entries == [base : Nat, length : Nat, type : Nat]

\* Usable memory, above the first megabyte.
IsUsable(entry) == entry.type \in {1, 3} /\ entry.base >= FirstMegabyte

PagesOf(region) == region.base..(region.base + region.length - 1)

\* The BIOS reports no usable memory twice.
ASSUME HeapAssumption ==
  /\ MAX_HEAP_MEMORY_SEGMENTS \in Nat \ {0}
  /\ GroupPages \in Nat \ {0}
  /\ FirstMegabyte \in Nat \ {0}
  /\ MemoryMaps \subseteq Seq(Entries)
  /\ \A map \in MemoryMaps : \A j, k \in DOMAIN map :
       j # k /\ IsUsable(map[j]) /\ IsUsable(map[k])
         => PagesOf(map[j]) \cap PagesOf(map[k]) = {}

Slots == 0..(MAX_HEAP_MEMORY_SEGMENTS - 1)
PagesInGroup == 0..(GroupPages - 1)
GroupsInByte == 0..3
BytePages == 4 * (GroupPages + 1)     \* pages a byte of the bitmap stands for

VARIABLES
  memory_map,       \* at 0x88000
  next_entry,       \* the entry initHeap reads next
  cur_segment,      \* the segment it adds memory to
  placed,           \* segments that have their part of the bitmap
  heap_memory,      \* heap_header->heap_memory, in pages
  segments,         \* heap_header->segments
  memory_bitmap,    \* two bits for each page group, by byte and group in it
  group_header,     \* pages marked allocated in the header page of each group
  remaining_memory, \* heap_header->remaining_memory, in pages
  heap_segment,     \* where the search for a free page starts
  handed,           \* pages handed out
  calls,            \* calls of allocPage that returned
  spinning          \* allocPage has come to loop for ever

init_vars == << memory_map, next_entry, cur_segment, placed, heap_memory, segments >>
alloc_vars == << group_header, heap_segment, handed, calls, spinning >>
heapVars == << init_vars, memory_bitmap, remaining_memory, alloc_vars >>

-----------------------------------------------------------------------------
\* initHeap.

NoSegment == [base |-> 0, length |-> 0, bitmap_offset |-> 0]

HeapInit ==
  /\ memory_map \in MemoryMaps
  /\ next_entry = 1
  /\ cur_segment = 0
  /\ placed = 0
  /\ heap_memory = 0
  /\ segments = [i \in Slots |-> NoSegment]
  /\ memory_bitmap = << >>                      \* no byte of it is cleared yet
  \* Memory holds whatever it held when the machine was started.
  /\ \E garbage \in {{}, PagesInGroup} :
       group_header = [s \in Slots |-> [g \in GroupsInByte |-> garbage]]
  /\ remaining_memory = 0
  /\ heap_segment = 0
  /\ handed = {}
  /\ calls = 0
  /\ spinning = FALSE

\* The entry that is read begins segment i.
Begin(i) ==
  LET entry == memory_map[next_entry]
  IN  /\ segments' = [segments EXCEPT ![i].base = entry.base, ![i].length = entry.length]
      /\ cur_segment' = i
      /\ heap_memory' = heap_memory + entry.length
      /\ next_entry' = next_entry + 1

\* The entry lies where the current segment ends.
Follows(entry) ==
  segments[cur_segment].base + segments[cur_segment].length = entry.base

\* It makes the segment longer.
Lengthen ==
  LET entry == memory_map[next_entry]
  IN  /\ segments' = [segments EXCEPT ![cur_segment].length = @ + entry.length]
      /\ heap_memory' = heap_memory + entry.length
      /\ next_entry' = next_entry + 1
      /\ UNCHANGED cur_segment

\* It is not used, and then the one given is next.
Skip(next) ==
  /\ next_entry' = next
  /\ UNCHANGED << cur_segment, heap_memory, segments >>

\* One entry of the map is passed over, or begins the first segment, lengthens the
\* current one, begins another, or is one too many, and the rest is not read.
ReadEntry ==
  /\ next_entry <= Len(memory_map)
  /\ LET entry == memory_map[next_entry]
         begun == segments[cur_segment].base # 0
     IN  \/ ~IsUsable(entry) /\ Skip(next_entry + 1)
         \/ /\ IsUsable(entry)
            /\ \/ ~begun /\ Begin(cur_segment)
               \/ begun /\ Follows(entry) /\ Lengthen
               \/ /\ begun /\ ~Follows(entry)
                  /\ \/ cur_segment + 1 \in Slots /\ Begin(cur_segment + 1)
                     \/ cur_segment + 1 \notin Slots /\ Skip(Len(memory_map) + 1)
  /\ UNCHANGED << memory_map, placed, memory_bitmap, remaining_memory, alloc_vars >>

\* Bytes of bitmap: length >> 22.
BitmapBytes(segment) == segment.length \div BytePages

BitmapOf(segment) ==
  segment.bitmap_offset..(segment.bitmap_offset + BitmapBytes(segment) - 1)

\* Mutant: every segment's bitmap is at the start.
BitmapOffsetFlat(i) == 0

\* Where the bitmap of segment i goes: after that of the segment before.
BitmapOffset(i) ==
  IF i = 0 THEN 0 ELSE segments[i - 1].bitmap_offset + BitmapBytes(segments[i - 1])

\* A segment gets its part of the bitmap, and that is cleared.  The count of pages is
\* set after the last.
PlaceBitmap ==
  /\ next_entry > Len(memory_map)
  /\ placed <= cur_segment
  /\ LET segment == [segments[placed] EXCEPT !.bitmap_offset = BitmapOffset(placed)]
     IN  /\ segments' = [segments EXCEPT ![placed] = segment]
         /\ memory_bitmap' =
              [b \in DOMAIN memory_bitmap \cup BitmapOf(segment) |->
                 IF b \in BitmapOf(segment) THEN [g \in GroupsInByte |-> "empty"]
                 ELSE memory_bitmap[b]]
  /\ placed' = placed + 1
  /\ remaining_memory' = IF placed < cur_segment THEN remaining_memory
                         ELSE (heap_memory * GroupPages) \div (GroupPages + 1)
  /\ UNCHANGED << memory_map, next_entry, cur_segment, heap_memory, alloc_vars >>

\* initHeap has returned.
HeapUp == placed > cur_segment

-----------------------------------------------------------------------------
\* allocPage.  heap_byte is 0 and stays 0, so that each segment is served from the
\* groups of its first byte.

\* Segments are skipped that do not exist or have no byte of bitmap.
CanServe(i) == segments[i].base # 0 /\ BitmapBytes(segments[i]) > 0

\* The segment the loop stops at.
Stops(i) ==
  /\ CanServe(i)
  /\ LET steps(j) == (j - heap_segment) % MAX_HEAP_MEMORY_SEGMENTS
     IN  \A j \in Slots : CanServe(j) => steps(i) <= steps(j)

\* Address of a page, the group's header being the page before the first.
PageAddress(i, group, page) ==
  segments[i].base + group * (GroupPages + 1) + page + 1

\* The two bits of a group of segment i.
Bits(i, group) == memory_bitmap[segments[i].bitmap_offset][group]

\* Pages _allocPageFromGroup finds available: a fresh group is initialised first.
Available(i, group) ==
  CASE Bits(i, group) = "full"  -> {}
    [] Bits(i, group) = "empty" -> PagesInGroup
    [] OTHER                    -> PagesInGroup \ group_header[i][group]

\* Mutant: the group is full when its last page but one is handed out.
BitsAfterEarly(i, group) ==
  IF Cardinality(Available(i, group)) <= 2 THEN "full" ELSE "some"

\* The bits after _allocPageFromGroup looked for a page: full only when it found none.
BitsAfter(i, group) == IF Available(i, group) = {} THEN "full" ELSE "some"

\* The first page of the first of the four groups that has one to give.
FirstAvailable(i, group, page) ==
  /\ \A g \in 0..(group - 1) : Available(i, g) = {}
  /\ page \in Available(i, group)
  /\ \A p \in Available(i, group) : page <= p

\* Mutant: the bitmap is looked up at the segment's number.
MarkAtSegment(i, last) ==
  [memory_bitmap EXCEPT ![i] =
     [g \in GroupsInByte |-> IF g <= last THEN BitsAfter(i, g) ELSE @[g]]]

\* The byte after groups 0..last were looked into.
Mark(i, last) ==
  [memory_bitmap EXCEPT ![segments[i].bitmap_offset] =
     [g \in GroupsInByte |-> IF g <= last THEN BitsAfter(i, g) ELSE @[g]]]

AllocPage ==
  /\ HeapUp
  /\ ~spinning
  /\ \E i \in Slots, group \in GroupsInByte, page \in PagesInGroup :
       /\ Stops(i)
       /\ FirstAvailable(i, group, page)
       /\ group_header' = [group_header EXCEPT ![i][group] =
                             (PagesInGroup \ Available(i, group)) \cup {page}]
       /\ handed' = handed \cup {PageAddress(i, group, page)}
       /\ memory_bitmap' = Mark(i, group)
       /\ heap_segment' = i
  /\ remaining_memory' = remaining_memory - 1
  /\ calls' = calls + 1
  /\ UNCHANGED << init_vars, spinning >>

\* No page in the byte: bitmap_byte is incremented, not heap_byte, and the loop goes
\* round and round.  So it does when there is no segment to stop at.
Spin ==
  /\ HeapUp
  /\ ~spinning
  /\ spinning' = TRUE
  /\ \/ \E i \in Slots :
          /\ Stops(i)
          /\ \A group \in GroupsInByte : Available(i, group) = {}
          /\ memory_bitmap' = Mark(i, 3)
          /\ heap_segment' = i
     \/ /\ \A i \in Slots : ~CanServe(i)
        /\ UNCHANGED << memory_bitmap, heap_segment >>
  /\ UNCHANGED << init_vars, group_header, remaining_memory, handed, calls >>

HeapNext == ReadEntry \/ PlaceBitmap \/ AllocPage \/ Spin

HeapSpec == HeapInit /\ [][HeapNext]_heapVars

-----------------------------------------------------------------------------
UsablePages ==
  UNION {PagesOf(memory_map[k]) : k \in {e \in DOMAIN memory_map : IsUsable(memory_map[e])}}

\* Whatever memory map the BIOS reports, initHeap makes segments of usable memory
\* that share neither pages nor bytes of the bitmap, each with all of its bytes cleared.
SegmentsApart ==
  \A i \in Slots :
    /\ PagesOf(segments[i]) \subseteq UsablePages
    /\ HeapUp => BitmapOf(segments[i]) \subseteq DOMAIN memory_bitmap
    /\ \A j \in Slots \ {i} :
         /\ PagesOf(segments[i]) \cap PagesOf(segments[j]) = {}
         /\ HeapUp => BitmapOf(segments[i]) \cap BitmapOf(segments[j]) = {}

\* No two calls of allocPage return the same page, whatever the memory held before
\* the header of its group was initialised, and none returns a group's header.
PagesServedOnce ==
  /\ Cardinality(handed) = calls
  /\ handed \subseteq UsablePages
  /\ \A i \in Slots, group \in GroupsInByte :
       CanServe(i) => PageAddress(i, group, -1) \notin handed

\* The summary in the bitmap agrees with the headers of the groups and these with
\* the pages handed out: a group is full when all of its pages are in use.
BitmapTruthful ==
  \A i \in Slots, group \in GroupsInByte :
    HeapUp /\ CanServe(i) =>
      LET used == {page \in PagesInGroup : PageAddress(i, group, page) \in handed}
      IN  CASE Bits(i, group) = "empty" -> used = {}
            [] Bits(i, group) = "some"  -> used = group_header[i][group] /\ used # {}
            [] OTHER -> used = PagesInGroup

\* The search leaves no group with a page to give behind: "None found; move to next set
\* of page groups" (heap.c:212), and only when memory ran out does allocPage fail.
SearchGoesOn ==
  spinning => \A b \in DOMAIN memory_bitmap, group \in GroupsInByte :
                memory_bitmap[b][group] = "full"
=============================================================================
