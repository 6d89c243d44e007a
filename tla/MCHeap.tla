-------------------------------- MODULE MCHeap --------------------------------
(****************************************************************************)
(* Heap with every memory map of three entries that lie next to each other  *)
(* or a page apart, usable or not, shorter than what a byte of the bitmap   *)
(* stands for, as long, or more than twice as long.                         *)
(****************************************************************************)
EXTENDS Heap, SequencesExt

\* Pages before an entry, its length and its type (2 is reserved memory).
MCPieces == [gap : {0, 1}, length : {5, 12, 26}, type : {1, 2, 3}]

\* The first entry is the memory below 1 MB.
MCLow == [base |-> 0, length |-> FirstMegabyte, type |-> 1]

MCPlace(entries, piece) ==
  LET before == entries[Len(entries)]
  IN  Append(entries, [base   |-> before.base + before.length + piece.gap,
                       length |-> piece.length,
                       type   |-> piece.type])

MCMemoryMaps ==
  {FoldLeft(MCPlace, << MCLow >>, pieces) : pieces \in [1..3 -> MCPieces]}
=============================================================================
