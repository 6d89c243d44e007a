------------------------------ MODULE MCStreams ------------------------------
(****************************************************************************)
(* Streams on a small ring.                                                 *)
(****************************************************************************)
EXTENDS Streams

CONSTANTS a, b

MCIds == {a, b}
\* Too short for a header, the legal lengths, and as long as the buffer.
MCLengths == (HeaderSize - 1)..BufferSize
=============================================================================
