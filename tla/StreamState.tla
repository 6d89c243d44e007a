----------------------------- MODULE StreamState -----------------------------
(****************************************************************************)
(* What one stream keeps: the ring buffer both of its ends share and the    *)
(* TKStreamPointer of each end.  Streams and KeyboardStream say who moves   *)
(* the two ends, and when.                                                  *)
(****************************************************************************)
EXTENDS StreamOps

VARIABLES
  memory,           \* the shared ring buffer
  reader,           \* TKStreamPointer of the reading process
  writer            \* TKStreamPointer of the writing process, or of the kernel
=============================================================================
