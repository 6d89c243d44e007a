-------------------------------- MODULE MCTomFS --------------------------------
(****************************************************************************)
(* TomFS on a small volume, where the device fails once in a call, reported *)
(* or not, or from some access on.                                          *)
(****************************************************************************)
EXTENDS TomFS, TLC

CONSTANT MaxWrites   \* bound on the writes of a call that come before a failure

Accesses == 0..MaxWrites

MCFailures ==
  {NoFailures}
  \cup {[reported |-> {k}, ignored |-> {}] : k \in Accesses}
  \cup {[reported |-> {}, ignored |-> {k}] : k \in Accesses}
  \cup {[reported |-> k..MaxWrites, ignored |-> k..MaxWrites] : k \in Accesses}

\* Names of files, and what is written, are alike.
Alike == Permutations(FileNames) \cup Permutations(DataCells)
=============================================================================
