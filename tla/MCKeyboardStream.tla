--------------------------- MODULE MCKeyboardStream ---------------------------
(****************************************************************************)
(* KeyboardStream on a small ring.                                          *)
(****************************************************************************)
EXTENDS KeyboardStream, TLC

MCIds == Messages

\* Nothing tells the two shift keys apart.
MCSymmetry == Permutations(ShiftKeys)
=============================================================================
