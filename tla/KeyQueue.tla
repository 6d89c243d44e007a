------------------------------- MODULE KeyQueue -------------------------------
(****************************************************************************)
(* What the keyboard promises the process that captured it: keys come out   *)
(* once each and in the order they went in.                                 *)
(****************************************************************************)
EXTENDS Sequences

CONSTANT Keys

VARIABLE queue      \* keys pressed and not read yet

Init == queue = << >>

Press(key) == queue' = Append(queue, key)

Take == queue # << >> /\ queue' = Tail(queue)

Next == (\E key \in Keys : Press(key)) \/ Take

Spec == Init /\ [][Next]_queue
=============================================================================
