---------------------------- MODULE StreamChannel ----------------------------
(****************************************************************************)
(* What a stream promises (the comment on TKStreamPointer, streams.h): a    *)
(* bounded first-in first-out channel whose two ends only see each other's  *)
(* progress when the kernel publishes it.                                   *)
(****************************************************************************)
EXTENDS Integers, Sequences

CONSTANTS Capacity, Smallest, Largest, Messages

VARIABLES
  pending,          \* written, not yet published to the reader
  ready,            \* published, not yet read
  held              \* read, space not yet given back to the writer

vars == << pending, ready, held >>

BytesIn(s) ==
  LET Sum[n \in 0..Len(s)] == IF n = 0 THEN 0 ELSE Sum[n - 1] + s[n].length
  IN  Sum[Len(s)]

Init == pending = << >> /\ ready = << >> /\ held = << >>

\* A message fits as long as a byte stays free.
Write(m) ==
  /\ m.length \in Smallest..Largest
  /\ BytesIn(held \o ready \o pending) + m.length < Capacity
  /\ pending' = Append(pending, m)
  /\ UNCHANGED << ready, held >>

Read ==
  /\ ready # << >>
  /\ held' = Append(held, Head(ready))
  /\ ready' = Tail(ready)
  /\ UNCHANGED pending

\* Both ends learn of each other's progress at once.
Publish ==
  /\ ready' = ready \o pending
  /\ pending' = << >>
  /\ held' = << >>

Next == (\E m \in Messages : Write(m)) \/ Read \/ Publish

Spec == Init /\ [][Next]_vars
=============================================================================
