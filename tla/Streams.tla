------------------------------- MODULE Streams -------------------------------
(****************************************************************************)
(* One stream of the kernel: a writing process, a reading process and the   *)
(* kernel that synchronises their endpoints whenever it likes.              *)
(*                                                                          *)
(* Each process touches only its own endpoint; it sees the other's head as  *)
(* of the last streamSyncStreams.  A call of streamCreateMsg leaves the body*)
(* for the caller to fill, and a sync (one made by the keyboard interrupt,  *)
(* say) may come in between.  The reader's call is a single step: this is   *)
(* the reader of stdout, which is the kernel with interrupts off.           *)
(* KeyboardStream models the interruptible one.                             *)
(****************************************************************************)
EXTENDS StreamState

CONSTANTS
  Lengths           \* lengths the writer asks for, legal or not

ASSUME LengthsAssumption == Lengths \subseteq Nat

VARIABLE
  filling           \* message returned by streamCreateMsg, body not written yet

vars == << memory, reader, writer, filling >>

NoMsg == [at |-> 0, id |-> EmptyId, length |-> 0]

Headers == [at : Offsets, id : Ids, length : Nat]

Init ==
  /\ memory = EmptyMemory
  /\ reader = NewEndpoint
  /\ writer = NewEndpoint
  /\ filling = NoMsg

\* streamCreateMsg that does not return NULL.
CreateMsg(id, length) ==
  /\ filling = NoMsg
  /\ CanCreate(writer, length)
  /\ memory' = Store(memory, writer.cur_offset, id, length, 0, HeaderSize)
  /\ writer' = AfterCreate(writer, length)
  /\ filling' = [at |-> writer.cur_offset, id |-> id, length |-> length]
  /\ UNCHANGED reader

\* The caller writes the body behind the header it was given.
FillBody ==
  /\ filling # NoMsg
  /\ memory' = Store(memory, filling.at, filling.id, filling.length,
                     HeaderSize, filling.length)
  /\ filling' = NoMsg
  /\ UNCHANGED << reader, writer >>

\* streamReadMsg that does not return NULL.
ReadMsg ==
  /\ CanRead(reader)
  /\ reader' = AfterRead(memory, reader)
  /\ UNCHANGED << memory, writer, filling >>

\* streamSyncStreams that does not return -1.
Sync ==
  /\ CanSync(reader, writer)
  /\ reader' = Publish(reader, reader, writer)
  /\ writer' = Publish(writer, reader, writer)
  /\ UNCHANGED << memory, filling >>

Next ==
  \/ \E id \in Ids, length \in Lengths : CreateMsg(id, length)
  \/ FillBody
  \/ ReadMsg
  \/ Sync

\* A flush syncs and then reads until nothing is left, and the writer fills the
\* body right after creating the message.
Fairness == WF_vars(FillBody) /\ WF_vars(ReadMsg) /\ WF_vars(Sync)

Spec == Init /\ [][Next]_vars /\ Fairness

-----------------------------------------------------------------------------
TypeOK ==
  /\ memory \in [Cells -> Bytes]
  /\ reader \in Endpoints
  /\ writer \in Endpoints
  /\ filling \in Headers \cup {NoMsg}

\* "Write pointer can never pass or even reach parity to the read pointer"
\* (streamCreateMsg): going round the ring from the public read head one meets
\* the reader's head, then the public write head, then the writer's head, and
\* all that in less than one turn, although no process sees all four of them.
\* And while a head has not left 0 none behind it has, so that the code's two
\* names of the first byte, 0 and BufferSize, are never compared.
HeadsOrdered ==
  /\ CanSync(reader, writer)
  /\ Ahead(reader.read_offset, reader.cur_offset)
     + Ahead(reader.cur_offset, reader.write_offset)
     + Ahead(reader.write_offset, writer.cur_offset) < BufferSize
  /\ writer.cur_offset = 0 => reader.write_offset = 0
  /\ reader.write_offset = 0 => reader.cur_offset = 0
  /\ reader.cur_offset = 0 => reader.read_offset = 0

\* streamReadMsg trusts the length it finds in the buffer: what it finds is the
\* header of a message, whole, that ends at or before the public write head, so
\* the head it advances never runs past what was published.
NextMessagePublished ==
  CanRead(reader) =>
    LET length == NextLength(memory, reader)
    IN  /\ length >= HeaderSize
        /\ length <= Ahead(reader.cur_offset, reader.write_offset)
        /\ \E id \in Ids :
             Stored(memory, reader.cur_offset, id, length, HeaderSize)

\* Where an offset lies in the live part of the ring, which begins at the public
\* read head and ends at the writer's head, and the header found there.
Position(at) == Ahead(reader.read_offset, at)

Id(at) == memory[Cell(at)].id

Length(at) == memory[Cell(at)].length

Intact(at) == Stored(memory, at, Id(at), Length(at), Length(at))

\* The live part of the ring is cut into messages at the offsets starts: each one
\* ends where the next begins, none overlaps another, all three other heads are
\* at a cut, and each message is whole, but for the body being filled.
CutAt(starts) ==
  /\ {reader.read_offset, reader.cur_offset, reader.write_offset}
       \subseteq starts \cup {writer.cur_offset}
  /\ \A at \in starts :
       /\ Id(at) \in Ids
       /\ Length(at) >= HeaderSize
       /\ Position(at) + Length(at) <= Position(writer.cur_offset)
       /\ Wrap(at + Length(at)) \in starts \cup {writer.cur_offset}
       /\ Stored(memory, at, Id(at), Length(at), HeaderSize)
       /\ (filling # NoMsg /\ filling.at = at) \/ Intact(at)
  /\ \A at, other \in starts :
       Position(at) < Position(other) => Position(at) + Length(at) <= Position(other)

\* Nothing the writer creates or fills lands on a message the reader has yet to
\* read, or has read and not given back: the ring between the public read head
\* and the writer's head is one chain of whole messages.
LiveMessagesIntact == \E starts \in SUBSET Offsets : CutAt(starts)

\* A message as the channel knows it: where it lies in the buffer is dropped.
Contents(from, to) ==
  LET found == MessagesBetween(memory, from, to)
  IN  [i \in DOMAIN found |-> [id |-> found[i].id, length |-> found[i].length]]

Channel == INSTANCE StreamChannel WITH
  Capacity <- BufferSize,
  Smallest <- HeaderSize,
  Largest  <- MaxMessageSize,
  Messages <- [id : Ids, length : Lengths],
  pending  <- Contents(reader.write_offset, writer.cur_offset),
  ready    <- Contents(reader.cur_offset, reader.write_offset),
  held     <- Contents(reader.read_offset, reader.cur_offset)

\* The stream is a bounded FIFO channel: what is written is read once, in order,
\* unchanged, after it was published, and a creation succeeds only while the
\* messages not given back leave more than its length free.
ImplementsChannel == Channel!Spec

\* A full stream does not stay full: as long as the kernel syncs and the reader
\* reads, there is room for one more header again and again.
RoomAgain == []<>CanCreate(writer, HeaderSize)
=============================================================================
