------------------------------ MODULE StreamOps ------------------------------
(****************************************************************************)
(* The stream library, streamlib/streams.c, as operators on its data: the   *)
(* two TKStreamPointer endpoints of a stream and the ring buffer they share.*)
(*                                                                          *)
(* Offsets run over 0..BufferSize and not 0..BufferSize-1: the code wraps a *)
(* head only when it is PAST the buffer's end, so BufferSize and 0 are two  *)
(* names of the buffer's first byte, and 0 is only ever the offset of a     *)
(* head that has not moved yet.                                             *)
(****************************************************************************)
EXTENDS Integers, Sequences

CONSTANTS
  BufferSize,       \* buffer_size of both endpoints, in bytes
  HeaderSize,       \* sizeof(TKMsgHeader)
  MaxMessageSize,   \* TKS_MAX_MESSAGE_SIZE
  Ids,              \* message identifiers, which also stand for the payloads
  EmptyId           \* TKS_ID_EMPTY, what streamCreate fills a fresh buffer with

ASSUME StreamConstants ==
  /\ BufferSize \in Nat
  /\ HeaderSize \in Nat \ {0}
  /\ HeaderSize < BufferSize
  /\ MaxMessageSize \in Nat
  /\ EmptyId \notin Ids

Offsets == 0..BufferSize

\* Real bytes of the buffer.  Byte BufferSize + c is mapped to byte c again.
Cells == 0..(BufferSize - 1)

\* What a byte holds: the index-th byte of a message with this header.
Bytes == [id : Ids \cup {EmptyId}, length : Nat, index : Nat]

Cell(offset) == IF offset >= BufferSize THEN offset - BufferSize ELSE offset

\* How far offset b lies ahead of offset a, going round the ring.
Ahead(a, b) == IF b >= a THEN b - a ELSE b - a + BufferSize

-----------------------------------------------------------------------------
\* Endpoints.  flags and buffer_ptr are left to the operator an endpoint is
\* handed to, and buffer_size is BufferSize.

Endpoints == [write_offset : Offsets, read_offset : Offsets, cur_offset : Offsets]

NewEndpoint == [write_offset |-> 0, read_offset |-> 0, cur_offset |-> 0]

\* Mutant: heads are never brought back to the buffer's start.
WrapNever(offset) == offset

\* "Wrap cur_ptr around if we're past the first buffer_size bytes."
Wrap(offset) == IF offset > BufferSize THEN offset - BufferSize ELSE offset

\* Mutants: a length shorter than a header is served; a writer behind the read head
\* may pass it; the buffer may be filled to the last byte.
CanCreateAnyLength(writer, length) ==
  /\ length > 0
  /\ length <= MaxMessageSize
  /\ length < BufferSize
  /\ writer.cur_offset < writer.read_offset =>
       writer.cur_offset + length < writer.read_offset
  /\ writer.cur_offset >= writer.read_offset =>
       writer.cur_offset + length < writer.read_offset + BufferSize

CanCreateOnceWrapped(writer, length) ==
  /\ length >= HeaderSize
  /\ length <= MaxMessageSize
  /\ length < BufferSize
  /\ writer.cur_offset + length < writer.read_offset + BufferSize

CanCreateToParity(writer, length) ==
  /\ length >= HeaderSize
  /\ length <= MaxMessageSize
  /\ length < BufferSize
  /\ writer.cur_offset < writer.read_offset =>
       writer.cur_offset + length <= writer.read_offset
  /\ writer.cur_offset >= writer.read_offset =>
       writer.cur_offset + length <= writer.read_offset + BufferSize

\* The fullness tests of streamCreateMsg, in the order they are made.
CanCreate(writer, length) ==
  /\ length >= HeaderSize
  /\ length <= MaxMessageSize
  /\ length < BufferSize
  /\ writer.cur_offset < writer.read_offset =>
       writer.cur_offset + length < writer.read_offset
  /\ writer.cur_offset >= writer.read_offset =>
       writer.cur_offset + length < writer.read_offset + BufferSize

AfterCreate(writer, length) ==
  [writer EXCEPT !.cur_offset = Wrap(writer.cur_offset + length)]

\* streamReadMsg returns a message unless its head has reached write_offset.
CanRead(reader) == reader.cur_offset # reader.write_offset

\* The length the reader finds in the header under its head.
NextLength(memory, reader) == memory[Cell(reader.cur_offset)].length

AfterRead(memory, reader) ==
  [reader EXCEPT !.cur_offset =
     Wrap(reader.cur_offset + NextLength(memory, reader))]

\* streamSyncStreams refuses endpoints whose public fields disagree.
CanSync(reader, writer) ==
  /\ reader.write_offset = writer.write_offset
  /\ reader.read_offset = writer.read_offset

\* Mutants: what was published before is given back, read or not; what was read is
\* never given back.
PublishOldHead(endpoint, reader, writer) ==
  [endpoint EXCEPT !.write_offset = writer.cur_offset,
                   !.read_offset = reader.write_offset]

PublishWritten(endpoint, reader, writer) ==
  [endpoint EXCEPT !.write_offset = writer.cur_offset]

\* Both heads become public in one go, on the endpoint given.
Publish(endpoint, reader, writer) ==
  [endpoint EXCEPT !.write_offset = writer.cur_offset,
                   !.read_offset = reader.cur_offset]

-----------------------------------------------------------------------------
\* Memory.

EmptyMemory == [c \in Cells |-> [id |-> EmptyId, length |-> 0, index |-> 0]]

\* Bytes from..to-1 of a message are stored at its offset.
Store(memory, offset, id, length, from, to) ==
  [c \in Cells |->
     LET index == Ahead(Cell(offset), c)
     IN  IF index >= from /\ index < to
         THEN [id |-> id, length |-> length, index |-> index]
         ELSE memory[c]]

\* Bytes 0..to-1 of the message are in place.
Stored(memory, offset, id, length, to) ==
  \A c \in Cells :
     LET index == Ahead(Cell(offset), c)
     IN  index < to => memory[c] = [id |-> id, length |-> length, index |-> index]

\* The message whose header is found at an offset.
MessageAt(memory, at) ==
  [at |-> at, id |-> memory[Cell(at)].id, length |-> memory[Cell(at)].length]

\* The messages that start at the offsets from, .., up to but excluding to, as
\* the chain of their headers spells them (fuel bounds a broken chain).
MessagesBetween(memory, from, to) ==
  LET Chain[fuel \in 0..BufferSize] ==
        [at \in Offsets |->
           IF at = to \/ fuel = 0 THEN << >>
           ELSE LET next == Wrap(at + memory[Cell(at)].length)
                IN  << MessageAt(memory, at) >>
                    \o (IF next \in Offsets THEN Chain[fuel - 1][next] ELSE << >>)]
  IN  Chain[BufferSize][from]
=============================================================================
