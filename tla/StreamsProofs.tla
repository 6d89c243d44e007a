---------------------------- MODULE StreamsProofs ----------------------------
(****************************************************************************)
(* Proofs about the two kinds of stream, Streams first and KeyboardStream   *)
(* after it, which share the facts about the ring.                          *)
(*                                                                          *)
(* Streams is proved for every buffer size, header size, message size       *)
(* limit and set of identifiers.  Everything follows from one inductive     *)
(* invariant, IInv: the heads are in order, and the ring between the public *)
(* read head and the writer's head is a chain of whole messages.  Without   *)
(* the chain not even the types are inductive, as the reader's next offset  *)
(* is a sum with a length read from the buffer.                             *)
(*                                                                          *)
(* That a stream is a bounded FIFO channel (StreamChannel) takes more than  *)
(* a set of messages: RInv numbers those of the chain, so that what the     *)
(* headers spell between two heads, found by a recursion, is a part of one  *)
(* sequence, and a head's move is a number's.                               *)
(*                                                                          *)
(* KInv is to KeyboardStream what RInv is to Streams.  The reader may be    *)
(* caught with its head past the buffer, so it speaks of the head the reader*)
(* will have once its call is over.                                         *)
(****************************************************************************)
EXTENDS Streams, KeyboardStream, CommonLemmas, TLAPS

\* The message being filled is the last one created, and it is one of the live
\* messages unless the reader has given everything back.
FillingIsLast(starts) ==
  filling # NoMsg =>
    /\ filling \in Headers
    /\ filling.length >= HeaderSize
    /\ filling.length < BufferSize
    /\ writer.cur_offset = Wrap(filling.at + filling.length)
    /\ \/ reader.read_offset = writer.cur_offset
       \/ /\ filling.at \in starts
          /\ Id(filling.at) = filling.id
          /\ Length(filling.at) = filling.length

\* A start called 0 is the first message of a stream that has given nothing back.
NoAlias(starts) == 0 \in starts => reader.read_offset = 0

Cut(starts) ==
  /\ starts \subseteq Offsets
  /\ CutAt(starts)
  /\ FillingIsLast(starts)
  /\ NoAlias(starts)

IInv == TypeOK /\ HeadsOrdered /\ \E starts : Cut(starts)

-----------------------------------------------------------------------------
\* A mapped byte lies in the buffer, less than one turn ahead of any other.
LEMMA CellsInRange ==
  ASSUME NEW offset \in Offsets, NEW c \in Cells
  PROVE  /\ Cell(offset) \in Cells
         /\ Ahead(Cell(offset), c) \in Cells
BY StreamConstants DEF Offsets, Cells, Cell, Ahead

LEMMA CellOfOffset ==
  ASSUME NEW offset \in Offsets
  PROVE  Cell(offset) \in Cells /\ Ahead(Cell(offset), Cell(offset)) = 0
BY StreamConstants DEF Offsets, Cells, Cell, Ahead

\* Two spans of the ring, one behind the other within one turn from base, have no
\* byte in common.
LEMMA SpansDisjoint ==
  ASSUME NEW base \in Offsets, NEW one \in Offsets, NEW two \in Offsets,
         NEW m \in Nat, NEW n \in Nat,
         Ahead(base, one) + m <= Ahead(base, two),
         Ahead(base, two) + n <= BufferSize,
         NEW c \in Cells,
         Ahead(Cell(one), c) < m
  PROVE  Ahead(Cell(two), c) >= n
BY StreamConstants DEF Offsets, Cells, Cell, Ahead

LEMMA SpansDisjointBack ==
  ASSUME NEW base \in Offsets, NEW one \in Offsets, NEW two \in Offsets,
         NEW m \in Nat, NEW n \in Nat,
         Ahead(base, one) + m <= Ahead(base, two),
         Ahead(base, two) + n <= BufferSize,
         NEW c \in Cells,
         Ahead(Cell(two), c) < n
  PROVE  Ahead(Cell(one), c) >= m
BY StreamConstants DEF Offsets, Cells, Cell, Ahead

\* A store into a span keeps what was stored in a disjoint one.
LEMMA StoreElsewhere ==
  ASSUME NEW mem \in [Cells -> Bytes],
         NEW at \in Offsets, NEW id, NEW length, NEW to \in Nat,
         NEW at2 \in Offsets, NEW id2, NEW length2, NEW from2 \in Nat, NEW to2 \in Nat,
         Stored(mem, at, id, length, to),
         \A c \in Cells : Ahead(Cell(at), c) < to => Ahead(Cell(at2), c) >= to2
  PROVE  Stored(Store(mem, at2, id2, length2, from2, to2), at, id, length, to)
<1> SUFFICES ASSUME NEW c \in Cells, Ahead(Cell(at), c) < to
             PROVE  Store(mem, at2, id2, length2, from2, to2)[c]
                      = [id |-> id, length |-> length, index |-> Ahead(Cell(at), c)]
  BY DEF Stored
<1>1. mem[c] = [id |-> id, length |-> length, index |-> Ahead(Cell(at), c)]
  BY DEF Stored
<1>2. ~(Ahead(Cell(at2), c) < to2)
  BY CellsInRange, StreamConstants DEF Cells
<1> QED BY <1>1, <1>2 DEF Store

\* A store keeps the type of the memory.
LEMMA StoreType ==
  ASSUME NEW mem \in [Cells -> Bytes], NEW at \in Offsets,
         NEW id \in Ids, NEW length \in Nat, NEW from \in Nat, NEW to \in Nat
  PROVE  Store(mem, at, id, length, from, to) \in [Cells -> Bytes]
<1> SUFFICES ASSUME NEW c \in Cells
             PROVE  Store(mem, at, id, length, from, to)[c] \in Bytes
  BY DEF Store
<1>1. Ahead(Cell(at), c) \in Nat
  BY CellsInRange, StreamConstants DEF Cells
<1> QED BY <1>1 DEF Store, Bytes

\* Moving on by a length that stays within the turn moves the position by it.
LEMMA AheadMoves ==
  ASSUME NEW base \in Offsets, NEW offset \in Offsets, NEW n \in Nat \ {0},
         Ahead(base, offset) + n < BufferSize
  PROVE  /\ Wrap(offset + n) \in Offsets \ {0}
         /\ Ahead(base, Wrap(offset + n)) = Ahead(base, offset) + n
BY StreamConstants DEF Offsets, Ahead, Wrap

\* Within a turn a position names one offset, where 0 is not another name of
\* BufferSize.
LEMMA PositionNamesOffset ==
  ASSUME NEW base \in Offsets, NEW one \in Offsets, NEW two \in Offsets,
         one = 0 => base = 0, two = 0 => base = 0,
         Ahead(base, one) = Ahead(base, two),
         Ahead(base, one) < BufferSize
  PROVE  one = two
BY StreamConstants DEF Offsets, Ahead

\* A span that begins at the base's own turn can be measured from a point in it.
LEMMA AheadFrom ==
  ASSUME NEW base \in Offsets, NEW one \in Offsets, NEW two \in Offsets,
         one = 0 => base = 0, two = 0 => one = 0,
         Ahead(base, one) <= Ahead(base, two), Ahead(base, two) < BufferSize
  PROVE  Ahead(one, two) = Ahead(base, two) - Ahead(base, one)
BY StreamConstants DEF Offsets, Ahead

\* The four heads as positions: all that the actions need of HeadsOrdered.
LEMMA HeadPositions ==
  ASSUME TypeOK, HeadsOrdered
  PROVE  /\ reader.read_offset \in Offsets
         /\ reader.cur_offset \in Offsets
         /\ reader.write_offset \in Offsets
         /\ writer.cur_offset \in Offsets
         /\ Position(reader.cur_offset) \in Nat
         /\ Position(reader.write_offset) \in Nat
         /\ Position(writer.cur_offset) \in Nat
         /\ Position(reader.cur_offset) <= Position(reader.write_offset)
         /\ Position(reader.write_offset) <= Position(writer.cur_offset)
         /\ Position(writer.cur_offset) < BufferSize
<1>1. /\ reader.read_offset \in Offsets
      /\ reader.cur_offset \in Offsets
      /\ reader.write_offset \in Offsets
      /\ writer.cur_offset \in Offsets
  BY DEF TypeOK, Endpoints
<1> QED BY <1>1, StreamConstants DEF HeadsOrdered, Position, Ahead, Offsets

\* The heads stay in order when the writer's moves on within the turn.
LEMMA WriterMovesInOrder ==
  ASSUME NEW rp \in Offsets, NEW r \in Offsets, NEW wp \in Offsets, NEW w \in Offsets,
         NEW n \in Nat \ {0},
         Ahead(rp, r) + Ahead(r, wp) + Ahead(wp, w) < BufferSize,
         Ahead(rp, w) + n < BufferSize
  PROVE  Ahead(rp, r) + Ahead(r, wp) + Ahead(wp, Wrap(w + n)) < BufferSize
BY StreamConstants DEF Offsets, Ahead, Wrap

\* The type of a start and of the header found at it.
LEMMA StartFacts ==
  ASSUME TypeOK, HeadsOrdered, NEW starts, Cut(starts), NEW at \in starts
  PROVE  /\ at \in Offsets
         /\ Cell(at) \in Cells
         /\ Id(at) \in Ids
         /\ Length(at) \in Nat \ {0}
         /\ Position(at) \in Nat
         /\ Position(at) + Length(at) <= Position(writer.cur_offset)
         /\ Position(at) + Length(at) < BufferSize
         /\ at = 0 => reader.read_offset = 0
<1>1. at \in Offsets
  BY DEF Cut
<1>2. Cell(at) \in Cells
  BY <1>1, StreamConstants DEF Offsets, Cells, Cell
<1>3. Length(at) \in Nat
  BY <1>2 DEF TypeOK, Bytes, Length
<1>4. /\ Id(at) \in Ids
      /\ Length(at) >= HeaderSize
      /\ Position(at) + Length(at) <= Position(writer.cur_offset)
  BY DEF Cut, CutAt
<1>5. at = 0 => reader.read_offset = 0
  BY DEF Cut, NoAlias
<1>6. Position(at) \in Nat
  BY <1>1, HeadPositions, StreamConstants DEF Position, Ahead, Offsets
<1> QED BY <1>1, <1>2, <1>3, <1>4, <1>5, <1>6, HeadPositions, StreamConstants

-----------------------------------------------------------------------------
\* The empty stream.
LEMMA InitEstablishes == Init => IInv
<1> SUFFICES ASSUME Init PROVE IInv
  OBVIOUS
<1>1. TypeOK
  BY StreamConstants
  DEF Init, TypeOK, EmptyMemory, Bytes, NewEndpoint, Endpoints, Offsets
<1>2. HeadsOrdered
  BY StreamConstants DEF Init, HeadsOrdered, CanSync, NewEndpoint, Ahead
<1>3. Cut({})
  BY DEF Init, Cut, CutAt, FillingIsLast, NoAlias, NewEndpoint
<1> QED BY <1>1, <1>2, <1>3 DEF IInv

-----------------------------------------------------------------------------
\* The headers found at the starts do not change.
HeadersStay(starts) ==
  \A at \in starts : Id(at)' = Id(at) /\ Length(at)' = Length(at)

\* streamCreateMsg adds a start at the writer's head.
LEMMA CreateMsgCuts ==
  ASSUME TypeOK, HeadsOrdered, NEW starts, Cut(starts), NEW w, w = writer.cur_offset,
         NEW id \in Ids, NEW length \in Lengths, CreateMsg(id, length)
  PROVE  /\ TypeOK' /\ HeadsOrdered' /\ Cut(starts \cup {w})'
         /\ HeadersStay(starts)
         /\ Id(w)' = id /\ Length(w)' = length
         /\ writer'.cur_offset = Wrap(w + length)
         /\ length \in Nat \ {0} /\ Position(w) + length < BufferSize
<1> PICK rp : rp = reader.read_offset
  OBVIOUS
<1>0. TypeOK /\ HeadsOrdered
  OBVIOUS
<1>1. length \in Nat /\ length >= HeaderSize /\ length < BufferSize /\ length \in Nat \ {0}
  BY LengthsAssumption, StreamConstants DEF CreateMsg, CanCreate
<1>2. w \in Offsets /\ rp \in Offsets /\ Cell(w) \in Cells
  BY <1>0, HeadPositions, CellOfOffset
<1>3. Ahead(rp, w) + length < BufferSize
  BY <1>0, <1>1, <1>2, StreamConstants
  DEF CreateMsg, CanCreate, HeadsOrdered, CanSync, Ahead, Offsets
<1>4. /\ writer'.cur_offset = Wrap(w + length)
      /\ writer'.write_offset = writer.write_offset
      /\ writer'.read_offset = writer.read_offset
      /\ reader' = reader
      /\ writer' \in Endpoints
  <2>1. Wrap(w + length) \in Offsets
    BY <1>1, <1>2, <1>3, AheadMoves
  <2> QED BY <2>1, <1>0 DEF CreateMsg, AfterCreate, TypeOK, Endpoints
<1>5. /\ writer'.cur_offset \in Offsets \ {0}
      /\ Ahead(rp, writer'.cur_offset) = Ahead(rp, w) + length
  BY <1>1, <1>2, <1>3, <1>4, AheadMoves
<1>6. /\ memory' = Store(memory, w, id, length, 0, HeaderSize)
      /\ memory' \in [Cells -> Bytes]
  BY <1>0, <1>1, <1>2, StoreType, StreamConstants DEF CreateMsg, TypeOK
<1>7. filling = NoMsg /\ filling' = [at |-> w, id |-> id, length |-> length]
  BY DEF CreateMsg
<1>8. TypeOK'
  BY <1>0, <1>1, <1>2, <1>4, <1>6, <1>7 DEF TypeOK, Headers
<1>9. HeadsOrdered'
  <2>1. Ahead(rp, reader.cur_offset) + Ahead(reader.cur_offset, reader.write_offset)
        + Ahead(reader.write_offset, writer'.cur_offset) < BufferSize
    BY <1>0, <1>1, <1>2, <1>3, <1>4, HeadPositions, WriterMovesInOrder DEF HeadsOrdered
  <2>2. writer'.cur_offset # 0
    BY <1>5
  <2> QED BY <1>0, <1>4, <2>1, <2>2 DEF HeadsOrdered, CanSync
<1>10. ASSUME NEW at \in starts
       PROVE  /\ memory'[Cell(at)] = memory[Cell(at)]
              /\ Stored(memory', at, Id(at), Length(at), Length(at))
              /\ Stored(memory', at, Id(at), Length(at), HeaderSize)
  <2>1. \A c \in Cells : Ahead(Cell(at), c) < Length(at) => Ahead(Cell(w), c) >= length
    <3>1. /\ at \in Offsets
          /\ Length(at) \in Nat
          /\ Ahead(rp, at) + Length(at) <= Ahead(rp, w)
      BY <1>0, StartFacts DEF Position
    <3>2. Ahead(rp, w) + length <= BufferSize
      BY <1>1, <1>2, <1>3, StreamConstants DEF Ahead, Offsets
    <3> QED BY <3>1, <3>2, <1>1, <1>2, SpansDisjoint
  <2>2. Stored(memory, at, Id(at), Length(at), Length(at))
    BY <1>7 DEF Cut, CutAt, Intact
  <2>3. at \in Offsets /\ Length(at) \in Nat \ {0} /\ Cell(at) \in Cells
    BY <1>0, StartFacts
  <2>4. \A c \in Cells : Ahead(Cell(at), c) < Length(at) => Ahead(Cell(w), c) >= HeaderSize
    BY <2>1, <1>1, <1>2, CellsInRange, StreamConstants DEF Cells
  <2>5. Stored(memory', at, Id(at), Length(at), Length(at))
    BY <2>2, <2>3, <2>4, <1>0, <1>2, <1>6, StoreElsewhere, StreamConstants DEF TypeOK
  <2>6. Ahead(Cell(at), Cell(at)) = 0
    BY <2>3, CellOfOffset
  <2>7. memory'[Cell(at)] = memory[Cell(at)]
    <3>1. Ahead(Cell(at), Cell(at)) < Length(at)
      BY <2>3, <2>6
    <3> QED BY <2>2, <2>3, <2>5, <3>1 DEF Stored
  <2>8. Length(at) >= HeaderSize
    BY DEF Cut, CutAt
  <2>9. Stored(memory', at, Id(at), Length(at), HeaderSize)
    BY <2>3, <2>5, <2>8, CellsInRange, StreamConstants DEF Stored, Cells
  <2> QED BY <2>5, <2>7, <2>9
<1>11. /\ memory'[Cell(w)].id = id
       /\ memory'[Cell(w)].length = length
       /\ Stored(memory', w, id, length, HeaderSize)
  <2>1. Ahead(Cell(w), Cell(w)) < HeaderSize
    BY <1>2, CellOfOffset, StreamConstants
  <2>2. \A c \in Cells : Ahead(Cell(w), c) < HeaderSize =>
          memory'[c] = [id |-> id, length |-> length, index |-> Ahead(Cell(w), c)]
    <3>1. \A c \in Cells : Ahead(Cell(w), c) >= 0
      BY <1>2, CellsInRange, StreamConstants DEF Cells
    <3> QED BY <1>6, <3>1 DEF Store
  <2>3. memory'[Cell(w)] = [id |-> id, length |-> length, index |-> Ahead(Cell(w), Cell(w))]
    BY <1>2, <2>1, <2>2
  <2> QED BY <2>2, <2>3 DEF Stored
<1>12. Cut(starts \cup {w})'
  <2> DEFINE now == starts \cup {w}
  <2>1. now \subseteq Offsets
    BY <1>2 DEF Cut
  <2>2. {rp, reader.cur_offset, reader.write_offset} \subseteq now \cup {writer'.cur_offset}
    BY DEF Cut, CutAt
  <2>3. ASSUME NEW at \in now
        PROVE  /\ Id(at)' \in Ids
               /\ Length(at)' >= HeaderSize
               /\ Position(at) + Length(at)' <= Ahead(rp, writer'.cur_offset)
               /\ Wrap(at + Length(at)') \in now \cup {writer'.cur_offset}
               /\ Stored(memory', at, Id(at)', Length(at)', HeaderSize)
               /\ filling'.at = at \/ Stored(memory', at, Id(at)', Length(at)', Length(at)')
    <3>1. CASE at = w
      <4>1. Id(at)' = id /\ Length(at)' = length
        BY <3>1, <1>11 DEF Id, Length
      <4>2. Position(at) + length <= Ahead(rp, writer'.cur_offset)
        BY <3>1, <1>1, <1>2, <1>5, StreamConstants DEF Position, Ahead, Offsets
      <4>3. filling'.at = at
        BY <3>1, <1>7
      <4> QED BY <3>1, <4>1, <4>2, <4>3, <1>1, <1>4, <1>11
    <3>2. CASE at \in starts
      <4>1. Id(at)' = Id(at) /\ Length(at)' = Length(at)
        BY <3>2, <1>10 DEF Id, Length
      <4>2. /\ Id(at) \in Ids
            /\ Length(at) >= HeaderSize
            /\ Position(at) + Length(at) <= Ahead(rp, w)
            /\ Wrap(at + Length(at)) \in starts \cup {w}
        BY <3>2 DEF Cut, CutAt, Position
      <4>3. Position(at) + Length(at) <= Ahead(rp, writer'.cur_offset)
        BY <4>2, <3>2, <1>0, <1>1, <1>5, StartFacts, HeadPositions DEF Position
      <4> QED BY <4>1, <4>2, <4>3, <3>2, <1>10
    <3> QED BY <3>1, <3>2
  <2>4. ASSUME NEW at \in now, NEW other \in now, Position(at) < Position(other)
        PROVE  Position(at) + Length(at)' <= Position(other)
    <3>1. at # w
      BY <2>4, <1>0, StartFacts, HeadPositions DEF Position
    <3>2. Length(at)' = Length(at)
      BY <3>1, <1>10 DEF Length
    <3>3. CASE other = w
      BY <3>1, <3>2, <3>3 DEF Cut, CutAt
    <3>4. CASE other \in starts
      BY <3>1, <3>2, <3>4, <2>4 DEF Cut, CutAt
    <3> QED BY <3>3, <3>4
  <2>5. filling' # NoMsg
    BY <1>7, StreamConstants DEF NoMsg
  <2>6. CutAt(now)'
    <3>1. \A at \in now : Position(at)' = Position(at)
      BY <1>4 DEF Position
    <3>2. Position(writer.cur_offset)' = Ahead(rp, writer'.cur_offset)
      BY <1>4 DEF Position
    <3> QED BY <3>1, <3>2, <2>2, <2>3, <2>4, <2>5, <1>4 DEF CutAt, Intact
  <2>7. FillingIsLast(now)'
    BY <1>1, <1>2, <1>4, <1>7, <1>11 DEF FillingIsLast, Headers, Id, Length
  <2>8. NoAlias(now)'
    BY <1>0, <1>4 DEF NoAlias, Cut, HeadsOrdered
  <2> QED BY <2>1, <2>6, <2>7, <2>8 DEF Cut
<1>13. HeadersStay(starts)
  BY <1>10 DEF HeadersStay, Id, Length
<1>14. Id(w)' = id /\ Length(w)' = length
  BY <1>11 DEF Id, Length
<1>15. writer'.cur_offset = Wrap(w + length) /\ Position(w) + length < BufferSize
  BY <1>3, <1>4 DEF Position
<1> QED BY <1>1, <1>8, <1>9, <1>12, <1>13, <1>14, <1>15

-----------------------------------------------------------------------------
\* The caller of streamCreateMsg writes between its header and the writer's head.
LEMMA FillBodyCuts ==
  ASSUME TypeOK, HeadsOrdered, NEW starts, Cut(starts), FillBody
  PROVE  TypeOK' /\ HeadsOrdered' /\ Cut(starts)' /\ HeadersStay(starts)
<1>0. TypeOK /\ HeadsOrdered
  OBVIOUS
<1>1. /\ filling \in Headers
      /\ filling.at \in Offsets /\ filling.id \in Ids /\ filling.length \in Nat
      /\ reader' = reader /\ writer' = writer /\ filling' = NoMsg
      /\ memory' = Store(memory, filling.at, filling.id, filling.length,
                         HeaderSize, filling.length)
  BY <1>0 DEF FillBody, TypeOK, Headers
<1>2. memory' \in [Cells -> Bytes]
  BY <1>0, <1>1, StoreType, StreamConstants DEF TypeOK
<1>3. TypeOK'
  BY <1>0, <1>1, <1>2 DEF TypeOK
<1>4. HeadsOrdered'
  BY <1>0, <1>1 DEF HeadsOrdered, CanSync
<1>5. \/ reader.read_offset = writer.cur_offset
      \/ /\ filling.at \in starts
         /\ Id(filling.at) = filling.id
         /\ Length(filling.at) = filling.length
  BY DEF FillBody, Cut, FillingIsLast
<1>6. ASSUME NEW at \in starts
      PROVE  /\ memory'[Cell(at)].id = Id(at)
             /\ memory'[Cell(at)].length = Length(at)
             /\ Stored(memory', at, Id(at), Length(at), HeaderSize)
             /\ Stored(memory', at, Id(at), Length(at), Length(at))
  <2>1. /\ at \in Offsets /\ Cell(at) \in Cells /\ Length(at) \in Nat \ {0}
        /\ Position(at) \in Nat
        /\ Position(at) + Length(at) < BufferSize
        /\ Position(at) + Length(at) <= Position(writer.cur_offset)
        /\ Length(at) >= HeaderSize
        /\ Stored(memory, at, Id(at), Length(at), HeaderSize)
    BY <1>0, StartFacts DEF Cut, CutAt
  <2>2. filling.at \in starts /\ Id(filling.at) = filling.id /\ Length(filling.at) = filling.length
    <3>1. Position(writer.cur_offset) > 0
      BY <2>1, <1>0, HeadPositions
    <3>2. reader.read_offset # writer.cur_offset
      BY <3>1, <1>0, HeadPositions, StreamConstants DEF Position, Ahead, Offsets
    <3> QED BY <3>2, <1>5
  <2>3. Stored(memory', at, Id(at), Length(at), Length(at))
    <3>1. CASE at = filling.at
      <4> SUFFICES ASSUME NEW c \in Cells, Ahead(Cell(at), c) < Length(at)
                   PROVE  memory'[c] = [id |-> Id(at), length |-> Length(at),
                                        index |-> Ahead(Cell(at), c)]
        BY DEF Stored
      <4>1. CASE Ahead(Cell(at), c) < HeaderSize
        <5>1. memory'[c] = memory[c]
          BY <4>1, <3>1, <1>1, <2>1, CellsInRange, StreamConstants DEF Store, Cells
        <5> QED BY <5>1, <4>1, <2>1 DEF Stored
      <4>2. CASE ~(Ahead(Cell(at), c) < HeaderSize)
        BY <4>2, <3>1, <1>1, <2>1, <2>2, CellsInRange, StreamConstants DEF Store, Cells
      <4> QED BY <4>1, <4>2
    <3>2. CASE at # filling.at
      <4>1. /\ filling.at = 0 => reader.read_offset = 0
            /\ at = 0 => reader.read_offset = 0
            /\ Position(filling.at) \in Nat
            /\ Position(filling.at) + filling.length < BufferSize
            /\ reader.read_offset \in Offsets
        BY <2>2, <1>0, StartFacts, HeadPositions
      <4>2. Position(at) # Position(filling.at)
        <5>1. Position(at) < BufferSize
          BY <2>1, StreamConstants
        <5> QED BY <5>1, <4>1, <3>2, <2>1, <1>1, PositionNamesOffset DEF Position
      <4>3. Stored(memory, at, Id(at), Length(at), Length(at))
        BY <3>2 DEF Cut, CutAt, Intact
      <4>4. \A c \in Cells : Ahead(Cell(at), c) < Length(at) =>
              Ahead(Cell(filling.at), c) >= filling.length
        <5>1. CASE Position(at) < Position(filling.at)
          <6>1. Position(at) + Length(at) <= Position(filling.at)
            BY <5>1, <2>2 DEF Cut, CutAt
          <6>2. Position(filling.at) + filling.length <= BufferSize
            BY <4>1, <1>1, StreamConstants
          <6> QED BY <6>1, <6>2, <4>1, <2>1, <1>1, SpansDisjoint DEF Position
        <5>2. CASE Position(filling.at) < Position(at)
          <6>1. Position(filling.at) + filling.length <= Position(at)
            BY <5>2, <2>2 DEF Cut, CutAt
          <6>2. Position(at) + Length(at) <= BufferSize
            BY <2>1, StreamConstants
          <6> QED BY <6>1, <6>2, <4>1, <2>1, <1>1, SpansDisjointBack DEF Position
        <5> QED BY <4>1, <4>2, <2>1, <5>1, <5>2
      <4> QED BY <4>3, <4>4, <2>1, <1>0, <1>1, StoreElsewhere, StreamConstants DEF TypeOK
    <3> QED BY <3>1, <3>2
  <2>4. Stored(memory', at, Id(at), Length(at), HeaderSize)
    BY <2>1, <2>3, CellsInRange, StreamConstants DEF Stored, Cells
  <2>5. Ahead(Cell(at), Cell(at)) < Length(at)
    BY <2>1, CellOfOffset
  <2>6. memory'[Cell(at)].id = Id(at) /\ memory'[Cell(at)].length = Length(at)
    <3>1. memory'[Cell(at)] = [id |-> Id(at), length |-> Length(at),
                               index |-> Ahead(Cell(at), Cell(at))]
      BY <2>1, <2>3, <2>5 DEF Stored
    <3> QED BY <3>1
  <2> QED BY <2>3, <2>4, <2>6
<1>7. Cut(starts)'
  <2>1. ASSUME NEW at \in starts PROVE Id(at)' = Id(at) /\ Length(at)' = Length(at)
    BY <1>6 DEF Id, Length
  <2>2. \A offset : Position(offset)' = Position(offset)
    BY <1>1 DEF Position
  <2>3. Position(writer.cur_offset)' = Position(writer.cur_offset)
    BY <1>1 DEF Position
  <2>4. CutAt(starts)'
    BY <2>1, <2>2, <2>3, <1>1, <1>6 DEF Cut, CutAt, Intact
  <2> QED BY <2>4, <1>1 DEF Cut, FillingIsLast, NoAlias
<1>8. HeadersStay(starts)
  BY <1>6 DEF HeadersStay, Id, Length
<1> QED BY <1>3, <1>4, <1>7, <1>8

-----------------------------------------------------------------------------
\* The reader's head is at a start, and the public write head is not before that
\* message's end.
LEMMA HeadAtMessage ==
  ASSUME TypeOK, HeadsOrdered, NEW starts, Cut(starts), CanRead(reader)
  PROVE  /\ reader.cur_offset \in starts
         /\ Position(reader.cur_offset) + Length(reader.cur_offset)
              <= Position(reader.write_offset)
<1>1. Position(reader.cur_offset) < Position(reader.write_offset)
  <2>1. Position(reader.cur_offset) # Position(reader.write_offset)
    <3>1. /\ reader.cur_offset = 0 => reader.read_offset = 0
          /\ reader.write_offset = 0 => reader.read_offset = 0
      BY DEF HeadsOrdered
    <3>2. Position(reader.cur_offset) < BufferSize
      BY HeadPositions, StreamConstants
    <3> QED BY <3>1, <3>2, HeadPositions, PositionNamesOffset DEF CanRead, Position
  <2> QED BY <2>1, HeadPositions
<1>2. reader.cur_offset \in starts
  <2>1. reader.cur_offset # writer.cur_offset
    BY <1>1, HeadPositions
  <2> QED BY <2>1 DEF Cut, CutAt
<1>3. CASE reader.write_offset \in starts
  BY <1>1, <1>2, <1>3 DEF Cut, CutAt
<1>4. CASE reader.write_offset = writer.cur_offset
  BY <1>2, <1>4 DEF Cut, CutAt
<1> QED BY <1>2, <1>3, <1>4 DEF Cut, CutAt

\* streamReadMsg moves the reader's head to the next cut.
LEMMA ReadMsgCuts ==
  ASSUME TypeOK, HeadsOrdered, NEW starts, Cut(starts), ReadMsg
  PROVE  TypeOK' /\ HeadsOrdered' /\ Cut(starts)' /\ HeadersStay(starts)
<1> PICK r : r = reader.cur_offset
  OBVIOUS
<1>0. TypeOK /\ HeadsOrdered /\ CanRead(reader)
  BY DEF ReadMsg
<1>1. r \in starts /\ Position(r) + Length(r) <= Position(reader.write_offset)
  BY <1>0, HeadAtMessage
<1>2. /\ r \in Offsets /\ Length(r) \in Nat \ {0} /\ Position(r) \in Nat
      /\ Position(r) + Length(r) < BufferSize
  BY <1>0, <1>1, StartFacts
<1>3. reader.read_offset \in Offsets
  BY <1>0, HeadPositions
<1>4. /\ Wrap(r + Length(r)) \in Offsets \ {0}
      /\ Position(Wrap(r + Length(r))) = Position(r) + Length(r)
  BY <1>2, <1>3, AheadMoves DEF Position
<1>5. /\ reader' = [reader EXCEPT !.cur_offset = Wrap(r + Length(r))]
      /\ memory' = memory /\ writer' = writer /\ filling' = filling
  BY DEF ReadMsg, AfterRead, NextLength, Length
<1>6. /\ reader'.cur_offset = Wrap(r + Length(r))
      /\ reader'.read_offset = reader.read_offset
      /\ reader'.write_offset = reader.write_offset
      /\ reader' \in Endpoints
  BY <1>0, <1>4, <1>5 DEF TypeOK, Endpoints
<1>7. TypeOK'
  BY <1>0, <1>5, <1>6 DEF TypeOK
<1>8. HeadsOrdered'
  <2> DEFINE rp == reader.read_offset
             wp == reader.write_offset
             w == writer.cur_offset
             r2 == Wrap(r + Length(r))
  <2>1. /\ w \in Offsets /\ wp \in Offsets /\ rp \in Offsets
        /\ Ahead(rp, wp) <= Ahead(rp, w) /\ Ahead(rp, w) < BufferSize
    BY <1>0, HeadPositions DEF Position
  <2>2. Ahead(rp, r2) <= Ahead(rp, wp) /\ r2 # 0 /\ r2 \in Offsets
    BY <1>1, <1>4 DEF Position
  <2>3. (w = 0 => wp = 0) /\ (wp = 0 => rp = 0) /\ wp # 0
    <3>1. (w = 0 => wp = 0) /\ (wp = 0 => r = 0) /\ (r = 0 => rp = 0) /\ wp # r
      BY <1>0 DEF HeadsOrdered, CanRead
    <3> QED BY <3>1
  <2> HIDE DEF rp, wp, w, r2
  <2>4. Ahead(rp, r2) + Ahead(r2, wp) + Ahead(wp, w) < BufferSize
    BY <2>1, <2>2, <2>3, StreamConstants DEF Ahead, Offsets
  <2> QED BY <2>2, <2>3, <2>4, <1>0, <1>5, <1>6
          DEF HeadsOrdered, CanSync, rp, wp, w, r2
<1>9. Cut(starts)'
  <2>1. /\ \A at : Id(at)' = Id(at) /\ Length(at)' = Length(at) /\ Intact(at)' = Intact(at)
        /\ \A at : Position(at)' = Position(at)
        /\ Position(writer.cur_offset)' = Position(writer.cur_offset)
    BY <1>5, <1>6 DEF Id, Length, Intact, Position
  <2>2. Wrap(r + Length(r)) \in starts \cup {writer.cur_offset}
    BY <1>1 DEF Cut, CutAt
  <2>3. CutAt(starts)'
    BY <2>1, <2>2, <1>5, <1>6 DEF Cut, CutAt
  <2> QED BY <2>1, <2>3, <1>5, <1>6 DEF Cut, FillingIsLast, NoAlias
<1>10. HeadersStay(starts)
  BY <1>5 DEF HeadersStay, Id, Length
<1> QED BY <1>7, <1>8, <1>9, <1>10

-----------------------------------------------------------------------------
\* A sync gives back what the reader is done with: the chain is cut off at the
\* reader's head, where the live part of the ring now begins.
Kept(starts) == {at \in starts : Position(at) >= Position(reader.cur_offset)}

LEMMA SyncCuts ==
  ASSUME TypeOK, HeadsOrdered, NEW starts, Cut(starts), NEW kept, kept = Kept(starts), Sync
  PROVE  TypeOK' /\ HeadsOrdered' /\ Cut(kept)' /\ HeadersStay(starts)
<1> PICK r : r = reader.cur_offset
  OBVIOUS
<1> PICK w : w = writer.cur_offset
  OBVIOUS
<1> PICK rp : rp = reader.read_offset
  OBVIOUS
<1> DEFINE live == {at \in starts : Ahead(rp, at) >= Ahead(rp, r)}
<1>0. TypeOK /\ HeadsOrdered
  OBVIOUS
<1>1. /\ r \in Offsets /\ w \in Offsets /\ rp \in Offsets
      /\ Ahead(rp, r) \in Nat /\ Ahead(rp, w) \in Nat
      /\ Ahead(rp, r) <= Ahead(rp, w) /\ Ahead(rp, w) < BufferSize
      /\ (w = 0 => r = 0) /\ (r = 0 => rp = 0) /\ (w = 0 => rp = 0)
  BY <1>0, HeadPositions DEF Position, HeadsOrdered
<1>2. /\ reader' = [reader EXCEPT !.write_offset = w, !.read_offset = r]
      /\ writer' = [writer EXCEPT !.write_offset = w, !.read_offset = r]
      /\ memory' = memory /\ filling' = filling
  BY DEF Sync, Publish
<1>3. /\ reader'.cur_offset = r /\ reader'.read_offset = r /\ reader'.write_offset = w
      /\ writer'.cur_offset = w /\ writer'.read_offset = r /\ writer'.write_offset = w
      /\ reader' \in Endpoints /\ writer' \in Endpoints
  BY <1>0, <1>1, <1>2 DEF TypeOK, Endpoints
<1>4. TypeOK'
  BY <1>0, <1>2, <1>3 DEF TypeOK
<1>5. Ahead(r, w) = Ahead(rp, w) - Ahead(rp, r)
  BY <1>1, AheadFrom
<1>6. HeadsOrdered'
  <2>1. Ahead(r, r) = 0 /\ Ahead(w, w) = 0
    BY <1>1, StreamConstants DEF Ahead, Offsets
  <2>2. Ahead(r, r) + Ahead(r, w) + Ahead(w, w) < BufferSize
    BY <2>1, <1>1, <1>5, StreamConstants
  <2> QED BY <2>2, <1>1, <1>3 DEF HeadsOrdered, CanSync
<1>7. ASSUME NEW at \in starts
      PROVE  /\ at \in Offsets /\ Length(at) \in Nat \ {0}
             /\ Ahead(rp, at) \in Nat
             /\ Ahead(rp, at) + Length(at) <= Ahead(rp, w)
             /\ Ahead(rp, at) + Length(at) < BufferSize
             /\ at = 0 => rp = 0
             /\ Wrap(at + Length(at)) \in starts \cup {w}
             /\ Ahead(rp, Wrap(at + Length(at))) = Ahead(rp, at) + Length(at)
  <2>1. /\ at \in Offsets /\ Length(at) \in Nat \ {0}
        /\ Ahead(rp, at) \in Nat
        /\ Ahead(rp, at) + Length(at) <= Ahead(rp, w)
        /\ Ahead(rp, at) + Length(at) < BufferSize
        /\ at = 0 => rp = 0
    BY <1>0, StartFacts DEF Position
  <2>2. Wrap(at + Length(at)) \in starts \cup {w}
    BY DEF Cut, CutAt
  <2> QED BY <2>1, <2>2, <1>1, AheadMoves
<1>8. ASSUME NEW at \in live
      PROVE  /\ (at = 0 => r = 0)
             /\ Ahead(r, at) = Ahead(rp, at) - Ahead(rp, r)
  <2>1. /\ at \in starts /\ at \in Offsets /\ Ahead(rp, r) <= Ahead(rp, at)
        /\ Ahead(rp, at) < BufferSize /\ (at = 0 => rp = 0)
    BY <1>1, <1>7, StreamConstants
  <2>2. at = 0 => r = 0
    BY <2>1, <1>1, StreamConstants DEF Ahead, Offsets
  <2> QED BY <2>1, <2>2, <1>1, AheadFrom
<1>9. r \in live \cup {w}
  BY <1>1 DEF Cut, CutAt
<1>10. CutAt(live)'
  <2>1. /\ \A at : Id(at)' = Id(at) /\ Length(at)' = Length(at) /\ Intact(at)' = Intact(at)
        /\ \A at : Position(at)' = Ahead(r, at)
        /\ Position(writer.cur_offset)' = Ahead(r, w)
    BY <1>2, <1>3 DEF Id, Length, Intact, Position
  <2>2. ASSUME NEW at \in live
        PROVE  /\ Ahead(r, at) + Length(at) <= Ahead(r, w)
               /\ Wrap(at + Length(at)) \in live \cup {w}
               /\ Id(at) \in Ids
               /\ Length(at) >= HeaderSize
               /\ Stored(memory, at, Id(at), Length(at), HeaderSize)
               /\ (filling # NoMsg /\ filling.at = at) \/ Intact(at)
    <3>1. Ahead(r, at) + Length(at) <= Ahead(r, w)
      BY <1>1, <1>5, <1>7, <1>8
    <3>2. Wrap(at + Length(at)) \in live \cup {w}
      BY <1>1, <1>7
    <3> QED BY <3>1, <3>2 DEF Cut, CutAt
  <2>3. ASSUME NEW at \in live, NEW other \in live, Ahead(r, at) < Ahead(r, other)
        PROVE  Ahead(r, at) + Length(at) <= Ahead(r, other)
    <3>1. Ahead(rp, at) < Ahead(rp, other)
      BY <2>3, <1>1, <1>7, <1>8
    <3>2. Ahead(rp, at) + Length(at) <= Ahead(rp, other)
      BY <3>1 DEF Cut, CutAt, Position
    <3> QED BY <3>2, <1>1, <1>7, <1>8
  <2> QED BY <2>1, <2>2, <2>3, <1>2, <1>3, <1>9 DEF CutAt
<1>11. FillingIsLast(live)'
  <2> SUFFICES ASSUME filling # NoMsg PROVE FillingIsLast(live)'
    BY <1>2 DEF FillingIsLast
  <2>1. /\ filling \in Headers
        /\ filling.length >= HeaderSize /\ filling.length < BufferSize
        /\ w = Wrap(filling.at + filling.length)
    BY DEF Cut, FillingIsLast
  <2>2. r = w \/ (/\ filling.at \in live
                 /\ Id(filling.at) = filling.id
                 /\ Length(filling.at) = filling.length)
    <3>1. CASE rp = w
      <4>1. Ahead(rp, r) = Ahead(rp, w)
        BY <3>1, <1>1, StreamConstants DEF Ahead, Offsets
      <4> QED BY <4>1, <1>1, PositionNamesOffset
    <3>2. CASE rp # w
      <4>1. /\ filling.at \in starts
            /\ Id(filling.at) = filling.id /\ Length(filling.at) = filling.length
        BY <3>2 DEF Cut, FillingIsLast
      <4>2. Ahead(rp, filling.at) + Length(filling.at) = Ahead(rp, w)
        BY <4>1, <2>1, <1>7
      <4>3. CASE Ahead(rp, filling.at) >= Ahead(rp, r)
        BY <4>1, <4>3
      <4>4. CASE Ahead(rp, filling.at) < Ahead(rp, r)
        <5>1. r \notin starts
          <6> SUFFICES ASSUME r \in starts PROVE FALSE
            OBVIOUS
          <6>1. Ahead(rp, filling.at) + Length(filling.at) <= Ahead(rp, r)
            BY <4>1, <4>4 DEF Cut, CutAt, Position
          <6> QED BY <6>1, <4>2, <1>1, <1>7
        <5> QED BY <5>1, <1>9
      <4> QED BY <4>1, <4>3, <4>4, <1>1, <1>7
    <3> QED BY <3>1, <3>2
  <2> QED BY <2>1, <2>2, <1>2, <1>3 DEF FillingIsLast, Id, Length
<1>12. Cut(live)'
  <2>1. live \subseteq Offsets
    BY <1>7
  <2>2. NoAlias(live)'
    BY <1>3, <1>8 DEF NoAlias
  <2> QED BY <2>1, <2>2, <1>10, <1>11 DEF Cut
<1>13. HeadersStay(starts)
  BY <1>2 DEF HeadersStay, Id, Length
<1>14. kept = live
  BY DEF Kept, Position
<1> QED BY <1>4, <1>6, <1>12, <1>13, <1>14

-----------------------------------------------------------------------------
\* IInv holds from the start and every step keeps it.
LEMMA NextPreserves == IInv /\ [Next]_vars => IInv'
<1> SUFFICES ASSUME IInv, [Next]_vars PROVE IInv'
  OBVIOUS
<1>1. ASSUME NEW id \in Ids, NEW length \in Lengths, CreateMsg(id, length) PROVE IInv'
  BY <1>1, CreateMsgCuts DEF IInv
<1>2. CASE FillBody
  BY <1>2, FillBodyCuts DEF IInv
<1>3. CASE ReadMsg
  BY <1>3, ReadMsgCuts DEF IInv
<1>4. CASE Sync
  BY <1>4, SyncCuts DEF IInv
<1>5. CASE UNCHANGED vars
  <2>1. /\ memory' = memory /\ reader' = reader
        /\ writer' = writer /\ filling' = filling
    BY <1>5 DEF vars
  <2>2. TypeOK' /\ HeadsOrdered'
    BY <2>1 DEF IInv, TypeOK, HeadsOrdered, CanSync
  <2>3. ASSUME NEW starts, Cut(starts) PROVE Cut(starts)'
    BY <2>1, <2>3
    DEF Cut, CutAt, FillingIsLast, NoAlias, Id, Length, Intact, Position
  <2> QED BY <2>2, <2>3 DEF IInv
<1> QED BY <1>1, <1>2, <1>3, <1>4, <1>5 DEF Next

THEOREM StreamsInvariant == Spec => []IInv
<1> QED BY InitEstablishes, NextPreserves, PTL DEF Spec

\* Endpoints keep to the buffer and the buffer holds bytes of messages, for every
\* size of buffer, header and message: no length read from the ring can take a
\* head out of 0..BufferSize.
THEOREM StreamsTypeCorrect == Spec => []TypeOK
<1>1. IInv => TypeOK
  BY DEF IInv
<1> QED BY <1>1, StreamsInvariant, PTL

\* The writer never passes nor reaches the reader, however stale the heads the two
\* see of each other (streamCreateMsg, streamSyncStreams).
THEOREM HeadsStayOrdered == Spec => []HeadsOrdered
<1>1. IInv => HeadsOrdered
  BY DEF IInv
<1> QED BY <1>1, StreamsInvariant, PTL

\* What streamReadMsg is about to read is one whole header of a message that was
\* published in full.
THEOREM ReaderFindsPublishedMessage == Spec => []NextMessagePublished
<1>1. IInv => NextMessagePublished
  <2> SUFFICES ASSUME IInv, CanRead(reader)
               PROVE  /\ NextLength(memory, reader) >= HeaderSize
                      /\ NextLength(memory, reader)
                           <= Ahead(reader.cur_offset, reader.write_offset)
                      /\ \E id \in Ids :
                           Stored(memory, reader.cur_offset, id,
                                  NextLength(memory, reader), HeaderSize)
    BY DEF NextMessagePublished
  <2> PICK starts : Cut(starts)
    BY DEF IInv
  <2> DEFINE r == reader.cur_offset
             wp == reader.write_offset
             rp == reader.read_offset
  <2>0. TypeOK /\ HeadsOrdered
    BY DEF IInv
  <2>1. r \in starts /\ Position(r) + Length(r) <= Position(wp)
    BY <2>0, HeadAtMessage
  <2>2. NextLength(memory, reader) = Length(r)
    BY DEF NextLength, Length
  <2>3. Ahead(r, wp) = Ahead(rp, wp) - Ahead(rp, r)
    <3>1. /\ r \in Offsets /\ wp \in Offsets /\ rp \in Offsets
          /\ Ahead(rp, r) <= Ahead(rp, wp) /\ Ahead(rp, wp) < BufferSize
      BY <2>0, HeadPositions, StreamConstants DEF Position
    <3>2. (r = 0 => rp = 0) /\ (wp = 0 => r = 0)
      BY <2>0 DEF HeadsOrdered
    <3> QED BY <3>1, <3>2, AheadFrom
  <2>4. Length(r) \in Nat /\ Ahead(rp, r) \in Nat /\ Ahead(rp, wp) \in Nat
    BY <2>0, <2>1, StartFacts, HeadPositions DEF Position
  <2>5. Length(r) <= Ahead(r, wp)
    BY <2>1, <2>3, <2>4 DEF Position
  <2>6. /\ Length(r) >= HeaderSize /\ Id(r) \in Ids
        /\ Stored(memory, r, Id(r), Length(r), HeaderSize)
    BY <2>1 DEF Cut, CutAt
  <2> QED BY <2>2, <2>5, <2>6
<1> QED BY <1>1, StreamsInvariant, PTL

\* No message is overwritten before its space was given back.
THEOREM LiveMessagesStayIntact == Spec => []LiveMessagesIntact
<1>1. IInv => LiveMessagesIntact
  <2> SUFFICES ASSUME IInv PROVE LiveMessagesIntact
    OBVIOUS
  <2> PICK starts : Cut(starts)
    BY DEF IInv
  <2> QED BY DEF Cut, LiveMessagesIntact
<1> QED BY <1>1, StreamsInvariant, PTL

-----------------------------------------------------------------------------
\* Messages as the chain of headers spells them: the chain from an offset, given the
\* chains with one message less.
Link(mem, at, rest) ==
  LET next == Wrap(at + mem[Cell(at)].length)
  IN  << MessageAt(mem, at) >> \o (IF next \in Offsets THEN rest[next] ELSE << >>)

\* Offsets each of which is where the header at the one before leads, up to a last one
\* that is none of the others, are where the messages between the first and the last
\* are.
HeadersLead(mem, g, k) ==
  /\ g \in [0..k -> Offsets]
  /\ \A n \in 1..k : g[n] = Wrap(g[n - 1] + mem[Cell(g[n - 1])].length)
  /\ \A n \in 0..(k - 1) : g[n] # g[k]

LEMMA HeadersSpelled ==
  ASSUME NEW mem, NEW k \in 0..BufferSize, NEW g, HeadersLead(mem, g, k)
  PROVE  MessagesBetween(mem, g[0], g[k]) = [n \in 1..k |-> MessageAt(mem, g[n - 1])]
<1> DEFINE item == [at \in Offsets |-> MessageAt(mem, at)]
           next == [at \in Offsets |-> Wrap(at + mem[Cell(at)].length)]
           to   == g[k]
           IsChain(f) ==
             f = [fuel \in 0..BufferSize |->
                    [at \in Offsets |-> IF at = to \/ fuel = 0 THEN << >>
                                        ELSE Link(mem, at, f[fuel - 1])]]
           chain == CHOOSE f : IsChain(f)
<1>0. BufferSize \in Nat /\ \A n \in 1..k : n - 1 \in 0..k
  BY StreamConstants
<1>1. MessagesBetween(mem, g[0], to) = chain[BufferSize][g[0]]
  BY DEF MessagesBetween, Link
<1>2. Walk(g, k, Offsets, next, g[0], to)
  <2>1. \A n \in 1..k : g[n] = next[g[n - 1]]
    BY <1>0 DEF HeadersLead
  <2> QED BY <2>1 DEF Walk, HeadersLead
<1>3. \A rest : \A at \in Offsets : Link(mem, at, rest) = ItemThenRest(Offsets, item, next, at, rest)
  BY DEF Link, ItemThenRest
<1>4. Along(item, g, k) = [n \in 1..k |-> MessageAt(mem, g[n - 1])]
  BY <1>0 DEF Along, HeadersLead
<1> HIDE DEF item, next, to
<1>5. ASSUME NEW f PROVE IsChain(f) <=> Links(f, BufferSize, Offsets, item, next, to)
  BY <1>3 DEF Links
<1>6. \E f : IsChain(f)
  <2>1. \E f : Links(f, BufferSize, Offsets, item, next, to)
    BY <1>0, LinksExist
  <2> HIDE DEF IsChain
  <2> QED BY <1>5, <2>1
<1>7. IsChain(chain)
  <2> HIDE DEF IsChain
  <2> QED BY <1>6
<1>8. Links(chain, BufferSize, Offsets, item, next, to)
  BY <1>5, <1>7
<1> HIDE DEF chain
<1>9. chain[BufferSize][g[0]] = Along(item, g, k)
  <2> PICK from : from = g[0]
    OBVIOUS
  <2> HIDE DEF IsChain
  <2>1. Walk(g, k, Offsets, next, from, to)
    BY <1>2
  <2>2. chain[BufferSize][from] = Along(item, g, k)
    BY <1>0, <1>8, <2>1, LinksSpelled
  <2> QED BY <2>2
<1> QED BY <1>1, <1>4, <1>9 DEF to

-----------------------------------------------------------------------------
\* The bytes of a sequence of messages are those before the end of the last.
Sized == [id : Ids \cup {EmptyId}, length : Nat]

LEMMA BytesCounted ==
  ASSUME NEW s \in Seq(Sized), NEW end \in [0..Len(s) -> Nat], end[0] = 0,
         \A n \in 1..Len(s) : end[n] = end[n - 1] + s[n].length
  PROVE  Channel!BytesIn(s) = end[Len(s)]
<1> DEFINE N == Len(s)
           IsSum(f) == f = [n \in 0..N |-> IF n = 0 THEN 0 ELSE f[n - 1] + s[n].length]
           sum == CHOOSE f : IsSum(f)
<1>0. N \in Nat
  OBVIOUS
<1>1. Channel!BytesIn(s) = sum[N]
  BY DEF Channel!BytesIn
<1> HIDE DEF N
<1>2. IsSum(end)
  <2>1. end \in [0..N -> Nat]
    BY DEF N
  <2>2. ASSUME NEW n \in 0..N PROVE end[n] = IF n = 0 THEN 0 ELSE end[n - 1] + s[n].length
    BY <1>0 DEF N
  <2> QED BY <2>1, <2>2
<1>3. IsSum(sum)
  <2> HIDE DEF IsSum
  <2> QED BY <1>2
<1> HIDE DEF sum
<1>4. \A n \in 0..N : sum[n] = IF n = 0 THEN 0 ELSE sum[n - 1] + s[n].length
  BY <1>3
<1> DEFINE holds == {n \in 0..N : sum[n] = end[n]}
<1>5. 0 \in holds
  BY <1>0, <1>4
<1>6. ASSUME NEW n \in 1..N, n - 1 \in holds PROVE n \in holds
  BY <1>0, <1>4, <1>6 DEF N
<1>7. N \in holds
  <2> HIDE DEF holds
  <2>1. 0..N \subseteq holds
    BY <1>0, <1>5, <1>6, UpTo
  <2> QED BY <1>0, <2>1
<1> QED BY <1>1, <1>7 DEF N

-----------------------------------------------------------------------------
\* The offsets in a ring's live part at which messages start, in order, and the one
\* where the last message ends.
LengthAt(mem, at) == mem[Cell(at)].length

Chained(mem, N, f) ==
  /\ f \in [0..N -> Offsets]
  /\ \A n \in 0..(N - 1) :
       /\ LengthAt(mem, f[n]) \in Nat \ {0}
       /\ Ahead(f[0], f[n]) + LengthAt(mem, f[n]) < BufferSize
       /\ f[n + 1] = Wrap(f[n] + LengthAt(mem, f[n]))

LEMMA ChainedMoves ==
  ASSUME NEW mem, NEW N \in Nat, NEW f, Chained(mem, N, f)
  PROVE  /\ \A n \in 0..N : Ahead(f[0], f[n]) \in Nat /\ Ahead(f[0], f[n]) <= BufferSize
         /\ Ahead(f[0], f[0]) = 0
         /\ \A n \in 0..(N - 1) :
              Ahead(f[0], f[n + 1]) = Ahead(f[0], f[n]) + LengthAt(mem, f[n])
<1>1. \A n \in 0..N : f[n] \in Offsets
  BY DEF Chained
<1>2. 0 \in 0..N /\ f[0] \in Offsets
  BY <1>1
<1>3. \A a, b \in Offsets : /\ Ahead(a, b) \in Nat /\ Ahead(a, b) <= BufferSize
                            /\ Ahead(a, a) = 0
  BY StreamConstants DEF Offsets, Ahead
<1>4. ASSUME NEW n \in 0..(N - 1)
      PROVE  Ahead(f[0], f[n + 1]) = Ahead(f[0], f[n]) + LengthAt(mem, f[n])
  <2>1. /\ f[n] \in Offsets
        /\ LengthAt(mem, f[n]) \in Nat \ {0}
        /\ Ahead(f[0], f[n]) + LengthAt(mem, f[n]) < BufferSize
        /\ f[n + 1] = Wrap(f[n] + LengthAt(mem, f[n]))
    BY <1>1 DEF Chained
  <2> QED BY <1>2, <2>1, AheadMoves
<1> QED BY <1>1, <1>2, <1>3, <1>4

\* Each message takes a byte at least.
LEMMA ChainedOrder ==
  ASSUME NEW mem, NEW N \in Nat, NEW f, Chained(mem, N, f), NEW m \in 0..N, NEW n \in m..N
  PROVE  Ahead(f[0], f[m]) + (n - m) <= Ahead(f[0], f[n])
<1> DEFINE place(k) == Ahead(f[0], f[k])
           holds == {k \in 0..N : m <= k => place(m) + (k - m) <= place(k)}
<1>1. \A k \in 0..N : place(k) \in Nat
  BY ChainedMoves
<1>2. \A k \in 0..(N - 1) : /\ place(k + 1) = place(k) + LengthAt(mem, f[k])
                            /\ LengthAt(mem, f[k]) \in Nat \ {0}
  <2>1. \A k \in 0..(N - 1) : LengthAt(mem, f[k]) \in Nat \ {0}
    BY DEF Chained
  <2> QED BY <2>1, ChainedMoves
<1> HIDE DEF place
<1>3. 0 \in holds
  BY <1>1
<1>4. ASSUME NEW k \in 1..N, k - 1 \in holds PROVE k \in holds
  <2>1. /\ k - 1 \in 0..(N - 1) /\ (k - 1) + 1 = k /\ k \in 0..N /\ k - 1 \in 0..N
        /\ m \in Nat /\ k \in Nat
    OBVIOUS
  <2>2. /\ place(k) = place(k - 1) + LengthAt(mem, f[k - 1])
        /\ LengthAt(mem, f[k - 1]) \in Nat \ {0}
    BY <1>2, <2>1
  <2>3. place(k - 1) \in Nat /\ place(k) \in Nat /\ place(m) \in Nat
    BY <1>1, <2>1
  <2>4. CASE m = k
    BY <2>1, <2>3, <2>4
  <2>5. CASE m # k
    BY <1>4, <2>1, <2>2, <2>3, <2>5
  <2> QED BY <2>4, <2>5
<1>5. n \in holds
  <2> HIDE DEF holds
  <2>1. 0..N \subseteq holds
    BY <1>3, <1>4, UpTo
  <2> QED BY <2>1
<1> QED BY <1>5 DEF place

LEMMA ChainedShort ==
  ASSUME NEW mem, NEW N \in Nat, NEW f, Chained(mem, N, f)
  PROVE  /\ N <= BufferSize
         /\ \A m, n \in 0..N : m < n => f[m] # f[n]
<1>1. ASSUME NEW m \in 0..N, NEW n \in 0..N, m < n PROVE f[m] # f[n]
  <2>1. n \in m..N
    BY <1>1
  <2>2. Ahead(f[0], f[m]) + (n - m) <= Ahead(f[0], f[n])
    BY <2>1, ChainedOrder
  <2>3. Ahead(f[0], f[m]) \in Nat
    BY ChainedMoves
  <2> QED BY <1>1, <2>2, <2>3
<1>2. N <= BufferSize
  <2>1. 0 \in 0..N /\ N \in 0..N
    OBVIOUS
  <2>2. Ahead(f[0], f[0]) + (N - 0) <= Ahead(f[0], f[N])
    BY <2>1, ChainedOrder
  <2>3. Ahead(f[0], f[0]) = 0 /\ Ahead(f[0], f[N]) <= BufferSize /\ Ahead(f[0], f[N]) \in Nat
    BY <2>1, ChainedMoves
  <2> QED BY <2>2, <2>3, StreamConstants
<1> QED BY <1>1, <1>2

\* What a channel knows of the messages from the a-th on, up to the b-th.
Message(mem, at) == [id |-> mem[Cell(at)].id, length |-> LengthAt(mem, at)]

Part(mem, f, a, b) == [n \in 1..(b - a) |-> Message(mem, f[a + n - 1])]

ContentsIn(mem, from, to) ==
  LET found == MessagesBetween(mem, from, to)
  IN  [i \in DOMAIN found |-> [id |-> found[i].id, length |-> found[i].length]]

LEMMA ContentsOfChain ==
  ASSUME NEW mem \in [Cells -> Bytes], NEW N \in Nat, NEW f, Chained(mem, N, f),
         NEW a \in 0..N, NEW b \in a..N
  PROVE  ContentsIn(mem, f[a], f[b]) = Part(mem, f, a, b)
<1> DEFINE k == b - a
           g == [n \in 0..k |-> f[a + n]]
<1>1. /\ k \in 0..N /\ a + k = b /\ a + 0 = a
      /\ \A n \in 0..k : a + n \in 0..N
      /\ \A n \in 1..k : /\ a + (n - 1) \in 0..(N - 1) /\ a + (n - 1) + 1 = a + n
                         /\ a + n - 1 = a + (n - 1) /\ n - 1 \in 0..k /\ n \in 0..k
  OBVIOUS
<1>2. k \in 0..BufferSize
  BY <1>1, ChainedShort, StreamConstants
<1>3. g \in [0..k -> Offsets]
  BY <1>1 DEF Chained
<1>4. g[0] = f[a] /\ g[k] = f[b]
  BY <1>1
<1>5. \A n \in 1..k : g[n] = Wrap(g[n - 1] + mem[Cell(g[n - 1])].length)
  BY <1>1 DEF Chained, LengthAt
<1>6. ASSUME NEW n \in 0..(k - 1) PROVE g[n] # g[k]
  <2>1. n \in 0..k /\ k \in 0..k /\ a + n \in 0..N /\ a + k \in 0..N /\ a + n < a + k
    BY <1>1
  <2>2. f[a + n] # f[a + k]
    BY <2>1, ChainedShort
  <2> QED BY <2>1, <2>2
<1>7. \A n \in 1..k : g[n - 1] = f[a + n - 1]
  BY <1>1
<1> HIDE DEF g, k
<1>8. MessagesBetween(mem, f[a], f[b]) = [n \in 1..k |-> MessageAt(mem, g[n - 1])]
  <2>1. HeadersLead(mem, g, k)
    BY <1>3, <1>5, <1>6 DEF HeadersLead
  <2>2. MessagesBetween(mem, g[0], g[k]) = [n \in 1..k |-> MessageAt(mem, g[n - 1])]
    BY <1>2, <2>1, HeadersSpelled
  <2> QED BY <1>4, <2>2
<1>9. ContentsIn(mem, f[a], f[b])
        = [n \in 1..k |-> [id |-> MessageAt(mem, g[n - 1]).id,
                           length |-> MessageAt(mem, g[n - 1]).length]]
  BY <1>8 DEF ContentsIn
<1>10. \A n \in 1..k : [id |-> MessageAt(mem, g[n - 1]).id,
                        length |-> MessageAt(mem, g[n - 1]).length]
                         = Message(mem, f[a + n - 1])
  BY <1>7 DEF MessageAt, Message, LengthAt
<1> QED BY <1>9, <1>10 DEF Part, k

LEMMA PartIsItems ==
  ASSUME NEW mem \in [Cells -> Bytes], NEW N \in Nat, NEW f, Chained(mem, N, f)
  PROVE  \E g \in [0..(N - 1) -> Sized] :
           /\ \A n \in 0..(N - 1) : g[n] = Message(mem, f[n])
           /\ \A a \in 0..N : \A b \in a..N : Part(mem, f, a, b) = Items(g, a, b)
<1> DEFINE g == [n \in 0..(N - 1) |-> Message(mem, f[n])]
<1>1. ASSUME NEW n \in 0..(N - 1) PROVE Message(mem, f[n]) \in Sized
  <2>1. f[n] \in Offsets
    BY DEF Chained
  <2>2. mem[Cell(f[n])] \in Bytes
    BY <2>1, CellOfOffset
  <2> QED BY <2>2 DEF Message, LengthAt, Bytes, Sized
<1>2. ASSUME NEW a \in 0..N, NEW b \in a..N PROVE Part(mem, f, a, b) = Items(g, a, b)
  <2>1. \A n \in 1..(b - a) : a + n - 1 \in 0..(N - 1)
    OBVIOUS
  <2> QED BY <2>1 DEF Part, Items
<1>3. g \in [0..(N - 1) -> Sized] /\ \A n \in 0..(N - 1) : g[n] = Message(mem, f[n])
  BY <1>1
<1> QED BY <1>2, <1>3

LEMMA PartType ==
  ASSUME NEW mem \in [Cells -> Bytes], NEW N \in Nat, NEW f, Chained(mem, N, f),
         NEW a \in 0..N, NEW b \in a..N
  PROVE  Part(mem, f, a, b) \in Seq(Sized) /\ Len(Part(mem, f, a, b)) = b - a
<1> PICK g \in [0..(N - 1) -> Sized] :
      \A x \in 0..N : \A y \in x..N : Part(mem, f, x, y) = Items(g, x, y)
  BY PartIsItems
<1>1. Items(g, a, b) \in Seq(Sized) /\ Len(Items(g, a, b)) = b - a
  BY ItemsType
<1> QED BY <1>1

LEMMA BytesOfChain ==
  ASSUME NEW mem \in [Cells -> Bytes], NEW N \in Nat, NEW f, Chained(mem, N, f)
  PROVE  Channel!BytesIn(Part(mem, f, 0, N)) = Ahead(f[0], f[N])
<1> DEFINE s == Part(mem, f, 0, N)
           end == [n \in 0..N |-> Ahead(f[0], f[n])]
<1>1. s \in Seq(Sized) /\ Len(s) = N
  <2>1. 0 \in 0..N /\ N \in 0..N /\ N - 0 = N
    OBVIOUS
  <2> QED BY <2>1, PartType
<1>2. end \in [0..N -> Nat] /\ end[0] = 0 /\ end[N] = Ahead(f[0], f[N])
  <2>1. 0 \in 0..N /\ N \in 0..N
    OBVIOUS
  <2> QED BY <2>1, ChainedMoves
<1>3. ASSUME NEW n \in 1..N PROVE end[n] = end[n - 1] + s[n].length
  <2>1. /\ n - 1 \in 0..(N - 1) /\ (n - 1) + 1 = n /\ n \in 0..N /\ n - 1 \in 0..N
        /\ 0 + n - 1 = n - 1 /\ n \in 1..(N - 0)
    OBVIOUS
  <2>2. s[n].length = LengthAt(mem, f[n - 1])
    BY <2>1 DEF Part, Message
  <2>3. Ahead(f[0], f[(n - 1) + 1]) = Ahead(f[0], f[n - 1]) + LengthAt(mem, f[n - 1])
    BY <2>1, ChainedMoves
  <2>4. end[n] = Ahead(f[0], f[n]) /\ end[n - 1] = Ahead(f[0], f[n - 1])
    BY <2>1
  <2> HIDE DEF s, end
  <2> QED BY <2>1, <2>2, <2>3, <2>4
<1> HIDE DEF s, end
<1>4. Channel!BytesIn(s) = end[Len(s)]
  BY <1>1, <1>2, <1>3, BytesCounted
<1> QED BY <1>1, <1>2, <1>4 DEF s

\* Parts side by side.
LEMMA PartsJoin ==
  ASSUME NEW mem \in [Cells -> Bytes], NEW N \in Nat, NEW f, Chained(mem, N, f),
         NEW a \in 0..N, NEW b \in a..N, NEW c \in b..N
  PROVE  Part(mem, f, a, b) \o Part(mem, f, b, c) = Part(mem, f, a, c)
<1> PICK g \in [0..(N - 1) -> Sized] :
      \A x \in 0..N : \A y \in x..N : Part(mem, f, x, y) = Items(g, x, y)
  BY PartIsItems
<1>1. b \in 0..N /\ c \in a..N
  OBVIOUS
<1>2. Items(g, a, b) \o Items(g, b, c) = Items(g, a, c)
  BY ItemsJoin
<1> QED BY <1>1, <1>2

\* One message more at the end, and one less at the start.
LEMMA PartLonger ==
  ASSUME NEW mem \in [Cells -> Bytes], NEW N \in Nat, NEW f, Chained(mem, N, f),
         NEW a \in 0..N, NEW b \in a..(N - 1)
  PROVE  Part(mem, f, a, b + 1) = Append(Part(mem, f, a, b), Message(mem, f[b]))
<1> PICK g \in [0..(N - 1) -> Sized] :
      /\ \A n \in 0..(N - 1) : g[n] = Message(mem, f[n])
      /\ \A x \in 0..N : \A y \in x..N : Part(mem, f, x, y) = Items(g, x, y)
  BY PartIsItems
<1>1. b \in a..N /\ b + 1 \in a..N /\ b \in 0..(N - 1)
  OBVIOUS
<1>2. Items(g, a, b + 1) = Append(Items(g, a, b), g[b])
  BY ItemsLonger
<1> QED BY <1>1, <1>2

LEMMA PartShorter ==
  ASSUME NEW mem \in [Cells -> Bytes], NEW N \in Nat, NEW f, Chained(mem, N, f),
         NEW a \in 0..N, NEW b \in (a + 1)..N
  PROVE  /\ Part(mem, f, a, b) # << >>
         /\ Head(Part(mem, f, a, b)) = Message(mem, f[a])
         /\ Tail(Part(mem, f, a, b)) = Part(mem, f, a + 1, b)
<1> PICK g \in [0..(N - 1) -> Sized] :
      /\ \A n \in 0..(N - 1) : g[n] = Message(mem, f[n])
      /\ \A x \in 0..N : \A y \in x..N : Part(mem, f, x, y) = Items(g, x, y)
  BY PartIsItems
<1>1. b \in a..N /\ a + 1 \in 0..N /\ b \in (a + 1)..N /\ a \in 0..(N - 1)
  OBVIOUS
<1>2. /\ Items(g, a, b) # << >> /\ Head(Items(g, a, b)) = g[a]
      /\ Tail(Items(g, a, b)) = Items(g, a + 1, b)
  BY ItemsShorter
<1> QED BY <1>1, <1>2

-----------------------------------------------------------------------------
\* The heads are among the offsets at which messages start: the i-th is the reader's, the
\* j-th the public write head, the last the writer's.
Numbered(starts, N, f, i, j) ==
  /\ Chained(memory, N, f)
  /\ \A n \in 0..(N - 1) : f[n] \in starts
  /\ f[0] = reader.read_offset /\ f[i] = reader.cur_offset
  /\ f[j] = reader.write_offset /\ f[N] = writer.cur_offset

Counted ==
  \E starts : /\ Cut(starts)
              /\ \E N \in Nat : \E f : \E i \in 0..N : \E j \in i..N : Numbered(starts, N, f, i, j)

RInv == TypeOK /\ HeadsOrdered /\ Counted

\* What the channel holds, by number.
Holds(mem, N, f, i, j, given, ready, pending) ==
  /\ given = Part(mem, f, 0, i) /\ ready = Part(mem, f, i, j) /\ pending = Part(mem, f, j, N)

Held == Contents(reader.read_offset, reader.cur_offset)
Ready == Contents(reader.cur_offset, reader.write_offset)
Pending == Contents(reader.write_offset, writer.cur_offset)

LEMMA ChainHolds ==
  ASSUME NEW mem \in [Cells -> Bytes], NEW N \in Nat, NEW f, Chained(mem, N, f),
         NEW i \in 0..N, NEW j \in i..N
  PROVE  Holds(mem, N, f, i, j, ContentsIn(mem, f[0], f[i]), ContentsIn(mem, f[i], f[j]),
               ContentsIn(mem, f[j], f[N]))
<1>1. \A a \in 0..N : \A b \in a..N : ContentsIn(mem, f[a], f[b]) = Part(mem, f, a, b)
  BY ContentsOfChain
<1>2. 0 \in 0..N /\ i \in 0..N /\ j \in i..N /\ j \in 0..N /\ N \in j..N
  OBVIOUS
<1> QED BY <1>1, <1>2 DEF Holds

LEMMA NumberedHolds ==
  ASSUME TypeOK, NEW starts, NEW N \in Nat, NEW f, NEW i \in 0..N, NEW j \in i..N,
         Numbered(starts, N, f, i, j)
  PROVE  Holds(memory, N, f, i, j, Held, Ready, Pending)
<1>1. memory \in [Cells -> Bytes] /\ Chained(memory, N, f)
  BY DEF TypeOK, Numbered
<1>2. Holds(memory, N, f, i, j, ContentsIn(memory, f[0], f[i]),
            ContentsIn(memory, f[i], f[j]), ContentsIn(memory, f[j], f[N]))
  BY <1>1, ChainHolds
<1> QED BY <1>2 DEF Numbered, Held, Ready, Pending, Contents, ContentsIn

LEMMA NumberedHoldsNext ==
  ASSUME TypeOK', NEW starts, NEW N \in Nat, NEW f, NEW i \in 0..N, NEW j \in i..N,
         Numbered(starts, N, f, i, j)'
  PROVE  Holds(memory', N, f, i, j, Held', Ready', Pending')
<1>1. memory' \in [Cells -> Bytes] /\ Chained(memory', N, f)
  BY DEF TypeOK, Numbered
<1> DEFINE mem == memory'
<1>2. Holds(memory', N, f, i, j, ContentsIn(memory', f[0], f[i]),
            ContentsIn(memory', f[i], f[j]), ContentsIn(memory', f[j], f[N]))
  <2> HIDE DEF mem
  <2>1. mem \in [Cells -> Bytes] /\ Chained(mem, N, f)
    BY <1>1 DEF mem
  <2>2. Holds(mem, N, f, i, j, ContentsIn(mem, f[0], f[i]),
              ContentsIn(mem, f[i], f[j]), ContentsIn(mem, f[j], f[N]))
    BY <2>1, ChainHolds
  <2> QED BY <2>2 DEF mem
<1> QED BY <1>2 DEF Numbered, Held, Ready, Pending, Contents, ContentsIn

\* Messages that stay where they are stay what they are.
LEMMA PartsStay ==
  ASSUME NEW mem, NEW mem2, NEW f, NEW f2, NEW a \in Nat, NEW b \in Nat, NEW by \in Nat,
         \A n \in a..(b - 1) : Message(mem2, f2[n]) = Message(mem, f[n + by])
  PROVE  Part(mem2, f2, a, b) = Part(mem, f, a + by, b + by)
<1>1. /\ (b + by) - (a + by) = b - a
      /\ \A n \in 1..(b - a) : a + n - 1 \in a..(b - 1) /\ (a + n - 1) + by = a + by + n - 1
  OBVIOUS
<1>2. \A n \in 1..(b - a) : Message(mem2, f2[a + n - 1]) = Message(mem, f[a + by + n - 1])
  BY <1>1
<1> QED BY <1>1, <1>2 DEF Part

\* The steps.
LEMMA InitCounted == Init => RInv /\ Channel!Init
<1> SUFFICES ASSUME Init PROVE RInv /\ Channel!Init
  OBVIOUS
<1>1. TypeOK /\ HeadsOrdered
  BY InitEstablishes DEF IInv
<1>2. Cut({})
  BY DEF Init, Cut, CutAt, FillingIsLast, NoAlias, NewEndpoint
<1> DEFINE f == [n \in 0..0 |-> 0]
<1>3. Numbered({}, 0, f, 0, 0)
  <2>1. f \in [0..0 -> Offsets] /\ f[0] = 0
    BY StreamConstants DEF Offsets
  <2>2. reader = NewEndpoint /\ writer = NewEndpoint
    BY DEF Init
  <2>3. (0..(0 - 1)) = {}
    OBVIOUS
  <2> HIDE DEF f
  <2> QED BY <2>1, <2>2, <2>3 DEF Numbered, Chained, NewEndpoint
<1> HIDE DEF f
<1>4. 0 \in Nat /\ 0 \in 0..0
  OBVIOUS
<1>5. RInv
  <2>1. \E N \in Nat : \E g : \E i \in 0..N : \E j \in i..N : Numbered({}, N, g, i, j)
    BY <1>3, <1>4
  <2> QED BY <1>1, <1>2, <2>1 DEF RInv, Counted
<1>6. Holds(memory, 0, f, 0, 0, Held, Ready, Pending)
  BY <1>1, <1>3, <1>4, NumberedHolds
<1>7. Part(memory, f, 0, 0) = << >>
  BY DEF Part
<1> QED BY <1>5, <1>6, <1>7 DEF Holds, Channel!Init, Held, Ready, Pending

LEMMA FillBodyCounted ==
  ASSUME TypeOK, HeadsOrdered, NEW starts, Cut(starts),
         NEW N \in Nat, NEW f, NEW i \in 0..N, NEW j \in i..N, Numbered(starts, N, f, i, j),
         FillBody
  PROVE  Numbered(starts, N, f, i, j)' /\ UNCHANGED << Held, Ready, Pending >>
<1>1. TypeOK' /\ HeadersStay(starts)
  BY FillBodyCuts
<1>2. \A n \in 0..(N - 1) : f[n] \in starts
  BY DEF Numbered
<1>3. \A n \in 0..(N - 1) : /\ Message(memory', f[n]) = Message(memory, f[n])
                            /\ LengthAt(memory', f[n]) = LengthAt(memory, f[n])
  BY <1>1, <1>2 DEF HeadersStay, Id, Length, Message, LengthAt
<1>4. reader' = reader /\ writer' = writer
  BY DEF FillBody
<1>5. Numbered(starts, N, f, i, j)'
  BY <1>3, <1>4 DEF Numbered, Chained
<1>6. \A a, b \in 0..N : Part(memory', f, a, b) = Part(memory, f, a, b)
  <2> SUFFICES ASSUME NEW a \in 0..N, NEW b \in 0..N
               PROVE  Part(memory', f, a, b) = Part(memory, f, a, b)
    OBVIOUS
  <2>1. \A n \in 1..(b - a) : a + n - 1 \in 0..(N - 1)
    OBVIOUS
  <2> QED BY <1>3, <2>1 DEF Part
<1>7. Holds(memory, N, f, i, j, Held, Ready, Pending)
  BY NumberedHolds
<1>8. Holds(memory', N, f, i, j, Held', Ready', Pending')
  BY <1>1, <1>5, NumberedHoldsNext
<1> QED BY <1>5, <1>6, <1>7, <1>8 DEF Holds

\* streamReadMsg is the channel's Read.
LEMMA ReadMsgCounted ==
  ASSUME TypeOK, HeadsOrdered, NEW starts, Cut(starts),
         NEW N \in Nat, NEW f, NEW i \in 0..N, NEW j \in i..N, Numbered(starts, N, f, i, j),
         ReadMsg
  PROVE  i + 1 \in 0..N /\ j \in (i + 1)..N /\ Numbered(starts, N, f, i + 1, j)' /\ Channel!Read
<1>1. TypeOK'
  BY ReadMsgCuts
<1>2. /\ memory \in [Cells -> Bytes] /\ Chained(memory, N, f)
      /\ f[i] = reader.cur_offset /\ f[j] = reader.write_offset
      /\ reader \in Endpoints
  BY DEF Numbered, TypeOK
<1>3. i < j
  BY <1>2 DEF ReadMsg, CanRead
<1>4. /\ i \in 0..(N - 1) /\ i + 1 \in 0..N /\ j \in (i + 1)..N /\ j \in i..N /\ 0 \in 0..N
      /\ i \in 0..N /\ i \in 0..(N - 1)
  BY <1>3
<1>5. /\ memory' = memory /\ writer' = writer
      /\ reader' = [reader EXCEPT !.cur_offset = Wrap(f[i] + LengthAt(memory, f[i]))]
  BY <1>2 DEF ReadMsg, AfterRead, NextLength, LengthAt
<1>6. f[i + 1] = reader'.cur_offset
  <2>1. f[i + 1] = Wrap(f[i] + LengthAt(memory, f[i]))
    BY <1>2, <1>4 DEF Chained
  <2> QED BY <1>2, <1>5, <2>1 DEF Endpoints
<1>7. Numbered(starts, N, f, i + 1, j)'
  BY <1>2, <1>5, <1>6 DEF Numbered, Endpoints
<1>8. Holds(memory, N, f, i, j, Held, Ready, Pending)
  BY NumberedHolds
<1>9. Holds(memory, N, f, i + 1, j, Held', Ready', Pending')
  <2> DEFINE k == i + 1
  <2>1. k \in 0..N /\ j \in k..N /\ Numbered(starts, N, f, k, j)'
    BY <1>4, <1>7
  <2> HIDE DEF k
  <2>2. Holds(memory', N, f, k, j, Held', Ready', Pending')
    BY <1>1, <2>1, NumberedHoldsNext
  <2> QED BY <1>5, <2>2 DEF k
<1>10. /\ Part(memory, f, i, j) # << >>
       /\ Head(Part(memory, f, i, j)) = Message(memory, f[i])
       /\ Tail(Part(memory, f, i, j)) = Part(memory, f, i + 1, j)
  BY <1>2, <1>4, PartShorter
<1>11. Part(memory, f, 0, i + 1) = Append(Part(memory, f, 0, i), Message(memory, f[i]))
  BY <1>2, <1>4, PartLonger
<1>12. /\ Ready # << >> /\ Held' = Append(Held, Head(Ready)) /\ Ready' = Tail(Ready)
       /\ Pending' = Pending
  BY <1>8, <1>9, <1>10, <1>11 DEF Holds
<1> QED BY <1>4, <1>7, <1>12 DEF Channel!Read, Held, Ready, Pending

\* A chain without its first messages, and one with a message more.
LEMMA ChainedFrom ==
  ASSUME NEW mem, NEW N \in Nat, NEW f, Chained(mem, N, f), NEW i \in 0..N,
         f[i] = 0 => f[0] = 0
  PROVE  Chained(mem, N - i, [n \in 0..(N - i) |-> f[i + n]])
<1> DEFINE M == N - i
           g == [n \in 0..M |-> f[i + n]]
<1>1. /\ M \in Nat /\ 0 \in 0..M /\ i + 0 = i
      /\ \A n \in 0..M : i + n \in 0..N
      /\ \A n \in 0..(M - 1) : /\ i + n \in 0..(N - 1) /\ n + 1 \in 0..M /\ n \in 0..M
                               /\ i + (n + 1) = (i + n) + 1 /\ i + n \in i..N
  OBVIOUS
<1>2. f \in [0..N -> Offsets]
  BY DEF Chained
<1>3. g \in [0..M -> Offsets] /\ g[0] = f[i]
  BY <1>1, <1>2
<1>4. ASSUME NEW n \in 0..(M - 1)
      PROVE  /\ LengthAt(mem, g[n]) \in Nat \ {0}
             /\ Ahead(g[0], g[n]) + LengthAt(mem, g[n]) < BufferSize
             /\ g[n + 1] = Wrap(g[n] + LengthAt(mem, g[n]))
  <2> DEFINE k == i + n
  <2>1. g[n] = f[k] /\ g[n + 1] = f[k + 1] /\ k \in 0..(N - 1) /\ k \in i..N /\ k \in 0..N
    BY <1>1
  <2>2. k # i => k - 1 \in 0..(N - 1) /\ (k - 1) + 1 = k
    BY <1>1
  <2> HIDE DEF k, g
  <2>3. /\ LengthAt(mem, f[k]) \in Nat \ {0}
        /\ Ahead(f[0], f[k]) + LengthAt(mem, f[k]) < BufferSize
        /\ f[k + 1] = Wrap(f[k] + LengthAt(mem, f[k]))
    BY <2>1 DEF Chained
  <2>4. /\ 0 \in 0..N /\ f[0] \in Offsets /\ f[i] \in Offsets /\ f[k] \in Offsets
    BY <1>2, <2>1
  <2>5. f[k] = 0 => f[i] = 0
    <3>1. CASE k = i
      BY <3>1
    <3>2. CASE k # i
      <4> DEFINE h == k - 1
      <4>1. h \in 0..(N - 1) /\ h \in 0..N /\ h + 1 = k
        BY <2>2, <3>2
      <4> HIDE DEF h
      <4>2. /\ LengthAt(mem, f[h]) \in Nat \ {0}
            /\ Ahead(f[0], f[h]) + LengthAt(mem, f[h]) < BufferSize
            /\ f[h + 1] = Wrap(f[h] + LengthAt(mem, f[h]))
            /\ f[h] \in Offsets
        BY <1>2, <4>1 DEF Chained
      <4>3. Wrap(f[h] + LengthAt(mem, f[h])) \in Offsets \ {0}
        BY <2>4, <4>2, AheadMoves
      <4> QED BY <4>1, <4>2, <4>3
    <3> QED BY <3>1, <3>2
  <2>6. /\ Ahead(f[0], f[i]) + (k - i) <= Ahead(f[0], f[k])
        /\ Ahead(f[0], f[i]) \in Nat /\ Ahead(f[0], f[k]) \in Nat
    BY <2>1, ChainedOrder, ChainedMoves
  <2>7. /\ Ahead(f[0], f[i]) <= Ahead(f[0], f[k])
        /\ Ahead(f[0], f[k]) < BufferSize
    BY <2>1, <2>3, <2>6, StreamConstants
  <2>8. Ahead(f[i], f[k]) = Ahead(f[0], f[k]) - Ahead(f[0], f[i])
    BY <2>4, <2>5, <2>7, AheadFrom
  <2>9. Ahead(f[i], f[k]) + LengthAt(mem, f[k]) < BufferSize
    BY <2>3, <2>6, <2>8, StreamConstants
  <2> QED BY <1>3, <2>1, <2>3, <2>9
<1> QED BY <1>3, <1>4 DEF Chained

Longer(f, N, last) == [n \in 0..(N + 1) |-> IF n = N + 1 THEN last ELSE f[n]]

LEMMA ChainedLonger ==
  ASSUME NEW mem, NEW mem2, NEW N \in Nat, NEW f, Chained(mem, N, f),
         \A n \in 0..(N - 1) : LengthAt(mem2, f[n]) = LengthAt(mem, f[n]),
         NEW length \in Nat \ {0}, LengthAt(mem2, f[N]) = length,
         Ahead(f[0], f[N]) + length < BufferSize
  PROVE  Chained(mem2, N + 1, Longer(f, N, Wrap(f[N] + length)))
<1> DEFINE last == Wrap(f[N] + length)
           g == Longer(f, N, last)
<1>1. /\ f \in [0..N -> Offsets] /\ 0 \in 0..N /\ N \in 0..N
      /\ f[0] \in Offsets /\ f[N] \in Offsets
  BY DEF Chained
<1>2. last \in Offsets
  BY <1>1, AheadMoves
<1>3. /\ g[N + 1] = last /\ \A n \in 0..N : g[n] = f[n]
      /\ g \in [0..(N + 1) -> Offsets]
  <2> HIDE DEF last
  <2>1. \A n \in 0..N : n \in 0..(N + 1) /\ n # N + 1
    OBVIOUS
  <2>2. N + 1 \in 0..(N + 1) /\ \A n \in 0..(N + 1) : n # N + 1 => n \in 0..N
    OBVIOUS
  <2> QED BY <1>1, <1>2, <2>1, <2>2 DEF Longer
<1>4. ASSUME NEW n \in 0..((N + 1) - 1)
      PROVE  /\ LengthAt(mem2, g[n]) \in Nat \ {0}
             /\ Ahead(g[0], g[n]) + LengthAt(mem2, g[n]) < BufferSize
             /\ g[n + 1] = Wrap(g[n] + LengthAt(mem2, g[n]))
  <2>1. n \in 0..N /\ g[n] = f[n] /\ g[0] = f[0]
    BY <1>1, <1>3
  <2>2. CASE n = N
    BY <1>3, <2>1, <2>2
  <2>3. CASE n # N
    <3>1. n \in 0..(N - 1) /\ n + 1 \in 0..N
      BY <2>3
    <3>2. g[n + 1] = f[n + 1] /\ LengthAt(mem2, g[n]) = LengthAt(mem, f[n])
      BY <1>3, <2>1, <3>1
    <3> HIDE DEF g, last
    <3> QED BY <2>1, <3>1, <3>2 DEF Chained
  <2> QED BY <2>2, <2>3
<1> HIDE DEF g, last
<1>5. Chained(mem2, N + 1, g)
  BY <1>3, <1>4 DEF Chained
<1> QED BY <1>5 DEF g, last

\* streamSyncStreams is the channel's Publish.
LEMMA SyncCounted ==
  ASSUME TypeOK, HeadsOrdered, NEW starts, Cut(starts), NEW kept, kept = Kept(starts),
         NEW N \in Nat, NEW f, NEW i \in 0..N, NEW j \in i..N, Numbered(starts, N, f, i, j),
         NEW M, M = N - i, NEW g, g = [n \in 0..M |-> f[i + n]],
         Sync
  PROVE  /\ M \in Nat /\ 0 \in 0..M /\ M \in 0..M
         /\ Numbered(kept, M, g, 0, M)' /\ Channel!Publish
<1>1. TypeOK'
  BY SyncCuts
<1>2. /\ memory \in [Cells -> Bytes] /\ Chained(memory, N, f)
      /\ \A n \in 0..(N - 1) : f[n] \in starts
      /\ f[0] = reader.read_offset /\ f[i] = reader.cur_offset
      /\ f[j] = reader.write_offset /\ f[N] = writer.cur_offset
      /\ reader \in Endpoints /\ writer \in Endpoints
  BY DEF Numbered, TypeOK
<1>3. /\ memory' = memory
      /\ reader'.read_offset = f[i] /\ reader'.cur_offset = f[i]
      /\ reader'.write_offset = f[N] /\ writer'.cur_offset = f[N]
  BY <1>2 DEF Sync, Publish, Endpoints
<1>4. /\ M \in Nat /\ 0 \in 0..M /\ M \in 0..M /\ i + 0 = i /\ i + M = N
      /\ 0 \in 0..N /\ N \in j..N /\ j \in 0..N /\ N \in i..N /\ N \in 0..N /\ i \in i..N
      /\ \A n \in 0..(M - 1) : i + n \in 0..(N - 1) /\ i + n \in i..N /\ n \in 0..M
  OBVIOUS
<1>5. Chained(memory, M, g)
  <2>1. f[i] = 0 => f[0] = 0
    BY <1>2 DEF HeadsOrdered
  <2> QED BY <1>2, <2>1, ChainedFrom
<1>6. g[0] = f[i] /\ g[M] = f[N] /\ \A n \in 0..(M - 1) : g[n] = f[i + n]
  BY <1>4
<1>7. ASSUME NEW n \in 0..(M - 1) PROVE g[n] \in kept
  <2> DEFINE k == i + n
  <2>1. g[n] = f[k] /\ k \in 0..(N - 1) /\ k \in i..N /\ k \in 0..N
    BY <1>4, <1>6
  <2> HIDE DEF k
  <2>2. /\ Ahead(f[0], f[i]) + (k - i) <= Ahead(f[0], f[k])
        /\ Ahead(f[0], f[i]) \in Nat /\ Ahead(f[0], f[k]) \in Nat
    BY <1>2, <2>1, ChainedOrder, ChainedMoves
  <2>3. Ahead(f[0], f[k]) >= Ahead(f[0], f[i])
    BY <2>1, <2>2
  <2>4. f[k] \in starts
    BY <1>2, <2>1
  <2> QED BY <1>2, <2>1, <2>3, <2>4 DEF Kept, Position
<1>8. Numbered(kept, M, g, 0, M)'
  BY <1>3, <1>5, <1>6, <1>7 DEF Numbered
<1>9. Holds(memory, N, f, i, j, Held, Ready, Pending)
  BY NumberedHolds
<1>10. Holds(memory, M, g, 0, M, Held', Ready', Pending')
  <2> DEFINE zero == 0
  <2>1. zero \in 0..M /\ M \in zero..M /\ Numbered(kept, M, g, zero, M)'
    BY <1>4, <1>8
  <2> HIDE DEF zero
  <2>2. Holds(memory', M, g, zero, M, Held', Ready', Pending')
    BY <1>1, <1>4, <2>1, NumberedHoldsNext
  <2> QED BY <1>3, <2>2 DEF zero
<1>11. Part(memory, f, i, j) \o Part(memory, f, j, N) = Part(memory, f, i, N)
  <2>1. \A a \in 0..N : \A b \in a..N : \A c \in b..N :
          Part(memory, f, a, b) \o Part(memory, f, b, c) = Part(memory, f, a, c)
    BY <1>2, PartsJoin
  <2> QED BY <1>4, <2>1
<1>12. Part(memory, g, 0, M) = Part(memory, f, i, N)
  <2>1. M - 0 = N - i /\ \A n \in 1..(N - i) : 0 + n - 1 \in 0..(M - 1) /\ i + (0 + n - 1) = i + n - 1
    BY <1>4
  <2>2. \A n \in 1..(N - i) : g[0 + n - 1] = f[i + n - 1]
    BY <1>6, <2>1
  <2> QED BY <2>1, <2>2 DEF Part
<1>13. Part(memory, g, 0, 0) = << >> /\ Part(memory, g, M, M) = << >>
  <2>1. M - M = 0 /\ 0 - 0 = 0
    BY <1>4
  <2> QED BY <2>1 DEF Part
<1>14. Held' = << >> /\ Ready' = Ready \o Pending /\ Pending' = << >>
  BY <1>9, <1>10, <1>11, <1>12, <1>13 DEF Holds
<1> QED BY <1>4, <1>8, <1>14 DEF Channel!Publish, Held, Ready, Pending

\* streamCreateMsg is the channel's Write.
LEMMA CreateMsgCounted ==
  ASSUME TypeOK, HeadsOrdered, NEW starts, Cut(starts),
         NEW N \in Nat, NEW f, NEW i \in 0..N, NEW j \in i..N, Numbered(starts, N, f, i, j),
         NEW id \in Ids, NEW length \in Lengths, CreateMsg(id, length)
  PROVE  RInv' /\ Channel!Write([id |-> id, length |-> length])
<1> PICK w : w = writer.cur_offset
  OBVIOUS
<1> PICK m : m = [id |-> id, length |-> length]
  OBVIOUS
<1> PICK M : M = N + 1
  OBVIOUS
<1> PICK g : g = Longer(f, N, Wrap(w + length))
  OBVIOUS
<1>1. /\ TypeOK' /\ HeadsOrdered' /\ Cut(starts \cup {w})' /\ HeadersStay(starts)
      /\ Id(w)' = id /\ Length(w)' = length
      /\ writer'.cur_offset = Wrap(w + length)
      /\ length \in Nat \ {0} /\ Position(w) + length < BufferSize
  BY CreateMsgCuts
<1>2. /\ memory \in [Cells -> Bytes] /\ Chained(memory, N, f)
      /\ \A n \in 0..(N - 1) : f[n] \in starts
      /\ f[0] = reader.read_offset /\ f[i] = reader.cur_offset
      /\ f[j] = reader.write_offset /\ f[N] = w
  BY DEF Numbered, TypeOK
<1>3. /\ M \in Nat /\ i \in 0..M /\ j \in i..M /\ j \in 0..M /\ j \in j..N /\ N \in 0..N
      /\ 0 \in 0..N /\ j \in 0..N /\ N \in j..N /\ N \in j..(M - 1) /\ M - 1 = N /\ N + 1 = M
      /\ i \in 0..N /\ N \in 0..M /\ i \in Nat /\ j \in Nat /\ 0 \in Nat
  OBVIOUS
<1>4. \A n \in 0..(N - 1) : /\ Message(memory', f[n]) = Message(memory, f[n])
                            /\ LengthAt(memory', f[n]) = LengthAt(memory, f[n])
  BY <1>1, <1>2 DEF HeadersStay, Id, Length, Message, LengthAt
<1>5. LengthAt(memory', w) = length /\ Message(memory', w) = m
  BY <1>1 DEF Id, Length, Message, LengthAt
<1>6. /\ g[M] = Wrap(w + length)
      /\ \A n \in 0..N : g[n] = f[n]
  <2>1. M \in 0..(N + 1) /\ \A n \in 0..N : n \in 0..(N + 1) /\ n # N + 1
    BY <1>3
  <2> QED BY <2>1 DEF Longer
<1>7. Chained(memory', M, g)
  <2> DEFINE mem2 == memory'
  <2>1. /\ \A n \in 0..(N - 1) : LengthAt(mem2, f[n]) = LengthAt(memory, f[n])
        /\ LengthAt(mem2, f[N]) = length
        /\ Ahead(f[0], f[N]) + length < BufferSize
    BY <1>1, <1>2, <1>4, <1>5 DEF Position
  <2> HIDE DEF mem2
  <2>2. Chained(mem2, N + 1, Longer(f, N, Wrap(f[N] + length)))
    BY <1>1, <1>2, <2>1, ChainedLonger
  <2> QED BY <1>2, <2>2 DEF mem2
<1>8. reader' = reader
  BY DEF CreateMsg
<1>9. Numbered(starts \cup {w}, M, g, i, j)'
  <2>1. \A n \in 0..(M - 1) : g[n] \in starts \cup {w}
    <3>1. \A n \in 0..(M - 1) : n \in 0..N /\ (n # N => n \in 0..(N - 1))
      BY <1>3
    <3> QED BY <1>2, <1>6, <3>1
  <2>2. g[0] = f[0] /\ g[i] = f[i] /\ g[j] = f[j]
    BY <1>3, <1>6
  <2> QED BY <1>1, <1>2, <1>6, <1>7, <1>8, <2>1, <2>2 DEF Numbered
<1>10. Holds(memory, N, f, i, j, Held, Ready, Pending)
  BY NumberedHolds
<1>11. Holds(memory', M, g, i, j, Held', Ready', Pending')
  BY <1>1, <1>3, <1>9, NumberedHoldsNext
<1>12. /\ Part(memory', g, 0, i) = Part(memory, f, 0, i)
       /\ Part(memory', g, i, j) = Part(memory, f, i, j)
       /\ Part(memory', g, j, N) = Part(memory, f, j, N)
  <2>1. \A n \in 0..(N - 1) : n \in 0..N
    OBVIOUS
  <2>2. \A n \in 0..(N - 1) : Message(memory', g[n]) = Message(memory, f[n])
    BY <1>4, <1>6, <2>1
  <2>3. ASSUME NEW a \in 0..N, NEW b \in 0..N
        PROVE  Part(memory', g, a, b) = Part(memory, f, a, b)
    <3>1. \A n \in 1..(b - a) : a + n - 1 \in 0..(N - 1)
      OBVIOUS
    <3> QED BY <2>2, <3>1 DEF Part
  <2> QED BY <1>3, <2>3
<1>13. Part(memory', g, j, M) = Append(Part(memory', g, j, N), m)
  <2> DEFINE mem2 == memory'
  <2>1. mem2 \in [Cells -> Bytes] /\ Chained(mem2, M, g) /\ Message(mem2, g[N]) = m
    BY <1>1, <1>2, <1>3, <1>5, <1>6, <1>7 DEF TypeOK
  <2> HIDE DEF mem2
  <2>2. Part(mem2, g, j, N + 1) = Append(Part(mem2, g, j, N), Message(mem2, g[N]))
    BY <1>3, <2>1, PartLonger
  <2> QED BY <1>3, <2>1, <2>2 DEF mem2
<1>14. Held' = Held /\ Ready' = Ready /\ Pending' = Append(Pending, m)
  <2> QED BY <1>10, <1>11, <1>12, <1>13 DEF Holds
<1>15. Channel!BytesIn(Held \o Ready \o Pending) + length < BufferSize
  <2>1. Part(memory, f, 0, i) \o Part(memory, f, i, j) = Part(memory, f, 0, j)
    BY <1>2, <1>3, PartsJoin
  <2>2. Part(memory, f, 0, j) \o Part(memory, f, j, N) = Part(memory, f, 0, N)
    BY <1>2, <1>3, PartsJoin
  <2>3. Channel!BytesIn(Part(memory, f, 0, N)) = Ahead(f[0], f[N])
    BY <1>2, BytesOfChain
  <2>4. Held \o Ready \o Pending = Part(memory, f, 0, N)
    BY <1>10, <2>1, <2>2 DEF Holds
  <2> QED BY <1>1, <1>2, <2>3, <2>4 DEF Position
<1>16. m.length \in HeaderSize..MaxMessageSize
  BY <1>1, StreamConstants DEF CreateMsg, CanCreate
<1>17. m.length = length
  OBVIOUS
<1>18. RInv'
  <2>1. Counted'
    BY <1>1, <1>3, <1>9 DEF Counted
  <2> QED BY <1>1, <2>1 DEF RInv
<1> QED BY <1>14, <1>15, <1>16, <1>17, <1>18 DEF Channel!Write, Held, Ready, Pending

LEMMA NextCounted == RInv /\ [Next]_vars => RInv' /\ [Channel!Next]_(Channel!vars)
<1> SUFFICES ASSUME RInv, [Next]_vars PROVE RInv' /\ [Channel!Next]_(Channel!vars)
  OBVIOUS
<1>0. TypeOK /\ HeadsOrdered /\ Counted
  BY DEF RInv
<1> PICK starts : /\ Cut(starts)
                  /\ \E N \in Nat : \E f : \E i \in 0..N : \E j \in i..N :
                       Numbered(starts, N, f, i, j)
  BY <1>0 DEF Counted
<1> PICK N \in Nat : \E f : \E i \in 0..N : \E j \in i..N : Numbered(starts, N, f, i, j)
  OBVIOUS
<1> PICK f : \E i \in 0..N : \E j \in i..N : Numbered(starts, N, f, i, j)
  OBVIOUS
<1> PICK i \in 0..N : \E j \in i..N : Numbered(starts, N, f, i, j)
  OBVIOUS
<1> PICK j \in i..N : Numbered(starts, N, f, i, j)
  OBVIOUS
<1>1. ASSUME NEW id \in Ids, NEW length \in Lengths, CreateMsg(id, length)
      PROVE  RInv' /\ Channel!Next
  <2>1. RInv' /\ Channel!Write([id |-> id, length |-> length])
    BY <1>0, <1>1, CreateMsgCounted
  <2> QED BY <2>1 DEF Channel!Next
<1>2. CASE FillBody
  <2>1. TypeOK' /\ HeadsOrdered' /\ Cut(starts)'
    BY <1>0, <1>2, FillBodyCuts
  <2>2. Numbered(starts, N, f, i, j)' /\ UNCHANGED << Held, Ready, Pending >>
    BY <1>0, <1>2, FillBodyCounted
  <2>3. Counted'
    BY <2>1, <2>2 DEF Counted
  <2> QED BY <2>1, <2>2, <2>3 DEF RInv, Channel!vars, Held, Ready, Pending
<1>3. CASE ReadMsg
  <2> PICK k : k = i + 1
    OBVIOUS
  <2>1. TypeOK' /\ HeadsOrdered' /\ Cut(starts)'
    BY <1>0, <1>3, ReadMsgCuts
  <2>2. k \in 0..N /\ j \in k..N /\ Numbered(starts, N, f, k, j)' /\ Channel!Read
    BY <1>0, <1>3, ReadMsgCounted
  <2>3. Counted'
    BY <2>1, <2>2 DEF Counted
  <2> QED BY <2>1, <2>2, <2>3 DEF RInv, Channel!Next
<1>4. CASE Sync
  <2> PICK kept : kept = Kept(starts)
    OBVIOUS
  <2> PICK M : M = N - i
    OBVIOUS
  <2> PICK g : g = [n \in 0..M |-> f[i + n]]
    OBVIOUS
  <2>1. TypeOK' /\ HeadsOrdered' /\ Cut(kept)'
    BY <1>0, <1>4, SyncCuts
  <2>2. /\ M \in Nat /\ 0 \in 0..M /\ M \in 0..M
        /\ Numbered(kept, M, g, 0, M)' /\ Channel!Publish
    BY <1>0, <1>4, SyncCounted
  <2>3. Counted'
    BY <2>1, <2>2 DEF Counted
  <2> QED BY <2>1, <2>2, <2>3 DEF RInv, Channel!Next
<1>5. CASE UNCHANGED vars
  <2>1. TypeOK' /\ HeadsOrdered' /\ Cut(starts)' /\ Numbered(starts, N, f, i, j)'
    BY <1>0, <1>5 DEF vars, TypeOK, HeadsOrdered, CanSync, Cut, CutAt, FillingIsLast, NoAlias,
      Numbered, Id, Length, Position, Intact
  <2>2. Counted'
    BY <2>1 DEF Counted
  <2>3. UNCHANGED Channel!vars
    BY <1>5 DEF vars, Channel!vars, Contents
  <2> QED BY <2>1, <2>2, <2>3 DEF RInv
<1> QED BY <1>1, <1>2, <1>3, <1>4, <1>5 DEF Next

-----------------------------------------------------------------------------
\* A stream is a bounded first-in first-out channel, whatever its sizes: each call of
\* the library is a step of StreamChannel or changes nothing of it, so that a message
\* is read once, in order and as it was written, only after streamSyncStreams published
\* it, and streamCreateMsg succeeds only while the messages not given back leave more
\* than the new one's length free.
THEOREM StreamImplementsChannel == Spec => ImplementsChannel
<1>1. Init => RInv /\ Channel!Init
  BY InitCounted
<1>2. RInv /\ [Next]_vars => RInv' /\ [Channel!Next]_(Channel!vars)
  BY NextCounted
<1> QED BY <1>1, <1>2, PTL DEF Spec, ImplementsChannel, Channel!Spec

-----------------------------------------------------------------------------
(****************************************************************************)
(* KeyboardStream: the decoder, the distance between the heads, and that    *)
(* the stream is a KeyQueue, for any set of keys and any ring.              *)
(****************************************************************************)

DecoderInv == DecoderFollowsKeyboard /\ decoder.is_shift_pressed \in BOOLEAN

LEMMA InitDecoder == KeyboardInit => DecoderInv
BY DEF KeyboardInit, DecoderInv, DecoderFollowsKeyboard

LEMMA KeyIRQFollows ==
  ASSUME DecoderInv, NEW code \in Codes, KeyIRQ(code)
  PROVE  DecoderInv'
<1>1. decoder' = Decoded(decoder, code) /\ Sends(code)
  BY DEF KeyIRQ
<1>2. /\ decoder.state_arrow_key = keyboard.prefixed
      /\ ~keyboard.misled => decoder.is_shift_pressed = (keyboard.shifts # {})
      /\ decoder.is_shift_pressed \in BOOLEAN
  BY DEF DecoderInv, DecoderFollowsKeyboard
<1>3. decoder'.state_arrow_key = keyboard'.prefixed
  BY <1>1, <1>2 DEF Decoded, Sends
<1>4. CASE code.key \notin ShiftKeys
  <2>1. keyboard'.shifts = keyboard.shifts /\ keyboard'.misled = keyboard.misled
    BY <1>1, <1>4 DEF Sends, HeldShifts, Misleads
  <2>2. decoder'.is_shift_pressed = decoder.is_shift_pressed
    BY <1>1, <1>4 DEF Decoded
  <2> QED BY <2>1, <2>2, <1>2, <1>3 DEF DecoderInv, DecoderFollowsKeyboard
<1>5. CASE code.key \in ShiftKeys
  <2>1. code.up \in BOOLEAN
    <3>1. \A key : \A up \in BOOLEAN : KeyCode(key, up).up = up
      BY DEF KeyCode
    <3>2. Prefix.up = TRUE
      BY DEF Prefix, KeyCode
    <3>3. code = Prefix \/ \E key : \E up \in BOOLEAN : code = KeyCode(key, up)
      BY DEF Codes
    <3> QED BY <3>1, <3>2, <3>3
  <2>2. keyboard'.misled = (code.up = (keyboard'.shifts # {}))
    BY <1>1, <1>5 DEF Sends, Misleads
  <2>3. decoder'.is_shift_pressed = ~code.up
    BY <1>1, <1>5 DEF Decoded
  <2> QED BY <2>1, <2>2, <2>3, <1>3 DEF DecoderInv, DecoderFollowsKeyboard
<1> QED BY <1>4, <1>5

LEMMA NextFollows == DecoderInv /\ [KeyboardNext]_keyboardVars => DecoderInv'
<1> SUFFICES ASSUME DecoderInv, [KeyboardNext]_keyboardVars PROVE DecoderInv'
  OBVIOUS
<1>1. ASSUME NEW code \in Codes, KeyIRQ(code) PROVE DecoderInv'
  BY <1>1, KeyIRQFollows
<1>2. CASE UNCHANGED << decoder, keyboard >>
  BY <1>2 DEF DecoderInv, DecoderFollowsKeyboard
<1>3. CASE ReadKey \/ WrapHead \/ Flush \/ UNCHANGED keyboardVars
  BY <1>2, <1>3 DEF ReadKey, WrapHead, Flush, keyboardVars
<1> QED BY <1>1, <1>3 DEF KeyboardNext

\* Whatever is typed, and wherever in a process's reading the interrupts fall, the kernel
\* knows of a prefix when there is one, and of a shift key when there is one unless the last
\* code of a shift key was untrue: made up, or the release of one of several held down.
THEOREM DecoderAlwaysFollows == KeyboardSpec => []DecoderFollowsKeyboard
<1>1. DecoderInv => DecoderFollowsKeyboard
  BY DEF DecoderInv
<1> QED BY <1>1, InitDecoder, NextFollows, PTL DEF KeyboardSpec

-----------------------------------------------------------------------------
\* The ring.

\* What the two ends hold.  A head read in the middle of a wrap may be past the buffer.
Ends ==
  /\ memory \in [Cells -> Bytes]
  /\ reader \in [write_offset : Offsets, read_offset : Nat, cur_offset : Nat]
  /\ writer \in [write_offset : Offsets, read_offset : Nat, cur_offset : Offsets]
  /\ reader.write_offset = writer.cur_offset
  /\ writer.write_offset = writer.cur_offset
  /\ reader.read_offset = writer.read_offset
  /\ wrapping = (reader.cur_offset > BufferSize)
  /\ reader.cur_offset <= BufferSize + KeySize

\* From a public read head that is not past the buffer one meets the reader's head, then
\* the writer's, in less than a turn; 0 is the offset of heads that have not moved.
InTurn ==
  /\ Ahead(ReadHead, writer.cur_offset) < BufferSize
  /\ writer.cur_offset = 0 => ReadHead = 0
  /\ reader.read_offset <= BufferSize =>
       /\ Ahead(reader.read_offset, ReadHead) + Ahead(ReadHead, writer.cur_offset) < BufferSize
       /\ ReadHead = 0 => reader.read_offset = 0

\* The keys unread begin at the offsets f[0], .., f[N - 1], one behind the other.
KeysAt(mem, N, f, r, w) ==
  /\ f \in [0..N -> Offsets]
  /\ f[0] = r /\ f[N] = w
  /\ \A n \in 0..(N - 1) :
       /\ mem[Cell(f[n])].id \in Ids
       /\ mem[Cell(f[n])].length = KeySize
       /\ f[n + 1] = Wrap(f[n] + KeySize)
       /\ Ahead(f[n], w) >= KeySize
  /\ \A n \in 0..N : Ahead(f[n], w) >= N - n
  /\ \A m \in 0..N : \A n \in m..N : Ahead(f[n], w) <= Ahead(f[m], w)

Keys == \E N \in Nat : \E f : KeysAt(memory, N, f, ReadHead, writer.cur_offset)

KInv == DecoderInv /\ Ends /\ InTurn /\ Keys

LEMMA Sizes ==
  /\ BufferSize \in Nat /\ HeaderSize \in Nat \ {0} /\ KeySize \in Nat \ {0}
  /\ HeaderSize <= KeySize /\ KeySize < BufferSize /\ 0 \in Offsets
BY StreamConstants, KeyboardAssumption DEF Offsets

\* The writer's head moves on within the turn.
LEMMA WriterMoves ==
  ASSUME NEW at \in Offsets, NEW w \in Offsets, Ahead(at, w) + KeySize < BufferSize
  PROVE  /\ Wrap(w + KeySize) \in Offsets \ {0}
         /\ Ahead(at, Wrap(w + KeySize)) = Ahead(at, w) + KeySize
         /\ Ahead(w, Wrap(w + KeySize)) = KeySize
         /\ Ahead(Wrap(w + KeySize), Wrap(w + KeySize)) = 0
BY Sizes DEF Offsets, Ahead, Wrap

\* What lies between two heads that stay less than a turn apart is out of a new key's way.
LEMMA KeyElsewhere ==
  ASSUME NEW at \in Offsets, NEW w \in Offsets,
         Ahead(at, w) >= KeySize, Ahead(at, w) + KeySize < BufferSize
  PROVE  Ahead(Cell(w), Cell(at)) > KeySize
BY Sizes DEF Offsets, Ahead, Cell

\* The room streamCreateMsg sees before a read head that is not past the buffer is there
\* before the reader's head too.
LEMMA RoomSeen ==
  ASSUME NEW rp \in Offsets, NEW r \in Offsets, NEW w \in Offsets,
         Ahead(rp, r) + Ahead(r, w) < BufferSize,
         r = 0 => rp = 0, w = 0 => r = 0,
         w < rp => w + KeySize < rp,
         w >= rp => w + KeySize < rp + BufferSize
  PROVE  Ahead(r, w) + KeySize < BufferSize
BY Sizes DEF Offsets, Ahead

\* The backlog is the distance between the heads.
LEMMA BacklogSeen ==
  ASSUME NEW r \in Offsets, NEW w \in Offsets, Ahead(r, w) < BufferSize, w = 0 => r = 0
  PROVE  Ahead(Cell(r), Cell(w)) = Ahead(r, w)
BY Sizes DEF Offsets, Ahead, Cell

LEMMA HeadTypes ==
  ASSUME Ends
  PROVE  /\ ReadHead \in Offsets /\ writer.cur_offset \in Offsets
         /\ ~wrapping => ReadHead = reader.cur_offset
         /\ Wrap(ReadHead) = ReadHead
         /\ Ahead(ReadHead, ReadHead) = 0
         /\ Ahead(ReadHead, writer.cur_offset) \in Nat
<1> PICK c : c = reader.cur_offset
  OBVIOUS
<1>1. /\ c \in Nat /\ c <= BufferSize + KeySize
      /\ writer.cur_offset \in Offsets /\ (~wrapping => ~(c > BufferSize))
  BY DEF Ends
<1>2. Wrap(c) \in Offsets /\ (~(c > BufferSize) => Wrap(c) = c) /\ Wrap(Wrap(c)) = Wrap(c)
  BY <1>1, Sizes DEF Wrap, Offsets
<1>3. \A a, b \in Offsets : Ahead(a, b) \in Nat /\ Ahead(a, a) = 0
  BY Sizes DEF Offsets, Ahead
<1> QED BY <1>1, <1>2, <1>3 DEF ReadHead

\* A key is worth a message of TKMsgKeyCode, or none.
LEMMA MeaningType ==
  ASSUME DecoderInv, NEW code \in Codes, Meaning(decoder, code) # NoMessage
  PROVE  Meaning(decoder, code) \in Ids
<1>1. decoder.is_shift_pressed \in BOOLEAN
  BY DEF DecoderInv
<1>2. Ids = Messages
  BY KeyboardAssumption
<1>3. code.key \in CharKeys => OfChar(code, decoder.is_shift_pressed) \in Messages
  BY <1>1 DEF Messages
<1>4. code.key \in ArrowKeys => OfArrow(code) \in Messages
  BY DEF Messages
<1>5. OfShift \in Messages
  BY DEF Messages
<1> QED BY <1>2, <1>3, <1>4, <1>5 DEF Meaning

-----------------------------------------------------------------------------
\* The empty stream.
LEMMA InitKeys == KeyboardInit => KInv
<1> SUFFICES ASSUME KeyboardInit PROVE KInv
  OBVIOUS
<1>1. DecoderInv
  BY InitDecoder
<1>2. /\ reader = NewEndpoint /\ writer = NewEndpoint /\ wrapping = FALSE
      /\ memory = EmptyMemory
  BY DEF KeyboardInit
<1>3. Ends
  <2>1. 0 \in Offsets /\ 0 \in Nat /\ 0 <= BufferSize + KeySize /\ (0 > BufferSize) = FALSE
    BY Sizes
  <2>2. memory \in [Cells -> Bytes]
    BY <1>2 DEF EmptyMemory, Bytes
  <2> QED BY <1>2, <2>1, <2>2 DEF Ends, NewEndpoint
<1>4. ReadHead = 0 /\ writer.cur_offset = 0 /\ reader.read_offset = 0
  BY <1>2, Sizes DEF NewEndpoint, ReadHead, Wrap
<1>5. Ahead(0, 0) = 0
  BY DEF Ahead
<1>6. InTurn
  BY <1>4, <1>5, Sizes DEF InTurn
<1>7. Keys
  <2> DEFINE f == [n \in 0..0 |-> 0]
  <2>1. /\ f \in [0..0 -> Offsets] /\ f[0] = 0 /\ 0..(0 - 1) = {}
        /\ \A n \in 0..0 : n = 0 /\ f[n] = 0
        /\ \A m \in 0..0 : \A n \in m..0 : f[m] = 0 /\ f[n] = 0
    BY Sizes
  <2> HIDE DEF f
  <2>2. KeysAt(memory, 0, f, 0, 0)
    BY <1>5, <2>1 DEF KeysAt
  <2>3. \E N \in Nat : \E g : KeysAt(memory, N, g, 0, 0)
    BY <2>2
  <2> QED BY <1>4, <2>3 DEF Keys
<1> QED BY <1>1, <1>3, <1>6, <1>7 DEF KInv

\* The room for a key: with the public read head in the buffer the writer sees it, and
\* otherwise the user sees to it.
LEMMA RoomForKey ==
  ASSUME MaxBacklog < BufferSize, Ends, InTurn, UserHoldsBack, CanCreate(writer, KeySize)
  PROVE  Ahead(ReadHead, writer.cur_offset) + KeySize < BufferSize
<1> PICK r, w, rp : r = ReadHead /\ w = writer.cur_offset /\ rp = writer.read_offset
  OBVIOUS
<1>1. /\ r \in Offsets /\ w \in Offsets /\ rp \in Nat /\ reader.read_offset = rp
      /\ Ahead(r, w) < BufferSize /\ (w = 0 => r = 0) /\ Ahead(r, w) \in Nat
  BY HeadTypes DEF Ends, InTurn
<1>2. CASE rp <= BufferSize
  <2>1. /\ Ahead(rp, r) + Ahead(r, w) < BufferSize
        /\ r = 0 => rp = 0
        /\ rp \in Offsets
    BY <1>1, <1>2, Sizes DEF InTurn, Offsets
  <2>2. (w < rp => w + KeySize < rp) /\ (w >= rp => w + KeySize < rp + BufferSize)
    BY DEF CanCreate
  <2> QED BY <1>1, <2>1, <2>2, RoomSeen
<1>3. CASE rp > BufferSize
  <2>1. Ahead(Cell(r), Cell(w)) + KeySize <= MaxBacklog
    BY <1>3 DEF UserHoldsBack, Backlog
  <2>2. Ahead(Cell(r), Cell(w)) = Ahead(r, w)
    BY <1>1, BacklogSeen
  <2>3. Ahead(r, w) + KeySize <= MaxBacklog
    BY <2>1, <2>2
  <2> QED BY <1>1, <2>3, Sizes, KeyboardAssumption
<1> QED BY <1>1, <1>2, <1>3, Sizes

\* The keys in the ring after one more was stored behind them.
LEMMA KeyStored ==
  ASSUME NEW mem, NEW N \in Nat, NEW f, NEW r, NEW w \in Offsets, KeysAt(mem, N, f, r, w),
         NEW id \in Ids, Ahead(r, w) + KeySize < BufferSize,
         NEW mem2, mem2 = Store(mem, w, id, KeySize, 0, KeySize),
         NEW g, g = [n \in 0..(N + 1) |-> IF n = N + 1 THEN Wrap(w + KeySize) ELSE f[n]]
  PROVE  /\ KeysAt(mem2, N + 1, g, r, Wrap(w + KeySize))
         /\ \A n \in 0..(N - 1) : mem2[Cell(g[n])] = mem[Cell(f[n])]
         /\ g[N] = w /\ mem2[Cell(w)].id = id
<1> DEFINE w2 == Wrap(w + KeySize)
           M == N + 1
<1>1. /\ f \in [0..N -> Offsets] /\ f[0] = r /\ f[N] = w /\ 0 \in 0..N /\ N \in 0..N
  BY DEF KeysAt
<1>2. ASSUME NEW n \in 0..N
      PROVE  /\ f[n] \in Offsets
             /\ Ahead(f[n], w) \in Nat
             /\ Ahead(f[n], w) + KeySize < BufferSize
             /\ Ahead(f[n], w2) = Ahead(f[n], w) + KeySize
             /\ w2 \in Offsets
  <2>1. Ahead(f[n], w) <= Ahead(f[0], w)
    BY <1>1 DEF KeysAt
  <2>2. f[n] \in Offsets /\ r \in Offsets /\ KeySize \in Nat
    BY <1>1, Sizes
  <2>3. \A a, b \in Offsets : Ahead(a, b) \in Nat
    BY Sizes DEF Offsets, Ahead
  <2>5. Ahead(f[n], w) \in Nat /\ Ahead(r, w) \in Nat
    BY <2>2, <2>3
  <2>6. Ahead(f[n], w) <= Ahead(r, w)
    BY <1>1, <2>1
  <2>4. Ahead(f[n], w) + KeySize < BufferSize
    BY <2>2, <2>5, <2>6, Sizes
  <2> QED BY <2>2, <2>3, <2>4, WriterMoves
<1>3. /\ g[M] = w2 /\ \A n \in 0..N : g[n] = f[n]
      /\ g \in [0..M -> Offsets]
      /\ M \in Nat
  <2>1. \A n \in 0..N : n \in 0..(N + 1) /\ n # N + 1
    OBVIOUS
  <2>2. N + 1 \in 0..(N + 1) /\ \A n \in 0..(N + 1) : n # N + 1 => n \in 0..N
    OBVIOUS
  <2>3. w2 \in Offsets
    BY <1>1, <1>2
  <2> QED BY <1>1, <2>1, <2>2, <2>3 DEF w2
<1>4. ASSUME NEW c \in Cells PROVE Ahead(Cell(w), c) \in Nat /\ Ahead(c, c) = 0
  BY CellOfOffset, Sizes DEF Cells, Ahead
<1>5. mem2[Cell(w)] = [id |-> id, length |-> KeySize, index |-> 0]
  <2>1. Cell(w) \in Cells /\ Ahead(Cell(w), Cell(w)) = 0
    BY CellOfOffset, <1>4
  <2> QED BY <2>1, Sizes DEF Store
<1>6. ASSUME NEW n \in 0..(N - 1) PROVE mem2[Cell(f[n])] = mem[Cell(f[n])]
  <2>1. n \in 0..N /\ f[n] \in Offsets /\ Cell(f[n]) \in Cells
    BY <1>2, CellOfOffset
  <2>2. Ahead(f[n], w) >= KeySize
    BY DEF KeysAt
  <2>3. Ahead(Cell(w), Cell(f[n])) > KeySize
    BY <1>2, <2>1, <2>2, KeyElsewhere
  <2>4. Ahead(Cell(w), Cell(f[n])) \in Nat
    BY <1>4, <2>1
  <2> QED BY <2>1, <2>3, <2>4, Sizes DEF Store
<1>7. Ahead(w2, w2) = 0 /\ Ahead(w, w2) = KeySize
  BY <1>1, <1>2, WriterMoves
<1> HIDE DEF w2
<1>8. ASSUME NEW n \in 0..(M - 1)
      PROVE  /\ mem2[Cell(g[n])].id \in Ids
             /\ mem2[Cell(g[n])].length = KeySize
             /\ g[n + 1] = Wrap(g[n] + KeySize)
             /\ Ahead(g[n], w2) >= KeySize
  <2>1. n \in 0..N /\ g[n] = f[n]
    BY <1>3
  <2>2. CASE n = N
    BY <1>1, <1>3, <1>5, <1>7, <2>1, <2>2, Sizes DEF w2
  <2>3. CASE n # N
    <3>1. n \in 0..(N - 1) /\ n + 1 \in 0..N
      BY <2>3
    <3>2. /\ mem[Cell(f[n])].id \in Ids /\ mem[Cell(f[n])].length = KeySize
          /\ f[n + 1] = Wrap(f[n] + KeySize) /\ Ahead(f[n], w) >= KeySize
      BY <3>1 DEF KeysAt
    <3>3. g[n + 1] = f[n + 1] /\ mem2[Cell(f[n])] = mem[Cell(f[n])]
      BY <1>3, <1>6, <3>1
    <3>4. Ahead(f[n], w2) >= KeySize
      BY <1>2, <2>1, <3>2, Sizes
    <3> QED BY <2>1, <3>2, <3>3, <3>4
  <2> QED BY <2>2, <2>3
<1>9. ASSUME NEW n \in 0..M PROVE Ahead(g[n], w2) >= M - n /\ Ahead(g[n], w2) \in Nat
  <2>1. CASE n = M
    BY <1>3, <1>7, <2>1
  <2>2. CASE n # M
    <3>1. n \in 0..N /\ g[n] = f[n]
      BY <1>3, <2>2
    <3>2. Ahead(f[n], w) >= N - n
      BY <3>1 DEF KeysAt
    <3> QED BY <1>2, <3>1, <3>2, Sizes
  <2> QED BY <2>1, <2>2
<1>10. ASSUME NEW m \in 0..M, NEW n \in m..M PROVE Ahead(g[n], w2) <= Ahead(g[m], w2)
  <2>1. CASE n = M
    <3>1. Ahead(g[n], w2) = 0 /\ Ahead(g[m], w2) \in Nat
      BY <1>3, <1>7, <1>9, <2>1
    <3> QED BY <3>1
  <2>2. CASE n # M
    <3>1. m \in 0..N /\ n \in m..N /\ n \in 0..N /\ g[n] = f[n] /\ g[m] = f[m]
      BY <1>3, <2>2
    <3>2. Ahead(f[n], w) <= Ahead(f[m], w)
      BY <3>1 DEF KeysAt
    <3> QED BY <1>2, <3>1, <3>2, Sizes
  <2> QED BY <2>1, <2>2
<1>11. KeysAt(mem2, M, g, r, w2)
  <2>1. g[0] = r
    BY <1>1, <1>3
  <2> QED BY <1>3, <1>8, <1>9, <1>10, <2>1 DEF KeysAt
<1>12. \A n \in 0..(N - 1) : mem2[Cell(g[n])] = mem[Cell(f[n])]
  BY <1>3, <1>6
<1>13. g[N] = w /\ mem2[Cell(w)].id = id
  BY <1>1, <1>3, <1>5
<1> QED BY <1>11, <1>12, <1>13 DEF w2

\* The keys left after the first was read.
LEMMA KeyRead ==
  ASSUME NEW mem, NEW N \in Nat \ {0}, NEW f, NEW r, NEW w, KeysAt(mem, N, f, r, w),
         NEW g, g = [n \in 0..(N - 1) |-> f[n + 1]]
  PROVE  /\ KeysAt(mem, N - 1, g, Wrap(r + KeySize), w)
         /\ mem[Cell(r)].length = KeySize
         /\ Ahead(Wrap(r + KeySize), w) <= Ahead(r, w)
<1>1. /\ 0 \in 0..(N - 1) /\ N - 1 \in 0..(N - 1) /\ 0 \in 0..N /\ 1 \in 0..N /\ N - 1 \in Nat
      /\ (N - 1) + 1 = N
      /\ \A n \in 0..(N - 1) : n + 1 \in 0..N /\ (N - 1) - n = N - (n + 1)
      /\ \A n \in 0..((N - 1) - 1) : n + 1 \in 0..(N - 1) /\ n \in 0..(N - 1)
  OBVIOUS
<1>2. /\ f \in [0..N -> Offsets] /\ f[0] = r /\ f[N] = w
      /\ f[0 + 1] = Wrap(r + KeySize) /\ mem[Cell(r)].length = KeySize
  BY <1>1 DEF KeysAt
<1>3. /\ g \in [0..(N - 1) -> Offsets] /\ g[0] = Wrap(r + KeySize) /\ g[N - 1] = w
      /\ \A n \in 0..(N - 1) : g[n] = f[n + 1]
  BY <1>1, <1>2
<1>4. ASSUME NEW n \in 0..((N - 1) - 1)
      PROVE  /\ mem[Cell(g[n])].id \in Ids
             /\ mem[Cell(g[n])].length = KeySize
             /\ g[n + 1] = Wrap(g[n] + KeySize)
             /\ Ahead(g[n], w) >= KeySize
  <2> DEFINE k == n + 1
  <2>1. k \in 0..(N - 1) /\ g[n] = f[k] /\ g[k] = f[k + 1]
    BY <1>1, <1>3
  <2> HIDE DEF k
  <2>2. /\ mem[Cell(f[k])].id \in Ids /\ mem[Cell(f[k])].length = KeySize
        /\ f[k + 1] = Wrap(f[k] + KeySize) /\ Ahead(f[k], w) >= KeySize
    BY <2>1 DEF KeysAt
  <2> QED BY <2>1, <2>2 DEF k
<1>5. \A n \in 0..(N - 1) : Ahead(g[n], w) >= (N - 1) - n
  <2> SUFFICES ASSUME NEW n \in 0..(N - 1) PROVE Ahead(g[n], w) >= (N - 1) - n
    OBVIOUS
  <2>1. Ahead(f[n + 1], w) >= N - (n + 1)
    BY <1>1 DEF KeysAt
  <2> QED BY <1>1, <1>3, <2>1
<1>6. ASSUME NEW m \in 0..(N - 1), NEW n \in m..(N - 1)
      PROVE  Ahead(g[n], w) <= Ahead(g[m], w)
  <2>1. m + 1 \in 0..N /\ n + 1 \in (m + 1)..N /\ n \in 0..(N - 1)
    OBVIOUS
  <2>2. Ahead(f[n + 1], w) <= Ahead(f[m + 1], w)
    BY <2>1 DEF KeysAt
  <2> QED BY <1>3, <2>1, <2>2
<1>7. Ahead(f[1], w) <= Ahead(f[0], w)
  <2>1. 1 \in 0..N
    BY <1>1
  <2> QED BY <1>1, <2>1 DEF KeysAt
<1>8. KeysAt(mem, N - 1, g, Wrap(r + KeySize), w)
  BY <1>3, <1>4, <1>5, <1>6 DEF KeysAt
<1> QED BY <1>2, <1>7, <1>8

-----------------------------------------------------------------------------
\* What the chain of headers spells.

UnreadIn(mem, r, w) ==
  LET found == MessagesBetween(mem, r, w)
  IN  [i \in DOMAIN found |-> found[i].id]

IdsAt(mem, N, f) == [n \in 0..(N - 1) |-> mem[Cell(f[n])].id]

LEMMA KeysSpelled ==
  ASSUME NEW mem, NEW N \in Nat, NEW f, NEW r \in Offsets, NEW w \in Offsets,
         KeysAt(mem, N, f, r, w), Ahead(r, w) < BufferSize
  PROVE  /\ UnreadIn(mem, r, w) = Items(IdsAt(mem, N, f), 0, N)
         /\ IdsAt(mem, N, f) \in [0..(N - 1) -> Ids]
<1>1. /\ 0 \in 0..N /\ N \in 0..N /\ N - 0 = N
      /\ \A n \in 0..(N - 1) : n \in 0..N /\ n + 1 \in 1..N
      /\ \A n \in 1..N : n - 1 \in 0..(N - 1) /\ (n - 1) + 1 = n /\ 0 + n - 1 = n - 1
  OBVIOUS
<1>2. f \in [0..N -> Offsets] /\ f[0] = r /\ f[N] = w
  BY DEF KeysAt
<1>3. N \in 0..BufferSize
  <2>1. Ahead(f[0], w) >= N - 0
    BY <1>1 DEF KeysAt
  <2>2. Ahead(r, w) >= N
    BY <1>1, <1>2, <2>1
  <2>3. Ahead(r, w) \in Nat
    BY Sizes DEF Ahead, Offsets
  <2> QED BY <2>2, <2>3, Sizes
<1>4. ASSUME NEW n \in 1..N PROVE f[n] = Wrap(f[n - 1] + mem[Cell(f[n - 1])].length)
  BY <1>1 DEF KeysAt
<1>5. ASSUME NEW n \in 0..(N - 1) PROVE f[n] # f[N]
  <2>1. Ahead(f[n], w) >= KeySize
    BY DEF KeysAt
  <2>2. Ahead(w, w) = 0
    BY Sizes DEF Ahead, Offsets
  <2> QED BY <1>2, <2>1, <2>2, Sizes
<1>6. MessagesBetween(mem, r, w) = [n \in 1..N |-> MessageAt(mem, f[n - 1])]
  <2>1. HeadersLead(mem, f, N)
    BY <1>2, <1>4, <1>5 DEF HeadersLead
  <2>2. MessagesBetween(mem, f[0], f[N]) = [n \in 1..N |-> MessageAt(mem, f[n - 1])]
    BY <1>3, <2>1, HeadersSpelled
  <2> QED BY <1>2, <2>2
<1>7. UnreadIn(mem, r, w) = [n \in 1..N |-> mem[Cell(f[n - 1])].id]
  BY <1>6 DEF UnreadIn, MessageAt
<1>8. Items(IdsAt(mem, N, f), 0, N) = [n \in 1..N |-> mem[Cell(f[n - 1])].id]
  BY <1>1 DEF Items, IdsAt
<1>9. IdsAt(mem, N, f) \in [0..(N - 1) -> Ids]
  BY DEF KeysAt, IdsAt
<1> QED BY <1>7, <1>8, <1>9

\* No key is left between heads that are at parity.
LEMMA NothingSpelled ==
  ASSUME NEW mem, NEW r \in Offsets
  PROVE  UnreadIn(mem, r, r) = << >>
<1> DEFINE g == [n \in 0..0 |-> r]
<1>1. /\ g \in [0..0 -> Offsets] /\ g[0] = r /\ 0 \in 0..BufferSize
      /\ \A n \in 1..0 : FALSE
      /\ \A n \in 0..(0 - 1) : FALSE
  BY Sizes
<1> HIDE DEF g
<1>2. MessagesBetween(mem, g[0], g[0]) = [n \in 1..0 |-> MessageAt(mem, g[n - 1])]
  <2>1. HeadersLead(mem, g, 0)
    BY <1>1 DEF HeadersLead
  <2> QED BY <1>1, <2>1, HeadersSpelled
<1>3. UnreadIn(mem, r, r) = [n \in 1..0 |-> MessageAt(mem, g[n - 1]).id]
  BY <1>1, <1>2 DEF UnreadIn
<1> QED BY <1>3

\* A key more behind the others, and the first one gone.
LEMMA KeyAppended ==
  ASSUME NEW N \in Nat, NEW a \in [0..(N - 1) -> Ids], NEW b \in [0..N -> Ids],
         \A n \in 0..(N - 1) : b[n] = a[n]
  PROVE  Items(b, 0, N + 1) = Append(Items(a, 0, N), b[N])
<1> DEFINE M == N + 1
<1>1. M \in Nat /\ M - 1 = N /\ 0 \in 0..M /\ N \in 0..(M - 1) /\ b \in [0..(M - 1) -> Ids]
  OBVIOUS
<1> HIDE DEF M
<1>2. Items(b, 0, N + 1) = Append(Items(b, 0, N), b[N])
  BY <1>1, ItemsLonger
<1>3. Items(b, 0, N) = Items(a, 0, N)
  <2>1. \A n \in 1..(N - 0) : 0 + n - 1 \in 0..(N - 1)
    OBVIOUS
  <2> QED BY <2>1 DEF Items
<1> QED BY <1>2, <1>3

LEMMA KeyTaken ==
  ASSUME NEW N \in Nat \ {0}, NEW a \in [0..(N - 1) -> Ids], NEW b,
         \A n \in 0..((N - 1) - 1) : b[n] = a[n + 1]
  PROVE  /\ Items(a, 0, N) # << >>
         /\ Items(b, 0, N - 1) = Tail(Items(a, 0, N))
<1>1. N \in Nat /\ 0 \in 0..N /\ N \in (0 + 1)..N /\ 0 + 1 = 1
  OBVIOUS
<1>2. Items(a, 0, N) # << >> /\ Tail(Items(a, 0, N)) = Items(a, 1, N)
  <2> PICK z, e : z = 0 /\ e = N
    OBVIOUS
  <2>1. N \in Nat /\ z \in 0..N /\ e \in (z + 1)..N /\ z + 1 = 1
    BY <1>1
  <2>2. \A x \in 0..N : \A y \in (x + 1)..N :
          Items(a, x, y) # << >> /\ Tail(Items(a, x, y)) = Items(a, x + 1, y)
    BY ItemsShorter
  <2>3. Items(a, z, e) # << >> /\ Tail(Items(a, z, e)) = Items(a, z + 1, e)
    BY <2>1, <2>2
  <2> QED BY <2>1, <2>3
<1>3. Items(a, 1, N) = Items(b, 0, N - 1)
  <2>1. \A n \in 1..(N - 1) : /\ 0 + n - 1 \in 0..((N - 1) - 1)
                              /\ (0 + n - 1) + 1 = 1 + n - 1
    OBVIOUS
  <2>2. (N - 1) - 0 = N - 1
    OBVIOUS
  <2> QED BY <2>1, <2>2 DEF Items
<1> QED BY <1>2, <1>3

-----------------------------------------------------------------------------
\* The actions.

LEMMA UnreadSeen == Unread = UnreadIn(memory, ReadHead, writer.cur_offset)
BY DEF Unread, UnreadIn

\* The public heads always agree, so streamSyncStreams always does its work.
LEMMA Synced ==
  ASSUME Ends, NEW w, w = writer \/ w = AfterCreate(writer, KeySize), SyncWith(w)
  PROVE  /\ reader' = [write_offset |-> w.cur_offset, read_offset |-> reader.cur_offset,
                       cur_offset |-> reader.cur_offset]
         /\ writer' = [write_offset |-> w.cur_offset, read_offset |-> reader.cur_offset,
                       cur_offset |-> w.cur_offset]
<1>1. /\ reader \in [write_offset : Offsets, read_offset : Nat, cur_offset : Nat]
      /\ writer \in [write_offset : Offsets, read_offset : Nat, cur_offset : Offsets]
      /\ reader.write_offset = writer.write_offset
      /\ reader.read_offset = writer.read_offset
  BY DEF Ends
<1>2. /\ w.write_offset = writer.write_offset /\ w.read_offset = writer.read_offset
      /\ w = [write_offset |-> w.write_offset, read_offset |-> w.read_offset,
              cur_offset |-> w.cur_offset]
  BY <1>1 DEF AfterCreate
<1>3. CanSync(reader, w)
  BY <1>1, <1>2 DEF CanSync
<1>4. reader' = Publish(reader, reader, w) /\ writer' = Publish(w, reader, w)
  BY <1>3 DEF SyncWith
<1> QED BY <1>1, <1>2, <1>4 DEF Publish

LEMMA SyncKeepsTurn ==
  ASSUME Ends, NEW e \in Offsets, Ahead(ReadHead, e) < BufferSize, e = 0 => ReadHead = 0,
         reader' = [write_offset |-> e, read_offset |-> reader.cur_offset,
                    cur_offset |-> reader.cur_offset],
         writer' = [write_offset |-> e, read_offset |-> reader.cur_offset,
                    cur_offset |-> e],
         memory' \in [Cells -> Bytes], UNCHANGED wrapping
  PROVE  Ends' /\ InTurn' /\ ReadHead' = ReadHead /\ writer'.cur_offset = e
<1> PICK c, r : c = reader.cur_offset /\ r = ReadHead
  OBVIOUS
<1>1. c \in Nat /\ c <= BufferSize + KeySize /\ (wrapping = (c > BufferSize))
  BY DEF Ends
<1>2. r \in Offsets /\ Ahead(r, r) = 0 /\ r = Wrap(c)
  BY HeadTypes DEF ReadHead
<1>3. /\ reader'.cur_offset = c /\ reader'.read_offset = c /\ reader'.write_offset = e
      /\ writer'.cur_offset = e /\ writer'.read_offset = c /\ writer'.write_offset = e
  OBVIOUS
<1>4. ReadHead' = r
  BY <1>2, <1>3 DEF ReadHead
<1>5. Ends'
  <2>1. /\ reader' \in [write_offset : Offsets, read_offset : Nat, cur_offset : Nat]
        /\ writer' \in [write_offset : Offsets, read_offset : Nat, cur_offset : Offsets]
    BY <1>1
  <2> QED BY <1>1, <1>3, <2>1 DEF Ends
<1>6. InTurn'
  <2>1. c <= BufferSize => r = c
    BY <1>1, <1>2, Sizes DEF Wrap
  <2>2. Ahead(r, e) \in Nat
    BY <1>2, Sizes DEF Ahead, Offsets
  <2>3. Ahead(r, e) < BufferSize /\ (e = 0 => r = 0)
    OBVIOUS
  <2>4. c <= BufferSize => /\ Ahead(c, r) + Ahead(r, e) < BufferSize
                           /\ r = 0 => c = 0
    BY <1>2, <2>1, <2>2, <2>3
  <2> QED BY <1>3, <1>4, <2>3, <2>4 DEF InTurn
<1> QED BY <1>3, <1>4, <1>5, <1>6

\* streamSyncStreams alone.
LEMMA SyncStep ==
  ASSUME KInv, SyncWith(writer), UNCHANGED << memory, wrapping >>
  PROVE  Ends' /\ InTurn' /\ Keys' /\ UNCHANGED Unread /\ StaysBehindReader
<1> PICK w : w = writer.cur_offset
  OBVIOUS
<1>1. Ends /\ InTurn /\ Keys /\ w \in Offsets /\ memory \in [Cells -> Bytes]
  BY DEF KInv, Ends
<1>2. /\ reader' = [write_offset |-> w, read_offset |-> reader.cur_offset,
                    cur_offset |-> reader.cur_offset]
      /\ writer' = [write_offset |-> w, read_offset |-> reader.cur_offset,
                    cur_offset |-> w]
  BY <1>1, Synced
<1>3. Ahead(ReadHead, w) < BufferSize /\ (w = 0 => ReadHead = 0)
  BY <1>1 DEF InTurn
<1>4. Ends' /\ InTurn' /\ ReadHead' = ReadHead /\ writer'.cur_offset = w
  BY <1>1, <1>2, <1>3, SyncKeepsTurn
<1>5. Keys' /\ UNCHANGED Unread
  BY <1>1, <1>4 DEF Keys, Unread
<1> QED BY <1>4, <1>5 DEF StaysBehindReader

\* A key stored and published in one go.
LEMMA StoreStep ==
  ASSUME MaxBacklog < BufferSize, KInv, UserHoldsBack, NEW id \in Ids,
         CanCreate(writer, KeySize),
         memory' = Store(memory, writer.cur_offset, id, KeySize, 0, KeySize),
         SyncWith(AfterCreate(writer, KeySize)), UNCHANGED wrapping
  PROVE  Ends' /\ InTurn' /\ Keys' /\ Queue!Press(id) /\ StaysBehindReader
<1> PICK w, e, r : w = writer.cur_offset /\ e = Wrap(w + KeySize) /\ r = ReadHead
  OBVIOUS
<1>1. Ends /\ InTurn /\ Keys /\ w \in Offsets /\ memory \in [Cells -> Bytes] /\ r \in Offsets
  BY HeadTypes DEF KInv, Ends
<1>2. Ahead(r, w) + KeySize < BufferSize
  BY <1>1, RoomForKey
<1>3. e \in Offsets \ {0} /\ Ahead(r, e) = Ahead(r, w) + KeySize
  BY <1>1, <1>2, WriterMoves
<1>4. /\ reader' = [write_offset |-> e, read_offset |-> reader.cur_offset,
                    cur_offset |-> reader.cur_offset]
      /\ writer' = [write_offset |-> e, read_offset |-> reader.cur_offset,
                    cur_offset |-> e]
  <2>1. AfterCreate(writer, KeySize).cur_offset = e
    BY <1>1 DEF AfterCreate, Ends
  <2> QED BY <1>1, <2>1, Synced
<1>5. memory' = Store(memory, w, id, KeySize, 0, KeySize) /\ memory' \in [Cells -> Bytes]
  <2>1. 0 \in Nat /\ KeySize \in Nat /\ memory \in [Cells -> Bytes]
    BY <1>1, Sizes DEF Ends
  <2>2. Store(memory, w, id, KeySize, 0, KeySize) \in [Cells -> Bytes]
    BY ONLY <1>1, <2>1, StoreType, id \in Ids
  <2> QED BY <1>1, <2>2
<1>6. Ends' /\ InTurn' /\ ReadHead' = r /\ writer'.cur_offset = e
  <2>1. Ahead(ReadHead, e) < BufferSize /\ (e = 0 => ReadHead = 0)
    BY <1>2, <1>3
  <2> QED BY <1>1, <1>3, <1>4, <1>5, <2>1, SyncKeepsTurn
<1>7. PICK N \in Nat : \E f : KeysAt(memory, N, f, r, w)
  BY <1>1 DEF Keys
<1>8. PICK f : KeysAt(memory, N, f, r, w)
  BY <1>7
<1> DEFINE g == [n \in 0..(N + 1) |-> IF n = N + 1 THEN Wrap(w + KeySize) ELSE f[n]]
           M == N + 1
<1> DEFINE mem == memory'
<1>9. /\ KeysAt(mem, M, g, r, e)
      /\ \A n \in 0..(N - 1) : mem[Cell(g[n])] = memory[Cell(f[n])]
      /\ g[N] = w /\ mem[Cell(w)].id = id
  <2>1. mem = Store(memory, w, id, KeySize, 0, KeySize)
    BY <1>5
  <2> HIDE DEF mem
  <2> PICK h : h = g
    OBVIOUS
  <2>2. /\ KeysAt(mem, N + 1, h, r, Wrap(w + KeySize))
        /\ \A n \in 0..(N - 1) : mem[Cell(h[n])] = memory[Cell(f[n])]
        /\ h[N] = w /\ mem[Cell(w)].id = id
    BY <1>1, <1>2, <1>8, <2>1, KeyStored
  <2> HIDE DEF g
  <2> QED BY <2>2
<1> HIDE DEF g, mem, M
<1>10. M \in Nat /\ M - 1 = N
  BY DEF M
<1>11. Keys'
  <2>1. \E n \in Nat : \E h : KeysAt(mem, n, h, r, e)
    BY <1>9, <1>10
  <2>2. \E n \in Nat : \E h : KeysAt(mem, n, h, ReadHead', writer'.cur_offset)
    BY <1>6, <2>1
  <2> QED BY <2>2 DEF Keys, mem
<1>12. Queue!Press(id)
  <2> DEFINE a == IdsAt(memory, N, f)
             b == IdsAt(mem, M, g)
  <2>1. Ahead(r, w) < BufferSize /\ Ahead(r, e) < BufferSize
    BY <1>1, <1>2, <1>3 DEF InTurn
  <2>2. UnreadIn(memory, r, w) = Items(a, 0, N) /\ a \in [0..(N - 1) -> Ids]
    BY <1>1, <1>8, <2>1, KeysSpelled
  <2>3. UnreadIn(mem, r, e) = Items(b, 0, M) /\ b \in [0..(M - 1) -> Ids]
    <3> PICK m, k, x : m = M /\ k = g /\ x = mem
      OBVIOUS
    <3>1. m \in Nat /\ KeysAt(x, m, k, r, e) /\ e \in Offsets
      BY <1>3, <1>9, <1>10
    <3>2. UnreadIn(x, r, e) = Items(IdsAt(x, m, k), 0, m) /\ IdsAt(x, m, k) \in [0..(m - 1) -> Ids]
      BY <1>1, <2>1, <3>1, KeysSpelled
    <3> QED BY <3>2
  <2>4. b[N] = id /\ \A n \in 0..(N - 1) : b[n] = a[n]
    <3>1. N \in 0..(M - 1) /\ \A n \in 0..(N - 1) : n \in 0..(M - 1)
      BY <1>10
    <3> QED BY <1>9, <3>1 DEF IdsAt
  <2> HIDE DEF a, b
  <2>5. Items(b, 0, N + 1) = Append(Items(a, 0, N), b[N])
    BY <1>10, <2>2, <2>3, <2>4, KeyAppended
  <2>6. UnreadIn(mem, r, e) = Append(UnreadIn(memory, r, w), id)
    BY <2>2, <2>3, <2>4, <2>5 DEF M
  <2>7. Unread = UnreadIn(memory, r, w)
    BY UnreadSeen
  <2>8. Unread' = UnreadIn(mem, r, e)
    BY <1>6 DEF Unread, UnreadIn, mem
  <2> QED BY <2>6, <2>7, <2>8 DEF Queue!Press
<1>13. StaysBehindReader
  <2>1. Cell(r) = Cell(w) \/ Ahead(Cell(w), Cell(r)) > KeySize
    BY <1>1, <1>2, Sizes DEF Ahead, Cell, Offsets
  <2> QED BY <2>1 DEF StaysBehindReader
<1> QED BY <1>6, <1>11, <1>12, <1>13

\* The reader's head moves on within the turn.
LEMMA ReaderMoves ==
  ASSUME NEW rp \in Nat, NEW r \in Offsets, NEW w \in Offsets,
         KeySize <= Ahead(r, w), Ahead(r, w) < BufferSize,
         rp <= BufferSize => Ahead(rp, r) + Ahead(r, w) < BufferSize
  PROVE  /\ Wrap(r + KeySize) \in Offsets \ {0}
         /\ Ahead(Wrap(r + KeySize), w) = Ahead(r, w) - KeySize
         /\ rp <= BufferSize => Ahead(rp, Wrap(r + KeySize)) = Ahead(rp, r) + KeySize
<1>1. /\ Wrap(r + KeySize) \in Offsets \ {0}
      /\ Ahead(Wrap(r + KeySize), w) = Ahead(r, w) - KeySize
  BY Sizes DEF Offsets, Ahead, Wrap
<1>2. rp <= BufferSize => Ahead(rp, Wrap(r + KeySize)) = Ahead(rp, r) + KeySize
  BY Sizes DEF Offsets, Ahead, Wrap
<1> QED BY <1>1, <1>2

LEMMA ReadStep ==
  ASSUME KInv, ReadKey
  PROVE  Ends' /\ InTurn' /\ Keys' /\ Queue!Take /\ StaysBehindReader
<1> PICK w, r, rp : w = writer.cur_offset /\ r = ReadHead /\ rp = reader.read_offset
  OBVIOUS
<1> PICK e, h : e = Wrap(r + KeySize) /\ h = r + KeySize
  OBVIOUS
<1>1. /\ Ends /\ InTurn /\ Keys /\ w \in Offsets /\ r \in Offsets /\ rp \in Nat
      /\ memory \in [Cells -> Bytes] /\ reader.cur_offset = r
  BY HeadTypes DEF KInv, Ends, ReadKey
<1>2. r # w
  BY <1>1 DEF ReadKey, CanRead, Ends
<1>3. PICK N \in Nat : \E f : KeysAt(memory, N, f, r, w)
  BY <1>1 DEF Keys
<1>4. PICK f : KeysAt(memory, N, f, r, w)
  BY <1>3
<1>5. N \in Nat \ {0}
  BY <1>2, <1>4 DEF KeysAt
<1>6. Ahead(r, w) >= KeySize /\ Ahead(r, w) \in Nat /\ memory[Cell(r)].length = KeySize
  <2>1. 0 \in 0..(N - 1)
    BY <1>5
  <2>2. Ahead(f[0], w) >= KeySize /\ memory[Cell(f[0])].length = KeySize /\ f[0] = r
    BY <1>4, <2>1 DEF KeysAt
  <2> QED BY <1>1, <2>2, HeadTypes
<1>7. /\ Ahead(r, w) < BufferSize
      /\ rp <= BufferSize => Ahead(rp, r) + Ahead(r, w) < BufferSize
      /\ w = 0 => r = 0
  BY <1>1 DEF InTurn
<1>8. /\ e \in Offsets \ {0} /\ Ahead(e, w) = Ahead(r, w) - KeySize
      /\ rp <= BufferSize => Ahead(rp, e) = Ahead(rp, r) + KeySize
  <2>1. KeySize <= Ahead(r, w)
    BY <1>6, Sizes
  <2> QED BY <1>1, <1>7, <2>1, ReaderMoves
<1>9. /\ reader' = [reader EXCEPT !.cur_offset = h] /\ (wrapping' = (h > BufferSize))
      /\ UNCHANGED << memory, writer >>
  BY <1>1, <1>6 DEF ReadKey, NextLength
<1>10. /\ reader'.cur_offset = h /\ reader'.read_offset = rp
       /\ reader'.write_offset = reader.write_offset
       /\ h \in Nat /\ h <= BufferSize + KeySize
       /\ reader' \in [write_offset : Offsets, read_offset : Nat, cur_offset : Nat]
  <2>1. h \in Nat /\ h <= BufferSize + KeySize
    BY <1>1, Sizes DEF Offsets
  <2>2. reader \in [write_offset : Offsets, read_offset : Nat, cur_offset : Nat]
    BY <1>1 DEF Ends
  <2> QED BY <1>9, <2>1, <2>2
<1>11. ReadHead' = e /\ writer'.cur_offset = w
  BY <1>9, <1>10 DEF ReadHead
<1>12. Ends'
  BY <1>1, <1>9, <1>10 DEF Ends
<1>13. InTurn'
  <2>1. Ahead(e, w) < BufferSize
    BY <1>6, <1>7, <1>8, Sizes
  <2>2. w # 0
    <3>1. CASE w = 0
      BY <1>2, <1>7, <3>1
    <3> QED BY <3>1
  <2>3. rp <= BufferSize => Ahead(rp, e) + Ahead(e, w) < BufferSize
    <3>1. rp <= BufferSize => Ahead(rp, r) \in Nat
      BY <1>1, Sizes DEF Ahead, Offsets
    <3> QED BY <1>6, <1>7, <1>8, <3>1, Sizes
  <2>4. e # 0
    BY <1>8
  <2> QED BY <1>10, <1>11, <2>1, <2>2, <2>3, <2>4 DEF InTurn
<1> DEFINE g == [n \in 0..(N - 1) |-> f[n + 1]]
<1>14. KeysAt(memory, N - 1, g, e, w) /\ \A n \in 0..(N - 1) : g[n] = f[n + 1]
  <2> PICK k : k = g
    OBVIOUS
  <2>1. KeysAt(memory, N - 1, k, Wrap(r + KeySize), w)
    BY <1>4, <1>5, KeyRead
  <2> QED BY <2>1
<1> HIDE DEF g
<1>15. N - 1 \in Nat
  BY <1>5
<1>16. Keys'
  <2>1. \E n \in Nat : \E k : KeysAt(memory, n, k, e, w)
    BY <1>14, <1>15
  <2>2. memory' = memory
    BY <1>9
  <2> QED BY <1>11, <2>1, <2>2 DEF Keys
<1>17. Queue!Take
  <2> DEFINE a == IdsAt(memory, N, f)
             M == N - 1
             b == IdsAt(memory, M, g)
  <2>1. Ahead(r, w) < BufferSize /\ Ahead(e, w) < BufferSize
    BY <1>6, <1>7, <1>8, Sizes
  <2>2. UnreadIn(memory, r, w) = Items(a, 0, N) /\ a \in [0..(N - 1) -> Ids]
    BY <1>1, <1>4, <2>1, KeysSpelled
  <2>3. UnreadIn(memory, e, w) = Items(b, 0, M)
    <3> PICK m, k, x : m = M /\ k = g /\ x = memory
      OBVIOUS
    <3>1. m \in Nat /\ KeysAt(x, m, k, e, w) /\ e \in Offsets /\ w \in Offsets
      BY <1>1, <1>8, <1>14, <1>15
    <3>2. /\ UnreadIn(x, e, w) = Items(IdsAt(x, m, k), 0, m)
          /\ IdsAt(x, m, k) \in [0..(m - 1) -> Ids]
      BY <2>1, <3>1, KeysSpelled
    <3> QED BY <3>2
  <2>4. \A n \in 0..((N - 1) - 1) : b[n] = a[n + 1]
    <3>1. \A n \in 0..((N - 1) - 1) : n \in 0..(N - 1) /\ n + 1 \in 0..(N - 1)
      BY <1>5
    <3> QED BY <1>14, <3>1 DEF IdsAt
  <2> HIDE DEF a, b
  <2>5. Items(a, 0, N) # << >> /\ Items(b, 0, N - 1) = Tail(Items(a, 0, N))
    BY <1>5, <2>2, <2>4, KeyTaken
  <2>6. Unread = UnreadIn(memory, r, w)
    BY UnreadSeen
  <2>7. Unread' = UnreadIn(memory, e, w)
    BY <1>9, <1>11 DEF Unread, UnreadIn
  <2> QED BY <2>2, <2>3, <2>5, <2>6, <2>7 DEF Queue!Take
<1>18. StaysBehindReader
  BY <1>11 DEF StaysBehindReader
<1> QED BY <1>12, <1>13, <1>16, <1>17, <1>18

LEMMA WrapStep ==
  ASSUME KInv, WrapHead
  PROVE  Ends' /\ InTurn' /\ Keys' /\ UNCHANGED Unread /\ StaysBehindReader
<1> PICK r : r = ReadHead
  OBVIOUS
<1>1. Ends /\ InTurn /\ Keys /\ r \in Offsets /\ Wrap(r) = r
  BY HeadTypes DEF KInv
<1>2. /\ reader' = [reader EXCEPT !.cur_offset = r] /\ wrapping' = FALSE
      /\ UNCHANGED << memory, writer >>
  BY DEF WrapHead, ReadHead
<1>3. /\ reader'.cur_offset = r /\ reader'.read_offset = reader.read_offset
      /\ reader'.write_offset = reader.write_offset
      /\ reader' \in [write_offset : Offsets, read_offset : Nat, cur_offset : Nat]
  <2>1. r \in Nat
    BY <1>1, Sizes DEF Offsets
  <2>2. reader \in [write_offset : Offsets, read_offset : Nat, cur_offset : Nat]
    BY <1>1 DEF Ends
  <2> QED BY <1>2, <2>1, <2>2
<1>4. ReadHead' = ReadHead
  BY <1>1, <1>3 DEF ReadHead
<1>5. Ends'
  <2>1. r \in Nat /\ r <= BufferSize + KeySize /\ (r > BufferSize) = FALSE
    BY <1>1, Sizes DEF Offsets
  <2> QED BY <1>1, <1>2, <1>3, <2>1 DEF Ends
<1>6. InTurn' /\ Keys' /\ UNCHANGED Unread
  BY <1>1, <1>2, <1>3, <1>4 DEF InTurn, Keys, Unread
<1> QED BY <1>2, <1>5, <1>6 DEF StaysBehindReader

LEMMA KeyIRQStep ==
  ASSUME MaxBacklog < BufferSize, KInv, NEW code \in Codes, KeyIRQ(code)
  PROVE  /\ Ends' /\ InTurn' /\ Keys' /\ StaysBehindReader
         /\ UNCHANGED Unread \/ \E id \in Ids : Queue!Press(id)
<1>1. UserHoldsBack /\ UNCHANGED wrapping
  BY DEF KeyIRQ
<1>2. CASE Meaning(decoder, code) = NoMessage
  <2>1. UNCHANGED << memory, reader, writer, wrapping >>
    BY <1>2 DEF KeyIRQ
  <2>2. ReadHead' = ReadHead
    BY <2>1 DEF ReadHead
  <2> QED BY <2>1, <2>2 DEF KInv, Ends, InTurn, Keys, Unread, StaysBehindReader
<1>3. CASE Meaning(decoder, code) # NoMessage
  <2> PICK id : id = Meaning(decoder, code)
    OBVIOUS
  <2>1. id \in Ids /\ StoreKey(id)
    BY <1>3, MeaningType DEF KInv, KeyIRQ
  <2>2. CASE CanCreate(writer, KeySize)
    <3>1. Ends' /\ InTurn' /\ Keys' /\ Queue!Press(id) /\ StaysBehindReader
      BY <1>1, <2>1, <2>2, StoreStep DEF StoreKey
    <3> QED BY <2>1, <3>1
  <2>3. CASE ~CanCreate(writer, KeySize)
    BY <1>1, <2>1, <2>3, SyncStep DEF StoreKey
  <2> QED BY <2>2, <2>3
<1> QED BY <1>2, <1>3

LEMMA KeyboardStep ==
  ASSUME MaxBacklog < BufferSize, KInv, [KeyboardNext]_keyboardVars
  PROVE  KInv' /\ [Queue!Next]_Unread /\ StaysBehindReader
<1>1. ASSUME NEW code \in Codes, KeyIRQ(code)
      PROVE  Ends' /\ InTurn' /\ Keys' /\ [Queue!Next]_Unread /\ StaysBehindReader
  BY <1>1, KeyIRQStep DEF Queue!Next
<1>2. ASSUME ReadKey
      PROVE  Ends' /\ InTurn' /\ Keys' /\ [Queue!Next]_Unread /\ StaysBehindReader
  BY <1>2, ReadStep DEF Queue!Next
<1>3. ASSUME WrapHead
      PROVE  Ends' /\ InTurn' /\ Keys' /\ [Queue!Next]_Unread /\ StaysBehindReader
  BY <1>3, WrapStep
<1>4. ASSUME Flush
      PROVE  Ends' /\ InTurn' /\ Keys' /\ [Queue!Next]_Unread /\ StaysBehindReader
  BY <1>4, SyncStep DEF Flush
<1>5. ASSUME UNCHANGED keyboardVars
      PROVE  Ends' /\ InTurn' /\ Keys' /\ [Queue!Next]_Unread /\ StaysBehindReader
  <2>1. ReadHead' = ReadHead
    BY <1>5 DEF keyboardVars, ReadHead
  <2> QED BY <1>5, <2>1 DEF KInv, keyboardVars, Ends, InTurn, Keys, Unread, StaysBehindReader
<1>6. DecoderInv'
  BY NextFollows DEF KInv
<1> QED BY <1>1, <1>2, <1>3, <1>4, <1>5, <1>6 DEF KInv, KeyboardNext

LEMMA InitEmpty == KeyboardInit => Unread = << >>
<1> SUFFICES ASSUME KeyboardInit PROVE Unread = << >>
  OBVIOUS
<1>1. ReadHead = 0 /\ writer.cur_offset = 0 /\ 0 \in Offsets
  BY Sizes DEF KeyboardInit, NewEndpoint, ReadHead, Wrap
<1> QED BY <1>1, NothingSpelled, UnreadSeen

\* When the user leaves room before the ring is full around a head caught in the middle
\* of a wrap, the interrupt never stores a key over one the process has yet to read.
THEOREM WriterNeverReaches ==
  ASSUME MaxBacklog < BufferSize
  PROVE  KeyboardSpec => WriterNeverReachesReader
<1>1. KeyboardInit => KInv
  BY InitKeys
<1>2. KInv /\ [KeyboardNext]_keyboardVars => KInv'
  BY KeyboardStep
<1>3. KInv /\ [KeyboardNext]_keyboardVars => StaysBehindReader
  BY KeyboardStep
<1> QED BY <1>1, <1>2, <1>3, PTL DEF KeyboardSpec, WriterNeverReachesReader

\* Under the same assumption the stream implements KeyQueue: the keys the process reads
\* are the keys pressed and not dropped, once each and in order.
THEOREM KeyboardImplementsQueue ==
  ASSUME MaxBacklog < BufferSize
  PROVE  KeyboardSpec => KeysInOrder
<1>1. KeyboardInit => KInv
  BY InitKeys
<1>2. KeyboardInit => Queue!Init
  BY InitEmpty DEF Queue!Init
<1>3. KInv /\ [KeyboardNext]_keyboardVars => KInv'
  BY KeyboardStep
<1>4. KInv /\ [KeyboardNext]_keyboardVars => [Queue!Next]_Unread
  BY KeyboardStep
<1> QED BY <1>1, <1>2, <1>3, <1>4, PTL DEF KeyboardSpec, KeysInOrder, Queue!Spec
===============================================================================
