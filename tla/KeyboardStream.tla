---------------------------- MODULE KeyboardStream ----------------------------
(****************************************************************************)
(* The stream from the keyboard interrupt to the process that captured the  *)
(* keyboard (keyboardProcessCode, and streamReadMsg in the process).        *)
(*                                                                          *)
(* The writer is the interrupt handler: it decodes a code of the keyboard,  *)
(* creates a message, fills it and syncs in one go.  The reader is a user   *)
(* process, so it is interrupted anywhere, also in streamReadMsg between the*)
(* store of the advanced head and the store that wraps it (gcc -Os, the     *)
(* Makefile's flags, emits both), and it may be switched away from there    *)
(* while more keys arrive.                                                  *)
(****************************************************************************)
EXTENDS StreamState, KeyCodes

CONSTANTS
  KeySize,          \* sizeof(TKMsgKeyCode)
  MaxBacklog        \* bytes of keys that may pile up while a head read in the
                    \* middle of a wrap is public

ASSUME KeyboardAssumption ==
  /\ KeySize \in Nat
  /\ MaxBacklog \in Nat
  /\ HeaderSize <= KeySize /\ KeySize <= MaxMessageSize /\ KeySize < BufferSize
  /\ Ids = Messages

VARIABLES
  wrapping,         \* the reader stored an advanced head it has not wrapped yet
  held,             \* the message streamReadMsg returned last, until a flush
  decoder,          \* is_shift_pressed and state_arrow_key
  keyboard          \* the keyboard: it has sent a prefix, shift keys are held down, and the
                    \* last code of a shift key was untrue of them

keyboardVars == << memory, reader, writer, wrapping, held, decoder, keyboard >>

NoKey == [at |-> 0, id |-> EmptyId]

KeyboardInit ==
  /\ memory = EmptyMemory
  /\ reader = NewEndpoint
  /\ writer = NewEndpoint
  /\ wrapping = FALSE
  /\ held = NoKey
  \* The keyboard has been in use when it is captured.
  /\ \E prefixed, misled \in BOOLEAN, shifts \in SUBSET ShiftKeys :
       /\ keyboard = [prefixed |-> prefixed, shifts |-> shifts, misled |-> misled]
       /\ decoder = [is_shift_pressed |-> misled = (shifts = {}), state_arrow_key |-> prefixed]

\* The head the reader has once its call is over.
ReadHead == Wrap(reader.cur_offset)

\* streamSyncStreams on the reader and a writer that may just have moved.
SyncWith(w) ==
  /\ reader' = IF CanSync(reader, w) THEN Publish(reader, reader, w) ELSE reader
  /\ writer' = IF CanSync(reader, w) THEN Publish(w, reader, w) ELSE w

\* Bytes from the read head to the end.
Backlog == Ahead(Cell(ReadHead), Cell(writer.cur_offset))

\* The user stops typing in time when an interrupt caught the reader between its
\* two stores.  This is what the code does not see to; it deals with the rest.
UserHoldsBack ==
  writer.read_offset > BufferSize => Backlog + KeySize <= MaxBacklog

\* The shift keys held down after a code.  A prefixed code of a shift key is made up by the
\* keyboard, around an arrow or Print Screen, and no key moves.
HeldShifts(code) ==
  IF keyboard.prefixed \/ code.key \notin ShiftKeys THEN keyboard.shifts
  ELSE IF code.up THEN keyboard.shifts \ {code.key}
  ELSE keyboard.shifts \cup {code.key}

\* The code is a shift key's release although one is held down, because it is made up or
\* the other one still is, or a made-up press although none is.
Misleads(code) ==
  IF code.key \in ShiftKeys THEN code.up = (HeldShifts(code) # {}) ELSE keyboard.misled

\* The codes the keyboard may send next, and what they do to it: a prefix precedes another
\* code, and a shift key is released when it is held down.
Sends(code) ==
  /\ keyboard.prefixed => code # Prefix
  /\ ~keyboard.prefixed /\ code.up /\ code.key \in ShiftKeys => code.key \in keyboard.shifts
  /\ keyboard' =
       [prefixed |-> code = Prefix,
        shifts   |-> HeldShifts(code),
        misled   |-> Misleads(code)]

\* Mutant: a key is stored whether it fits or not.
StoreKeyUnchecked(message) ==
  /\ memory' = Store(memory, writer.cur_offset, message, KeySize, 0, KeySize)
  /\ SyncWith(AfterCreate(writer, KeySize))

\* A key that does not fit is dropped; the streams of the kernel are synced either way.
StoreKey(message) ==
  IF CanCreate(writer, KeySize)
  THEN /\ memory' = Store(memory, writer.cur_offset, message, KeySize, 0, KeySize)
       /\ SyncWith(AfterCreate(writer, KeySize))
  ELSE SyncWith(writer) /\ UNCHANGED memory

\* IRQ1, keyboardProcessCode.
KeyIRQ(code) ==
  /\ UserHoldsBack
  /\ Sends(code)
  /\ decoder' = Decoded(decoder, code)
  /\ IF Meaning(decoder, code) = NoMessage
     THEN UNCHANGED << memory, reader, writer >>
     ELSE StoreKey(Meaning(decoder, code))
  /\ UNCHANGED << wrapping, held >>

\* streamReadMsg as far as the store of the advanced head.
ReadKey ==
  /\ ~wrapping
  /\ CanRead(reader)
  /\ LET head == reader.cur_offset + NextLength(memory, reader)
     IN  /\ reader' = [reader EXCEPT !.cur_offset = head]
         /\ wrapping' = (head > BufferSize)
  /\ held' = [at |-> reader.cur_offset, id |-> memory[Cell(reader.cur_offset)].id]
  /\ UNCHANGED << memory, writer, decoder, keyboard >>

\* Mutant: the head stays past the buffer's end.
WrapHeadForgotten ==
  /\ wrapping
  /\ wrapping' = FALSE
  /\ UNCHANGED << memory, reader, writer, held, decoder, keyboard >>

\* The rest of streamReadMsg, when the head went past the buffer's end.
WrapHead ==
  /\ wrapping
  /\ reader' = [reader EXCEPT !.cur_offset = Wrap(reader.cur_offset)]
  /\ wrapping' = FALSE
  /\ UNCHANGED << memory, writer, held, decoder, keyboard >>

\* The flush_streams call: what was read is given back.
Flush ==
  /\ ~wrapping
  /\ SyncWith(writer)
  /\ held' = NoKey
  /\ UNCHANGED << memory, wrapping, decoder, keyboard >>

KeyboardNext ==
  \/ \E code \in Codes : KeyIRQ(code)
  \/ ReadKey
  \/ WrapHead
  \/ Flush

KeyboardSpec == KeyboardInit /\ [][KeyboardNext]_keyboardVars

-----------------------------------------------------------------------------
\* "Write pointer can never pass or even reach parity to the read pointer"
\* (streamCreateMsg): when the writer's head moves, the reader's is further ahead.
StaysBehindReader ==
  writer'.cur_offset # writer.cur_offset =>
    LET w == Cell(writer.cur_offset)
        r == Cell(ReadHead)
    IN  r = w \/ Ahead(w, r) > KeySize

WriterNeverReachesReader == [][StaysBehindReader]_keyboardVars

\* The process may look at a message until it gives it back: "Changes in the head
\* offset aren't public until the system sets write_offset or read_offset on both
\* pointers simultaneously, which obviously requires a system call" (streams.h).
HeldKeyIntact ==
  held # NoKey => Stored(memory, held.at, held.id, KeySize, KeySize)

\* From one interrupt to the next the kernel knows where it is in a sequence of codes, so
\* that a key is an arrow just when its code was prefixed; and it is wrong about a shift key
\* being down only since a code that was untrue of them (keyboardProcessCode takes the
\* prefixed codes of shifts for shifts, and the release of one shift for that of both):
\* the next true one puts it right.
DecoderFollowsKeyboard ==
  /\ decoder.state_arrow_key = keyboard.prefixed
  /\ ~keyboard.misled => decoder.is_shift_pressed = (keyboard.shifts # {})

\* The keys between the reader's head and the writer's.
Unread ==
  LET found == MessagesBetween(memory, ReadHead, writer.cur_offset)
  IN  [i \in DOMAIN found |-> found[i].id]

Queue == INSTANCE KeyQueue WITH Keys <- Ids, queue <- Unread

\* The keys read are the keys pressed (and not dropped), once each, in order,
\* wherever in streamReadMsg the interrupts fall.
KeysInOrder == Queue!Spec
=============================================================================
