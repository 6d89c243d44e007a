------------------------------- MODULE KeyCodes -------------------------------
(****************************************************************************)
(* What keyboardProcessCode makes of the codes the keyboard sends, one to an*)
(* interrupt, and what it remembers from one to the next.  A code is a key, *)
(* pressed or released; the keys of the arrows also stand for the digits of *)
(* the keypad, which send the same codes without the prefix 0xe0.           *)
(****************************************************************************)
CONSTANTS
  CharKeys,         \* keys with a character in the two tables
  ShiftKeys,        \* 0x2a and 0x36
  ArrowKeys,        \* 0x48, 0x50, 0x4b, 0x4d
  OtherKeys         \* keys the kernel does not know

KeyCode(key, up) == [key |-> key, up |-> up]

\* 0xe0, as a key of its own.
Prefix == KeyCode("prefix", TRUE)

Codes ==
  {Prefix} \cup
  {KeyCode(key, up) : key \in CharKeys \cup ShiftKeys \cup ArrowKeys \cup OtherKeys,
                      up \in BOOLEAN}

\* TKMsgKeyCode.  A shift's message has the type of a character, and no character:
\* TKB_KEY_TYPE_SHIFT is TKB_KEY_TYPE_ASCII.
MsgKeyCode(type, action, ascii, dir) ==
  [type |-> type, action |-> action, ascii |-> ascii, dir |-> dir]

NoChar == << >>
Char(key, shifted) == << key, shifted >>
NoDir == "none"
Action(code) == IF code.up THEN "up" ELSE "down"

NoMessage   == MsgKeyCode("none", "none", NoChar, NoDir)
OfShift     == MsgKeyCode("ascii", "none", NoChar, NoDir)
OfArrow(code) == MsgKeyCode("arrow", Action(code), NoChar, code.key)
OfChar(code, shifted) == MsgKeyCode("ascii", Action(code), Char(code.key, shifted), NoDir)

Messages ==
  {OfShift}
  \cup {OfArrow(code) : code \in {c \in Codes : c.key \in ArrowKeys}}
  \cup {OfChar(code, shifted) : code \in {c \in Codes : c.key \in CharKeys},
                                shifted \in BOOLEAN}

\* is_shift_pressed and state_arrow_key.
Decoders == [is_shift_pressed : BOOLEAN, state_arrow_key : BOOLEAN]

\* Mutant: the prefix is only forgotten when an arrow followed it.
DecodedPrefixKept(d, code) ==
  [is_shift_pressed |->
     IF code.key \in ShiftKeys THEN ~code.up ELSE d.is_shift_pressed,
   state_arrow_key |->
     IF d.state_arrow_key THEN code.key \notin ArrowKeys ELSE code = Prefix]

\* What is remembered after a code.
Decoded(d, code) ==
  [is_shift_pressed |->
     IF code.key \in ShiftKeys THEN ~code.up ELSE d.is_shift_pressed,
   state_arrow_key |-> ~d.state_arrow_key /\ code = Prefix]

\* The message the code is worth.
Meaning(d, code) ==
  CASE code.key \in ShiftKeys                        -> OfShift
    [] code.key \in CharKeys                         -> OfChar(code, d.is_shift_pressed)
    [] code.key \in ArrowKeys /\ d.state_arrow_key   -> OfArrow(code)
    [] OTHER                                         -> NoMessage
=============================================================================
