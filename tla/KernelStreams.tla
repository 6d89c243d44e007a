---------------------------- MODULE KernelStreams ----------------------------
(****************************************************************************)
(* Processes, their stdin and stdout, the flush_streams call that serves    *)
(* them and the keyboard interrupt that syncs behind their backs.           *)
(*                                                                          *)
(* Streams are the channels of StreamChannel, which Streams implements, in  *)
(* units of one message: the kernel writes stdin and reads stdout.  A system*)
(* call runs with interrupts off and is one step; a process's own steps are *)
(* the stretches of library code between two calls that move a stream.      *)
(* Programs are any sequence of the library's fprintf, printCharAt,         *)
(* spawnProcess, openStream (once, then waiting for the reply like          *)
(* sample/snake.c) and flushStreams.  A call that needs the disk never      *)
(* comes back, as Scheduler shows, and nothing else happens then.           *)
(****************************************************************************)
EXTENDS Integers, Sequences, FiniteSets

CONSTANTS
  MaxProcesses,     \* slots of tk_process_table besides the kernel's
  Capacity          \* messages that fit in a stream

ASSUME KernelStreamsAssumption ==
  MaxProcesses \in Nat \ {0} /\ Capacity \in Nat \ {0, 1}

Procs == 1..MaxProcesses
NoProc == 0

VARIABLES
  pc,               \* where each process is in the library; "free": no process
  stdin,            \* stream from the kernel to each process
  stdout,           \* stream from each process to the kernel
  asked,            \* processes that have asked for the keyboard
  keyboardOwner,    \* who reads keyboard_output_stream
  drops,            \* characters printCharAt gave up, one after the other
  log_file,         \* kprintf writes to the disk
  hung              \* a call waits for the disk with interrupts off

vars == << pc, stdin, stdout, asked, keyboardOwner, drops, log_file, hung >>

-----------------------------------------------------------------------------
NewChannel == [pending |-> << >>, ready |-> << >>, held |-> << >>]

HasRoom(ch) == Len(ch.held) + Len(ch.ready) + Len(ch.pending) < Capacity

\* streamCreateMsg; the body is filled later.
Created(ch, msg) == [ch EXCEPT !.pending = Append(ch.pending, msg)]

\* streamReadMsg.
ReadFrom(ch) ==
  [ch EXCEPT !.ready = Tail(ch.ready), !.held = Append(ch.held, Head(ch.ready))]

\* Mutant: what was read is never given back.
SyncedWritten(ch) ==
  [pending |-> << >>, ready |-> ch.ready \o ch.pending, held |-> ch.held]

\* streamSyncStreams.
Synced(ch) ==
  [pending |-> << >>, ready |-> ch.ready \o ch.pending, held |-> << >>]

Message(kind) == [kind |-> kind, filled |-> FALSE]

\* The writer's last message has its body now, wherever a sync has moved it.
Filled(ch) ==
  IF ch.pending # << >>
  THEN [ch EXCEPT !.pending[Len(ch.pending)].filled = TRUE]
  ELSE IF ch.ready # << >>
  THEN [ch EXCEPT !.ready[Len(ch.ready)].filled = TRUE]
  ELSE ch

\* Mutant: the pointer is not published.
BirthStdinUnsynced == Created(NewChannel, "stdout")

\* The streams of a process created by procInitUser: the pointer of its stdout is
\* in its stdin, and published.
BirthStdin == Synced(Created(NewChannel, "stdout"))

Init ==
  /\ pc = [p \in Procs |-> IF p = 1 THEN "init" ELSE "free"]
  /\ stdin = [p \in Procs |-> IF p = 1 THEN BirthStdin ELSE NewChannel]
  /\ stdout = [p \in Procs |-> NewChannel]
  /\ asked = {}
  /\ keyboardOwner = NoProc
  /\ drops = [p \in Procs |-> 0]
  /\ log_file \in BOOLEAN
  /\ hung = FALSE

\* The process is at the place, and gets to run.
At(p, place) == pc[p] = place /\ ~hung

-----------------------------------------------------------------------------
\* The kernel.  A system call works on the part of the state it may change.
Kernel == [pc |-> pc, stdin |-> stdin, stdout |-> stdout, owner |-> keyboardOwner,
           hung |-> hung]

\* streamSync of a user process: the streams it is an owner of.
SyncProc(k, p) ==
  [k EXCEPT !.stdin[p] = Synced(k.stdin[p]), !.stdout[p] = Synced(k.stdout[p])]

\* Mutants: whoever asks is given the keyboard; the reply is not published.
KeyboardOpenToAll(k, p) ==
  LET told == IF HasRoom(k.stdin[p])
              THEN [k EXCEPT !.stdin[p] = Created(k.stdin[p], "keyboard")]
              ELSE k
  IN  SyncProc([told EXCEPT !.owner = p], p)

KeyboardOpenUntold(k, p) ==
  IF k.owner # NoProc THEN k ELSE [k EXCEPT !.owner = p]

\* keyboardOpenStream: the first process to ask captures the keyboard and is told
\* so if its stdin has room, any other gets no answer.
KeyboardOpenStream(k, p) ==
  IF k.owner # NoProc THEN k
  ELSE LET told == IF HasRoom(k.stdin[p])
                   THEN [k EXCEPT !.stdin[p] = Created(k.stdin[p], "keyboard")]
                   ELSE k
       IN  SyncProc([told EXCEPT !.owner = p], p)

\* loadELF, of a program it can read, and procInitUser: the first unused slot.
SpawnProcess(k) ==
  LET slot == CHOOSE q \in Procs :
                k.pc[q] = "free" /\ \A r \in 1..(q - 1) : k.pc[r] # "free"
  IN  [k EXCEPT !.pc[slot] = "init", !.stdin[slot] = BirthStdin]

Handle(k, p, msg) ==
  CASE msg.kind = "open"  -> KeyboardOpenStream(k, p)
    [] msg.kind = "spawn" -> SpawnProcess(k)
    [] OTHER              -> k

\* One round of the loop of flush_streams: what may come of the message read.  With a
\* log file, opening the keyboard or creating a process prints to it, and hangs.  A
\* spawn reads the program, from the disk, which hangs, or from the block cache, and
\* does nothing if there is no such program or it cannot be read or run.
Served(k, p, msg) ==
  LET read  == [k EXCEPT !.stdout[p] = ReadFrom(k.stdout[p])]
      hangs == [read EXCEPT !.hung = TRUE]
  IN  CASE k.hung -> {k}
        [] ~k.hung /\ msg.kind = "open" /\ log_file -> {hangs}
        [] ~k.hung /\ msg.kind = "spawn" /\ log_file -> {hangs, read}
        [] ~k.hung /\ msg.kind = "spawn" /\ ~log_file -> {hangs, read, Handle(read, p, msg)}
        [] OTHER -> {Handle(read, p, msg)}

\* flush_streams: sync, then read and handle messages until none is left.
Flushed(k, p) ==
  LET msgs == SyncProc(k, p).stdout[p].ready
      Drain[n \in 0..Len(msgs)] ==
        IF n = 0 THEN {SyncProc(k, p)}
        ELSE UNION {Served(before, p, msgs[n]) : before \in Drain[n - 1]}
  IN  Drain[Len(msgs)]

\* The call, after which process p goes on at the place given.
FlushStreams(p, from, to) ==
  /\ At(p, from)
  /\ \E after \in Flushed(Kernel, p) :
       /\ pc' = IF after.hung THEN after.pc ELSE [after.pc EXCEPT ![p] = to]
       /\ stdin' = after.stdin
       /\ stdout' = after.stdout
       /\ keyboardOwner' = after.owner
       /\ hung' = after.hung
  /\ UNCHANGED << asked, drops, log_file >>

\* IRQ1 for a key, once the keyboard is captured: streamSync(1), and the kernel is
\* an owner of every stream.
KeyIRQ ==
  /\ ~hung
  /\ keyboardOwner # NoProc
  /\ stdin' = [p \in Procs |-> Synced(stdin[p])]
  /\ stdout' = [p \in Procs |-> Synced(stdout[p])]
  /\ UNCHANGED << pc, asked, keyboardOwner, drops, log_file, hung >>

-----------------------------------------------------------------------------
\* The processes.

Goto(p, place) == pc' = [pc EXCEPT ![p] = place]

\* __init: the first message of stdin is the pointer of stdout.
StartProgram(p) ==
  /\ At(p, "init")
  /\ stdin[p].ready # << >>
  /\ stdin' = [stdin EXCEPT ![p] = ReadFrom(stdin[p])]
  /\ Goto(p, "run")
  /\ UNCHANGED << stdout, asked, keyboardOwner, drops, log_file, hung >>

CreateOut(p, kind) ==
  /\ HasRoom(stdout[p])
  /\ stdout' = [stdout EXCEPT ![p] = Created(stdout[p], Message(kind))]

\* Mutant: the string is copied after the flush.
PrintTextLate(p) ==
  /\ At(p, "run")
  /\ CreateOut(p, "text")
  /\ Goto(p, "flush")
  /\ UNCHANGED << stdin, asked, keyboardOwner, drops, log_file, hung >>

\* fprintf, which gives up when its message does not fit.
PrintText(p) ==
  /\ At(p, "run")
  /\ CreateOut(p, "text")
  /\ Goto(p, "fill and flush")
  /\ UNCHANGED << stdin, asked, keyboardOwner, drops, log_file, hung >>

\* printCharAt: create the message, or flush to make room for it.
PrintChar(p) ==
  /\ At(p, "run")
  /\ \/ CreateOut(p, "char") /\ Goto(p, "fill")
     \/ ~HasRoom(stdout[p]) /\ Goto(p, "full") /\ UNCHANGED stdout
  /\ UNCHANGED << stdin, asked, keyboardOwner, drops, log_file, hung >>

\* printCharAt again after the flush, which gives up this time.
RetryChar(p) ==
  /\ At(p, "retry")
  /\ \/ CreateOut(p, "char") /\ Goto(p, "fill") /\ UNCHANGED drops
     \/ /\ ~HasRoom(stdout[p])
        /\ Goto(p, "run")
        /\ drops' = [drops EXCEPT ![p] = drops[p] + 1]
        /\ UNCHANGED stdout
  /\ UNCHANGED << stdin, asked, keyboardOwner, log_file, hung >>

\* The body of the message just created.
FillMessage(p) ==
  /\ stdout' = [stdout EXCEPT ![p] = Filled(stdout[p])]
  /\ \/ At(p, "fill") /\ Goto(p, "run") /\ drops' = [drops EXCEPT ![p] = 0]
     \/ At(p, "fill and flush") /\ Goto(p, "flush") /\ UNCHANGED drops
     \/ At(p, "fill and ask") /\ Goto(p, "ask") /\ UNCHANGED drops
  /\ UNCHANGED << stdin, asked, keyboardOwner, log_file, hung >>

\* A request to spawn that the kernel has not served.
Spawning(p) ==
  LET unread == stdout[p].ready \o stdout[p].pending
  IN  \E i \in DOMAIN unread : unread[i].kind = "spawn"

\* spawnProcess, with a flush after it.  The system stops when its table is full,
\* so no more is asked for than there are slots.
Spawn(p) ==
  /\ At(p, "run")
  /\ \E q \in Procs : pc[q] = "free"
  /\ \A q \in Procs : ~Spawning(q)
  /\ CreateOut(p, "spawn")
  /\ Goto(p, "fill and flush")
  /\ UNCHANGED << stdin, asked, keyboardOwner, drops, log_file, hung >>

\* openStream of "kb:", with a flush after it.
OpenStream(p) ==
  /\ At(p, "run")
  /\ p \notin asked
  /\ CreateOut(p, "open")
  /\ asked' = asked \cup {p}
  /\ Goto(p, "fill and ask")
  /\ UNCHANGED << stdin, keyboardOwner, drops, log_file, hung >>

\* The loop that waits for the reply to openStream.
ReadReply(p) ==
  /\ At(p, "wait")
  /\ stdin[p].ready # << >>
  /\ stdin' = [stdin EXCEPT ![p] = ReadFrom(stdin[p])]
  /\ Goto(p, IF Head(stdin[p].ready) = "keyboard" THEN "run" ELSE "wait")
  /\ UNCHANGED << stdout, asked, keyboardOwner, drops, log_file, hung >>

\* Flushes made by fprintf and after spawnProcess, by printCharAt, after
\* openStream, and by the program when it likes.
Flush(p) ==
  \/ FlushStreams(p, "flush", "run")
  \/ FlushStreams(p, "full", "retry")
  \/ FlushStreams(p, "ask", "wait")
  \/ FlushStreams(p, "run", "run")

ProcessStep(p) ==
  \/ StartProgram(p)
  \/ PrintText(p) \/ PrintChar(p) \/ RetryChar(p) \/ Spawn(p) \/ OpenStream(p)
  \/ FillMessage(p)
  \/ ReadReply(p)
  \/ Flush(p)

\* The loop of sleep() finds the counter where it was.
DiskPoll ==
  /\ hung
  /\ UNCHANGED vars

Next ==
  \/ \E p \in Procs : ProcessStep(p)
  \/ KeyIRQ
  \/ DiskPoll

\* A process that is inside openStream and its flush, or in the loop that waits
\* for the reply, gets to run.
AskStep(p) ==
  \/ pc[p] = "fill and ask" /\ FillMessage(p)
  \/ FlushStreams(p, "ask", "wait")
  \/ ReadReply(p)

Fairness == \A p \in Procs : WF_vars(AskStep(p))

Spec == Init /\ [][Next]_vars /\ Fairness

-----------------------------------------------------------------------------
\* __init dereferences the first message of stdin without a test: whenever a
\* process is about to start its program the pointer of its stdout is there to be
\* read, whatever the process that spawned it and the interrupts did since.
StdoutPointerDelivered ==
  \A p \in Procs :
    pc[p] = "init" => stdin[p].ready # << >> /\ Head(stdin[p].ready) = "stdout"

\* The interrupt may publish a message whose body is not written, but the kernel
\* never handles one: it reads stdout only in a call of the process that writes it.
OnlyFilledHandled ==
  \A p \in Procs : \A i \in DOMAIN stdout[p].held : stdout[p].held[i].filled

\* "For now, only one process can capture the keyboard input at a time": a process
\* is told of the keyboard stream only if it is the one whose stream the interrupt
\* writes to, and is told once.
KeyboardCapturedOnce ==
  \A p \in Procs :
    LET s    == stdin[p].held \o stdin[p].ready \o stdin[p].pending
        told == {i \in DOMAIN s : s[i] = "keyboard"}
    IN  told # {} => keyboardOwner = p /\ Cardinality(told) = 1

\* printCharAt on a full stream loses a character, as the flush that drains the
\* stream publishes the space only at the next sync; but it never loses two in a
\* row.
NoTwoDropsInARow == \A p \in Procs : drops[p] <= 1

\* When a process asks for a keyboard nobody has captured, somebody captures it and
\* is let out of its waiting loop, unless the machine hangs.
CaptureIsAnswered ==
  \A p \in Procs :
    (pc[p] = "fill and ask" /\ keyboardOwner = NoProc) ~>
      \/ hung
      \/ \E q \in Procs : keyboardOwner = q /\ pc[q] = "run"
=============================================================================
