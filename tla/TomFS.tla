--------------------------------- MODULE TomFS ---------------------------------
(****************************************************************************)
(* A program on a TomFS volume: it creates, opens, writes and closes files, *)
(* one call at a time, as the kernel's callers do (fuse.c has no lock and   *)
(* is run with threads: that is not modelled).  The volume fills its        *)
(* device.  Accesses of the device may fail in a call, and the machine may  *)
(* stop between any two writes.  A call is computed at once, as nothing     *)
(* else runs; what it writes reaches the device one block at a time.        *)
(****************************************************************************)
EXTENDS TomFSOps, Bags

CONSTANTS
  Lengths,          \* cells a program writes at once
  Failures,         \* the ways the device may fail in a call
  MaxFileCells,     \* bound on the length of a file
  MaxCalls,         \* bound on the calls, closing aside; one with failures counts double
  MaxOpen           \* bound on the handles the program holds

ASSUME TomFSAssumption ==
  /\ total_blocks \in Nat /\ total_blocks > 3
  /\ BlockCells \in Nat \ {0}
  /\ MAX_FILE_HANDLES \in Nat \ {0}
  /\ Lengths \subseteq Nat \ {0}
  /\ NoFailures \in Failures
  /\ Failures \subseteq [reported : SUBSET Nat, ignored : SUBSET Nat]
  /\ {MaxFileCells, MaxCalls, MaxOpen} \subseteq Nat
  \* Programs open no "." or "..", and no file as a directory.
  /\ FileNames \cap DirNames = {}
  /\ {".", ".."} \cap (FileNames \cup DirNames) = {}

VARIABLES
  device,           \* what the device holds
  handles,          \* gFileHandles
  root_dir_size,    \* of the header in memory
  pending,          \* states the device still goes through in the call in progress
  held,             \* handles the program was given and has to close, with their blocks
  promised,         \* what the files the program created must hold
  completed,        \* promised, as of the end of the call in progress
  size_lost,        \* the device has failed where the code does not look
  calls

vars == << device, handles, root_dir_size, pending, held, promised, completed, size_lost,
           calls >>

\* A promise: the size the file has at least, and what each cell may be.
Anything == DataCells \cup {ZeroCell}
NoPromise == [size |-> 0, cells |-> [i \in 0..(MaxFileCells - 1) |-> Anything]]

Init ==
  /\ device = FormattedDevice
  /\ handles = [h \in Slots |-> FreeHandle]
  /\ root_dir_size = device.root_dir_size
  /\ pending = << >>
  /\ held = EmptyBag
  /\ promised = << >>
  /\ completed = << >>
  /\ size_lost = FALSE
  /\ calls = 0

-----------------------------------------------------------------------------
\* What the device holds: every file with an entry in the root directory or in a
\* directory with an entry there.
Root == [mode |-> "dir", block_index |-> RootDirectory, file_size |-> device.root_dir_size]

EntriesOf(dir) ==
  {e \in Listing(device, dir.block_index, dir.file_size) : e.block_index # 0}

Directories == {Root} \cup {e \in EntriesOf(Root) : e.mode = "dir"}

Files == {Root} \cup UNION {EntriesOf(d) : d \in Directories}

\* What the directory of a file holds, as its open handle sees it.
EntriesBeside(h) ==
  IF handles[h].directory = NULL THEN {}
  ELSE EntriesOf([block_index |-> handles[handles[h].directory].block_index,
                  file_size   |-> handles[handles[h].directory].current_size])

-----------------------------------------------------------------------------
View(failures) == NewView(device, handles, root_dir_size, failures)
Ready == pending = << >>
Held(h) == [handle |-> h, block |-> handles[h].block_index]

Paths == {<< >>} \cup {<< d >> : d \in DirNames}

\* Starts the call that ends in the view v.
Begin(v) ==
  /\ handles' = v.handles
  /\ root_dir_size' = v.root_dir_size
  /\ pending' = v.writes
  /\ UNCHANGED device

\* The program gets the handle that the call returned, if any.
Receive(v) ==
  held' = IF v.ret = NULL THEN held
          ELSE held (+) SetToBag({[handle |-> v.ret, block |-> v.handles[v.ret].block_index]})

Promise(b) == IF b \in DOMAIN promised THEN promised[b] ELSE NoPromise

Promising(b, promise) ==
  [f \in DOMAIN promised \cup {b} |-> IF f = b THEN promise ELSE promised[f]]

\* What may fail in the next call.
MayFail ==
  IF calls + 2 <= MaxCalls THEN Failures
  ELSE IF calls < MaxCalls THEN {NoFailures}
  ELSE {}

\* A failure after more writes than the call does is none.
FailureMet(v, failures) ==
  failures = NoFailures \/
  \E k \in failures.reported \cup failures.ignored : k <= Len(v.writes)

Call(v, failures) ==
  /\ FailureMet(v, failures)
  /\ calls' = calls + (IF failures = NoFailures THEN 1 ELSE 2)
  /\ size_lost' = (size_lost \/ failures.ignored # {})
  /\ Begin(v)

Create(v, failures) ==
  /\ Call(v, failures)
  /\ Receive(v)
  /\ completed' = IF v.ret = NULL \/ size_lost' THEN promised
                  ELSE Promising(v.handles[v.ret].block_index, NoPromise)
  /\ UNCHANGED promised

CreateNewFile ==
  /\ Ready
  /\ BagCardinality(held) < MaxOpen
  /\ \E path \in Paths, name \in FileNames, coin \in Coins, failures \in MayFail :
       Create(CreateFile(View(failures), path, "file", name, coin), failures)

\* A directory gets the lowest of the free blocks, to keep the volumes few.
CreateNewDirectory ==
  /\ Ready
  /\ BagCardinality(held) < MaxOpen
  /\ \E name \in DirNames, failures \in MayFail :
       Create(CreateDirectory(View(failures), << >>, name, "low"), failures)

Open(v, failures) ==
  /\ Call(v, failures)
  /\ Receive(v)
  /\ UNCHANGED << promised, completed >>

OpenExisting ==
  /\ Ready
  /\ BagCardinality(held) < MaxOpen
  /\ \E path \in Paths, failures \in MayFail :
       \/ Open(OpenPath(View(failures), path), failures)
       \/ \E name \in FileNames : Open(OpenFile(View(failures), path, name), failures)

\* A write may have reached the device in part until it has returned; one that fails
\* leaves it so.  None is promised to last once a size has been lost.
Written(b, offset, n, value, v) ==
  LET range  == offset..(offset + n - 1)
      old    == Promise(b)
      after  == [size  |-> Max({old.size, offset + n}),
                 cells |-> [i \in DOMAIN old.cells |->
                              IF i \in range THEN {value} ELSE old.cells[i]]]
      during == [old EXCEPT !.cells =
                   [i \in DOMAIN old.cells |->
                      IF i \in range THEN @[i] \cup {value} ELSE @[i]]]
  IN  /\ promised' = IF b \in DOMAIN promised \/ ~ size_lost' THEN Promising(b, during)
                     ELSE promised
      /\ completed' = IF v.ret = FAILED \/ size_lost' THEN promised' ELSE Promising(b, after)

Rewrite(token, offset, n, value, v, failures) ==
  /\ Call(v, failures)
  /\ Written(token.block, offset, n, value, v)
  /\ UNCHANGED held

WriteCells ==
  /\ Ready
  /\ \E token \in DOMAIN held, n \in Lengths, value \in DataCells, coin \in Coins,
        failures \in MayFail :
     \E offset \in 0..handles[token.handle].current_size :
       /\ \E e \in EntriesBeside(token.handle) :
            e.block_index = token.block /\ e.mode = "file"
       /\ offset + n <= MaxFileCells
       /\ Rewrite(token, offset, n, value,
                  WriteFile(View(failures), token.handle, [i \in 1..n |-> value], offset, coin),
                  failures)

Close ==
  /\ Ready
  /\ \E token \in DOMAIN held :
       /\ handles' = CloseHandle(View(NoFailures), token.handle).handles
       /\ held' = held (-) SetToBag({token})
  /\ UNCHANGED << device, root_dir_size, pending, promised, completed, size_lost,
                  calls >>

\* A block reaches the device; with the last one the call returns.
Persist ==
  /\ pending # << >>
  /\ device' = Head(pending)
  /\ pending' = Tail(pending)
  /\ promised' = IF Len(pending) = 1 THEN completed ELSE promised
  /\ UNCHANGED << handles, root_dir_size, held, completed, size_lost, calls >>

\* The machine stops and starts again: only the device is left, from which the header
\* is read.
Crash ==
  /\ pending' = << >>
  /\ root_dir_size' = device.root_dir_size
  /\ handles' = [h \in Slots |-> FreeHandle]
  /\ held' = EmptyBag
  /\ completed' = promised
  /\ UNCHANGED << device, promised, size_lost, calls >>

Next ==
  \/ CreateNewFile
  \/ CreateNewDirectory
  \/ OpenExisting
  \/ WriteCells
  \/ Close
  \/ Persist
  \/ Crash

Spec == Init /\ [][Next]_vars

-----------------------------------------------------------------------------
\* At every moment, also after a crash, each file has its own blocks: its chain has no
\* loop, every block of it is marked in the bitmap, and no other file shares it.
ChainsApart ==
  /\ \A f \in Files : /\ IsInjective(Chain(device, f.block_index))
                      /\ Range(Chain(device, f.block_index)) \subseteq device.marked
  /\ \A f, g \in Files :
       f # g =>
         Range(Chain(device, f.block_index)) \cap Range(Chain(device, g.block_index)) = {}

\* At every moment, also after a crash, the size in an entry does not go past the blocks
\* of the file.
SizesCovered ==
  \A f \in Files : f.file_size <= Len(Chain(device, f.block_index)) * BlockCells

\* What a completed call created or wrote, before the device failed where the code does
\* not look (tomfs.c:579, 583, 857), is there for good: the file has an entry of at least
\* its size, and reading it back gives what was written last, whatever calls, failures
\* of either kind and restarts follow.
PromisesKept ==
  \A b \in DOMAIN promised :
    \E f \in Files :
      /\ f.block_index = b
      /\ f.file_size >= promised[b].size
      /\ f.mode = "file" =>
           LET h   == [FreeHandle EXCEPT !.block_index = b, !.current_size = f.file_size]
               buf == ReadFile(device, h, promised[b].size, 0).buf
           IN  \A i \in 1..promised[b].size : buf[i] \in promised[b].cells[i - 1]

\* Between calls, unless the device has failed where the code does not look, an open
\* handle agrees with the entry of its file about the size, and its directory's handle is
\* open: what is written through one handle is seen through all, and the entry can be
\* updated.
HandlesAgree ==
  Ready /\ ~ size_lost =>
    \A h \in Slots :
      handles[h].block_index # 0 =>
        /\ \E f \in Files : /\ f.block_index = handles[h].block_index
                            /\ f.file_size = handles[h].current_size
        /\ handles[h].block_index # RootDirectory =>
             /\ handles[h].directory # NULL
             /\ \E e \in EntriesBeside(h) : e.block_index = handles[h].block_index

\* A handle the program has yet to close stands for the file it was given for: closing
\* other handles, or directories on the way, does not free it.
HeldHandlesStayOpen ==
  \A token \in DOMAIN held : handles[token.handle].block_index = token.block
=============================================================================
