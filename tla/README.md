# tom-os: a TLA+ model of the kernel, checked and partly proved

tom-os is a small 32-bit operating system: a bootstrap kernel, a library of
message streams by which processes and the kernel talk, a standard library, two
sample programs and a filesystem (TomFS). This directory holds TLA+ models of it,
TLC configurations that check them on small instances, and TLAPS proofs.

## 1. Inventory

| Part | Code | State | Operations | What makes it correct |
|---|---|---|---|---|
| Stream library | `streamlib/streams.c`, `include/streams.h` | two endpoints (`write_offset`, `read_offset` public; `cur_offset` private) and a ring buffer | create, read, sync | bounded FIFO: no message overwritten, torn, lost or read twice |
| Kernel streams | `stream.c`, `syscall.c` | table of streams with their owners | `streamCreate`, `streamSync`, the flush call | requests are served once, filled, and in order; a full stream recovers |
| Keyboard | `keyboard.c` | the one capturing stream, shift and arrow state | open, a scan code | one owner; keys in order whatever they interrupt |
| Processes | `process.c`, `kernel-entry.asm`, `interrupt.c` | process table, current process, frames on kernel stacks | init, start, tick, switch, sleep, exit | each runs in its own context; none is forgotten, starved or revived |
| Heap | `heap.c` | segments, bitmap, group headers, cursor | `initHeap`, `allocPage`, small allocator | no page twice, none lost |
| Virtual memory | `vmm.c`, `process.c`, `stream.c` | page directories, mapped heap pages | map a page, grow a stack | rings wrap and pointers are shared in both address spaces; spaces are apart |
| ELF loader | `elf.c` | the loader's window | `loadELF` | a process finds its program where it looks for it |
| Block cache | `filesystem.c`, `ata.c` | cached blocks, the disk | read, write | cache and disk agree, whatever part of a write got through |
| TomFS blocks | `tomfs/tomfs.c` | bitmaps, block chains | allocate, free, find | bitmap and chains agree, also after a crash |
| TomFS files | `tomfs/tomfs.c`, `tomfs/fuse.c` | directories, handles, sizes | create, open, read, write, close | what is written is read; a handle in use stays open and knows its file's size |
| Drivers and boot | `pci.c`, `gdt.c`, `pic.c`, `screen.c`, `kprintf.c`, `bootloader/` | device ports, static tables | port I/O | not modelled, see section 7 |

How they meet: a process writes messages into its `stdout` stream and makes the
flush call; the kernel syncs the process's streams, reads the messages and prints,
spawns (ELF loader, heap, process table) or opens a stream (keyboard). The keyboard
interrupt writes keys into a stream of its own and syncs *every* stream, in the
middle of whatever a process does. The timer interrupt switches processes. User
code is preempted anywhere; the kernel runs with interrupts off, but for boot and
the sleep call, which turns them on. The disk driver waits for timer ticks, and once
the log file is open every `kprintf` goes to the disk.

The hard behaviours are therefore: interrupts that publish offsets while a process
is inside the stream library; wrap-around and fullness of rings; reads of an offset
as of the last sync; switches inside the sleep call; full tables, streams and page
groups; waits for ticks that cannot come; an interrupt on a stack that is not mapped; and,
in TomFS, accesses of the device that fail, seen by the code or not, writes of the bitmap
that are torn, and crashes between writes. `PROJECT.json` lists each at its line.

## 2. Modules

| Module | Models | Uses |
|---|---|---|
| `StreamOps` | `streams.c` as operators on endpoints and memory | |
| `StreamState` | the state of a stream: its memory and two endpoints | `StreamOps` |
| `Streams` | one stream: writer, reader and a kernel that syncs | `StreamState`, `StreamChannel` |
| `StreamChannel` | what a stream promises: a bounded FIFO with publication | |
| `MCStreams` | a small stream | `Streams` |
| `KeyCodes` | what a code of the keyboard means, and what is remembered of it | |
| `KeyboardStream` | the keyboard interrupt against a preemptible reader | `StreamState`, `KeyCodes`, `KeyQueue` |
| `KeyQueue` | what the keyboard promises: a queue of keys | |
| `MCKeyboardStream` | a small ring | `KeyboardStream` |
| `StreamsProofs` | proofs about `Streams` and `KeyboardStream`, and that they implement `StreamChannel` and `KeyQueue` | `Streams`, `KeyboardStream`, `CommonLemmas`, TLAPS |
| `KernelStreams` | processes, flush call, spawning, capturing, interrupt syncs | |
| `KernelStreamsProofs` | proofs about `KernelStreams` | `KernelStreams`, `CommonLemmas`, TLAPS |
| `Processes` | the slots of the process table | |
| `Scheduler` | process table, ticks, switches, sleep, waits for the disk, exit | `Processes` |
| `Heap`, `MCHeap` | `initHeap` and `allocPage` on many memory maps | |
| `ProcessMemory`, `MCProcessMemory` | address spaces, stream buffers and pointers, the loader, stack growth | `Processes` |
| `ProcessProofs` | proofs about `Scheduler` and `ProcessMemory` | `Scheduler`, `ProcessMemory`, `CommonLemmas`, TLAPS |
| `TomFSBlocks` | TomFS's block bitmap and allocator on the block cache and a disk that fails | |
| `AllocationProofs` | proofs about the two allocators, `Heap` and `TomFSBlocks` | `Heap`, `TomFSBlocks`, `CommonLemmas`, TLAPS |
| `CommonLemmas` | lemmas about the least of a set of numbers, ranges, loops, parts of sequences and chains of links | TLAPS |
| `TomFSOps` | TomFS's functions on files, directories and handles, as operators | |
| `TomFS`, `MCTomFS` | a program's calls of TomFS, and crashes between device writes | `TomFSOps` |
| `TomFSLayoutProofs` | which blocks and entries a device's files have, the references of handles, and what taking, linking and filling a block makes of them and of the promises | `TomFS`, `CommonLemmas`, TLAPS |
| `TomFSWriteProofs` | `tfsWriteFile` as a whole: sizes in entries and handles, the first block, the loop | `TomFSLayoutProofs` |
| `TomFSProofs` | directories, paths, whole calls, and the invariants of `TomFS` | `TomFSWriteProofs` |

**Streams.** State: `memory` (each byte is known as the n-th byte of a message),
`reader` and `writer` (the two `TKStreamPointer`s), `filling` (a message whose body
the caller has yet to write). `CreateMsg`, `ReadMsg` and `Sync` are the three
functions where they do not fail (a failing call changes nothing); `FillBody` is the
caller's `memcpy`. Offsets run over 0..BufferSize, as the code wraps a head only when
it is *past* the end; `Cell` maps both names of the first byte to it.

**KeyboardStream.** The writer is the interrupt: decode a code, create, fill and sync in
one step. `keyboard` is the device: whether it has sent a prefix, and the shift keys held
down, of which there may be several; the two tables of characters are a set of keys, plain
or shifted. Keyboards also make up codes of shift keys, with a prefix, around arrows and
Print Screen. `keyboardProcessCode` (64-70) takes these for shift keys, and the release of one
shift for that of both: `misled` says that the last code of a shift key was such a one.
`DecoderFollowsKeyboard` says that this is the only way for the decoder to be wrong about
shift, and that the next true code puts it right; the prefix it never gets wrong.
The reader is a process whose `streamReadMsg` is two steps, because gcc -Os keeps the
store of the advanced head and the store that wraps it apart (the writer's
`streamCreateMsg` stores its head once). `UserHoldsBack` is a limit on the environment, not
code: while a half-wrapped head is public, keys pile up to at most `MaxBacklog`.

**KernelStreams.** Streams are `StreamChannel`s in units of one message. The flush
call is one step (interrupts are off): sync, then read and handle every message. A
process is at a place `pc` in the library: creating, filling, flushing, retrying. A
request to spawn may come to nothing: the program is missing, cannot be read or is no ELF
file (elf.c:63-92).
`KeyIRQ` syncs all streams between any two steps. A message that makes the kernel print
to its log (`log_file`), or load a program whose blocks are not cached, ends in `hung`:
the call waits for ticks with interrupts off (see **Scheduler**), and nothing else
happens.

**Scheduler.** `frame[p]` is what `active_stack_addr` points to, `cr3`, `esp0` and
`interrupts` are the CPU's. Calls that keep interrupts off are single steps; sleep
is `SleepCall` and `SleepReturn`, with ticks and switches between them. `disk_wait` is
the wait of `waitForATABusy`, which counts ticks: at boot interrupts are on and it ends
(`BootEnds`); in a call (`DiskCall`) they are off, the counter stands still and
`Poll`, the loop of the kernel's `sleep()`, is all that goes on. `log_file` says
whether `initLogger` could open the log. The machine also stops (`machine_halted`) when the
kernel halts (`Halt`: init cannot be loaded, a spawn finds the table full, memory has run
out, a program raises an exception), and when an interrupt comes between the steps of
`user_process_jump` (`BootStart`, `BootJump`, `BootEnter`), which takes init's stack with
interrupts on before it has left the kernel's page directory (`IRQOnUserStack`). The liveness
properties of processes end in `\/ Stopped`, which is one of the two, and so say nothing of a
process on a machine that another has stopped.

**Heap.** In units of pages. The two loops of `initHeap` take a step for each time round:
`ReadEntry` for an entry of the memory map, `PlaceBitmap` for a segment; `HeapUp` says that it
has returned. `AllocPage` is a call that returns, `Spin` one that never does: line 213 increments a
copy of the byte of the bitmap, so that the search stays where it is (`SearchGoesOn`, which the
code violates). The initial content of group headers is either
all zero or all ones, as RAM may hold anything.

**ProcessMemory.** One record, `mem`, holds what the kernel's memory management keeps:
the next page of `allocPage`, page tables, pages of each heap and stack, the pool pages of
`heapSmallAlloc`, the stream table, and, as ghosts, which pointers were sent to processes
(`told`) and which section was copied into which page (`copied`). Each function of the
code is an operator from one such record to the next, and an action is a whole call:
`Load` (loadELF with procInitUser and streamCreate), `OpenStream`, `PageFault`,
`LoadTooMany`. Pages of page tables and of the block cache are counted where the code
takes them, so that the pages of everything else are where they would be. `Becomes` is
the halt of a kernel that is handed a page its identity map does not cover.

**TomFSBlocks.** State: `bitmap` (the nodes of the tree whose bit is set, on the disk),
`cached` and `copy` (the same in the block cache), `last_write` and `damaged` (what became
of the last write, and whether a half-written bitmap has been read: ghosts of the
properties), `in_use` (blocks callers were given) and `call`, the `tfsAllocateBlock` in
progress: attempt at the desired block, search, attempt at the one found, header. A write
of the bitmap reaches the disk sector by sector: it may fail after any of them
(`FailToWrite`, the cache stays as it was) or the machine may stop (`StopInWrite`), and it
may stop between any two accesses (`Crash`), which empties the cache. The search is in
closed form: the blocks its recursion can reach, as the coin is flipped from a seed
that `tfsInitFilesystem` never sets and both sides are tried.

**TomFS.** The operators of `TomFSOps` compute a call on a *view* (device, handles, the
header's size of the root directory, the device after each write, return value), one operator
per function of `tomfs.c`. An action starts the call, `Persist` lets its next write reach the
device (the disk behind `write_fn`), and `Crash` drops the rest together with all handles.
Accesses of the device fail by plan: a call is given `failures`, two sets of numbers, and an
access fails if the writes of the call that came before it are as many as one of the sets
says. The first set is of accesses whose failure the code returns (`reported`: `Fails`), the second of
those it ignores (`ignored`: `FailsUnnoticed`): the entry of a file that has grown
(tomfs.c:579), the header for the root directory (583) and for the search (857). After the latter the
size of a file is in its handle and not on the device, and `size_lost` says so from then on:
no new promise is made, and handles and device may disagree. What was there and
promised before must stay. A write that fails leaves the block as it was. The
bitmap is the set of marked blocks here; that the search finds a free one if there is
one is what `TomFSBlocks` shows. `held` is what the program has to close
(`tfsOpenFile` also keeps a reference to the directory, 471-483, which nobody can close: it
stays counted in the model too, and no property denies it); `promised` is
ghost: what a completed create or write must leave on the device, as sets of possible
values, so that a write that was cut off or failed may have happened in part.

## 3. Runs

| Run | Shows | Bounds |
|---|---|---|
| `Streams` | order of heads, whole messages, FIFO refinement, room again | ring of 7 bytes, header 2, lengths 1..7 (legal: 2..5), 2 identifiers |
| `KeyboardStream` | interrupts anywhere in `streamReadMsg` keep keys in order, within the limit above, and the decoder follows the keyboard | ring of 5 bytes, header 1, keys of 2, so that heads wrap at every residue; backlog of 4; one key of each kind and two shift keys, which are interchangeable |
| `KeyboardStreamFull` | *violation*: without the limit the writer passes the reader | ring of 11 |
| `KeyboardStreamHeld` | *violation*: a key being looked at is overwritten without a system call | ring of 11 |
| `KernelStreams` | the promises of the kernel's stream protocol: a start that finds its pointer, filled messages, one owner of the keyboard, no two characters lost in a row, an answer | 2 processes, 4 messages to a stream |
| `Scheduler` | contexts, resumption, exit, preemption, starvation, sleep, boot, until the machine stops | 3 users, quantum 1, sleeps of up to 2 ticks, waits of 2 |
| `SchedulerLog` | *violation*: a call that prints to the log never returns | 2 users |
| `Heap` | segments apart, pages served once, truthful bitmap | 5832 maps of 3 entries, 2 segments, groups of 2 pages |
| `HeapSearch` | *violation*: when the groups of one byte of the bitmap are full, `allocPage` looks no further | as `Heap` |
| `ProcessMemory` | rings that wrap, shared pointers, spaces apart, a table with room, programs in place, nothing mapped over | 3 users, 4 programs of 1 or 2 pages, 56 pages of memory, pools of 2, stacks of 2 |
| `TomFSBlocks` | true tree, live blocks kept, search inside the volume, coherent cache | group of 8 blocks, volume of 7, bitmap of 4 sectors |
| `TomFS` | chains apart, sizes covered, promises kept and held handles open, whatever fails; handles that agree until a failure is ignored | volume of 8 blocks of 3 cells, 3 handles, writes of 1 or 4 cells, 4 calls, of which those with failures count double; one access fails, or all from one on, after up to 21 writes |

The largest run is `TomFS`, with 0.4 million states and half of the time allowed to it; that of
`KeyboardStream` has 0.3 million.

Why the bounds are enough. A ring of 7 holds up to three messages, and lengths 2..5
are such that the heads meet the end of the buffer at every distance; the proofs of
section 5 cover all sizes. Two processes suffice for one to be spawned and to
compete for the keyboard, and four messages for a stream to be full with held,
ready and pending ones at once and room for a retry between. Three users make the scan of the process table go
round with gaps left by exits. Three map entries and two segments exercise each
branch of `initHeap`, including running out of segments. A group of 8 has three levels
of inner nodes and, with 6 of its blocks on the volume, subtrees inside, outside and
across its end; its 15 bits lie in four sectors, so that a torn write separates a leaf
from its ancestors and ancestors from each other. In `ProcessMemory` a pool of two makes
the second stream of a process open a new pool page, page tables of 64 pages are shared by
some parts of a space and not by others, the four programs have two headers in one page,
a section in no header's page, and headers out of order, and memory runs out within some
runs and not in others. On a volume of 8 blocks the root directory takes two and grows by a
third after two entries (an entry takes two cells of a block of three, so entries lie
across blocks); files of up to 5 cells take two blocks; it fills up within four calls,
and the block after a file's last one may be past its end. The longest call, which makes a
directory, does 21 writes, so a failure may come before or after each of them; the calls
that follow are not disturbed, or fail in their turn, and a restart may come between. Three handles are one for each
level of a path and so run out; names and data are interchangeable (symmetry).

## 4. Fairness

`Streams`: the caller fills what it created, the reader reads until nothing is left
and the kernel syncs (a flush call does both, and the reader of stdout is the kernel).
`KernelStreams`: only a process that is asking for the keyboard, or waiting for the
answer, must go on; nothing is assumed of the others or of the interrupt.
`Scheduler`: the timer ticks (where the flag lets it), boot goes on through its four steps, and the loop of a sleeper that is given the CPU again
and again gets round to its test (strong fairness, as a quantum is sixteen ticks
long). Its specification adds that a program started with interrupts off makes a call some day: one
that only computes before its first call keeps the CPU for ever (`procInitUser` gives it
flags of 0), and no property says otherwise. The other modules state safety only.

## 5. Proofs

`StreamsProofs` proves, for every buffer size, header size, maximal message size,
set of identifiers and set of requested lengths (assumptions `StreamConstants` and
`LengthsAssumption`: naturals, a header of at least one byte that is smaller than the
buffer), that `Streams` keeps `TypeOK`, `HeadsOrdered`, `NextMessagePublished` and
`LiveMessagesIntact`. None of the last three is inductive alone. The order of the heads is kept by
`ReadMsg` only if the length in the header is right, and that is so only because no
message was overwritten, which in turn needs the order of the heads. The inductive
invariant `IInv` joins them: types, the order, and a set of cuts, the offsets where
live messages start, such that each message ends at the next cut and is whole. A
creation adds a cut, a sync drops those before the new read head, and a read moves
from a cut to the next. The arithmetic of the ring is in lemmas about `Ahead`, `Cell` and
`Wrap`; the stores are in lemmas about `Store` and `Stored` (a store disturbs no message that
is apart from it).

`StreamImplementsChannel` proves that `Streams` implements `StreamChannel` under the
mapping of `Streams.Channel`, whose three queues are what `MessagesBetween` finds between
the heads. A set of cuts cannot say that, so `RInv` numbers them: `f[0]`, at the public read
head, to `f[N]`, at the writer's, each the wrapped sum of the one before and the length found there
(`Chained`), with the reader's head at `f[i]` and the public write head at `f[j]`. No offset comes
twice (`ChainedShort`), so the recursion of `MessagesBetween`, followed by the fuel
it has left (`LinksSpelled`, `HeadersSpelled`), finds between two of them just the messages
in between (`ContentsOfChain`), whose bytes add up to the distance
(`BytesOfChain`). A creation is then one number more, a read an `i` one larger, a sync a
numbering that begins at `f[i]`, and the abstract guard on the bytes held is the code's comparison of offsets.

`ProcessProofs` proves of `Scheduler` `TypeOK`, `RunsInItsOwnContext`, `WaitingProcessResumable` and
`ExitedNeverRuns` for any number of processes, any quantum and any sleeps
(`ProcessesAssumption`, `SchedulerAssumption`: naturals, at least one user). A switch restores what a frame says, so the
context of the process that runs depends on what was saved for it when it was
switched away from, and that on where it was then. `SchedulerInv` adds to the three properties
what makes them last: until init is entered nobody else may be picked, and afterwards init always
may be, so that who exits is always replaced; only who may run sleeps, and nobody who may
run has exited; and a call that waits for the disk keeps interrupts off, so that nothing is
switched in it. The lemma about `CheckContextSwitch` is shared by ticks
and exits; that the scan finds a process it may pick, and so never an exited one, needs
the least element of a finite set.

Of `KeyboardStream` the same module proves `DecoderFollowsKeyboard` for any set of keys: what the interrupt
remembers of prefixes is where the keyboard is in the sequence it is
sending, and what it remembers of shift keys is wrong only since a code that was untrue of them. For any ring and any size of keys it also proves `WriterNeverReachesReader` and that the
stream implements `KeyQueue` (`KeysInOrder`), if `MaxBacklog < BufferSize`: the user leaves
some room while the read head that the interrupt sees is past the buffer's end. Without that
hypothesis the first is false (run `KeyboardStreamFull`). `Ends` says what the two ends hold
whenever an interrupt may fall, `InTurn` that from the public read head one meets the
reader's, then the writer's, in less than a turn. It is enough for the test of `streamCreateMsg` to be right about
a public head that is in the buffer (`RoomSeen`), and so `Keys`, a numbering of the keys
unread, is only added to at the end (`KeyStored`), and taken from at the start, by the first half of a read
already (`KeyRead`): the second half, the wrap, changes nothing of the queue.

`KernelStreamsProofs` proves `StdoutPointerDelivered`, `OnlyFilledHandled`,
`KeyboardCapturedOnce` and `NoTwoDropsInARow` for any number of processes and streams of at
least two messages (`KernelStreamsAssumption`). The hard step is the flush call, one step that
serves any number of messages, each of which may start a process, open the keyboard or hang.
The invariant is therefore stated of `Kernel`, the part of the state a call works on, and proved to
hold after each message (`Consistent`); `Rounds` carries it to the end of the call. It says
where a message whose body is not written can be (last, and only of a process between
`streamCreateMsg` and its `memcpy`), that a process that was not started has in its streams
what `spawnProcess` put there, that nobody but the owner is told of the keyboard, that
the requests to spawn that wait are at most one and have a slot, and that a process
that lost a character has nothing unread when it runs on, so that its next flush makes
room (`DropsAt`).

`AllocationProofs` proves `LiveBlocksKept`, `CacheCoherent`, `TreeSummarises` and
`SearchFindsFree` for every size of group, volume and sector, with failing writes, torn writes
and stops at any point. `IInv` says that the leaf of each block in use, and that of the block
whose header is being written, is set both on the disk and in what the cache gives; a torn
write keeps this because it mixes two bitmaps that both have the leaves. That clearing a
block's bit leaves the other leaves alone needs that an ancestor of a leaf is a leaf only at
height 0. Setting and clearing climb from a leaf to the first ancestor that does not change;
`SetSummarises` and `ClearSummarises` show of each inner node that it agrees with its
children afterwards, as the climb passes it, ends at it or misses it. That the search skips only
what is full is `FullBelow`: below a node that is set every leaf is. `PowersOfTwo` is what
`2^k` is (1 for 0, twice the one before otherwise), which TLC evaluates and the provers do not know.

Of `Heap` the same module proves `SegmentsApart`, `PagesServedOnce` and `BitmapTruthful` for any number of segments, size of groups and set of memory maps
(`HeapAssumption`: the usable entries of a map share no memory, which is what a BIOS
promises; `initHeap` does not look). No page is handed out twice because a group's bits and
header say which of its pages were, and because no two groups, headers included, share an
address; that rests on the segments, and they on the entries still to be read being apart
from those read. `HeapInv` says all this at every step of `initHeap` too: segments made of the
entries read so far, the bitmaps placed so far one after the other and clear, nothing handed
out before the last is placed. `PagesDiffer` and `BytesDiffer` are the lemmas about addresses,
`Marking` the one about the byte of bitmap that a search leaves.

Of `ProcessMemory` the same module proves `RingsWrap`, `PointersShared`, `SpacesApart`,
`StreamTableHasRoom`, `ProgramInPlace` and the action property `NothingRemapped`, for any number
of processes, any programs and any layout that has room (`ProcessesAssumption`, `ProcessMemoryAssumption`,
`LayoutAssumption`; the stack is not at address 0). A call is a chain of dozens of page mappings,
so the proof is about operators rather than steps. `Grows` says that an operation maps
only where nothing was mapped, the loader's window aside, and `Owns` that a page
a user gets was given to nobody else; each function of the code is shown to do both, and
what was true of streams, pointers and programs before is true after. The loops (`heapVirtAllocContiguous`, the mapping of program headers, the copying of
sections) are followed round by round with `Rounds`. What makes it inductive is the arithmetic of
the layout: a heap has at most two mappings for each page handed out (`TwicePaged`), and the kernel halts at the
first page past its identity map, so that no heap reaches the window, nor the window the stacks.
Without the halt the heap would, and `RingsWrap` would be false.

`TomFSProofs` proves `ChainsApart`, `SizesCovered`, `HandlesAgree`, `HeldHandlesStayOpen` and
`PromisesKept` for every size of volume, block and handle table, any names and data and any number of calls,
crashes and failures that the code reports (`TomFSAssumption`), as long as the device has not failed where the code does
not look: the theorems are of the form `[](~size_lost => ...)`, and `IInv` is `size_lost \/ Good`. That
all but `HandlesAgree` outlast such a failure is checked by TLC (run `TomFS`) and not proved. What a device holds is said by a layout `L`: for the first
block of each file its blocks in order, its size and mode, and where its entry is. `Layout(d, L)` says that
the lines of blocks are linked on the device, marked and apart, that sizes are covered, and that
the directories show an entry for each file and for nothing else. None of the properties
lasts without the rest: a chain stays apart only if the allocator finds marked whatever is in use, a
size is safe only if it is written to the entry of that file, which the code finds again by its name or
block in whatever the directory's blocks hold, and a directory is read by its size. The handles are tied to
the layout by `Handling(hs, L, E)`: an open one has the size of its file, and its count
is that of the references from programs, `E`, and from open handles in it as a directory; on a path
half walked, or in a call that fails, `E` is what the call itself holds. A call is followed
through its views (`GoodView`), operator by operator, as the code composes them, for each write is a
point where a crash leaves the device: `Past` says that all devices on the way had a layout. What stays
marked in no line is what a crash or a full volume left behind.

What was promised of the files is a part of the same argument. `Honours(d, L, P)` says that each
file with a promise in `P` is in `L` and as long as promised, and that each cell of a file is among
those the promise allows. A call has two promises: the one in force while it writes (`promised`),
which for the file it writes allows old and new of each cell that is to be written, and the one from
its end on (`completed`). Every device on the way honours the first, also those of the writes that
link, count and mark, as they leave the cells of the lines alone (`KeepsHonour`); the last one
honours the second, because the loop of `tfsWriteFile` has then been through all cells (`Supplied`
says in each round which of them hold the new value). A crash makes the first the promise for good.
That a write touches no other file's cells is `ChainsApart` again, and that reading gives back a
promised cell (`ReadFromStart`) needs `SizesCovered`, so the three are proved together.
`Good`, which is `Sound(device, handles, pending, held, promised, completed)` with a header in memory
that has the root directory's size (`HeaderKnown`), joins all this for
the device now, for what is pending, and for the handles that `held` has.

The assumption that programs use no `"."` or `".."` in a path, and no name both as a file's and as a
directory's, is needed: `tfsOpenPath` (215-263) does not look at the mode of what it goes through,
and would take a file's data for entries.

`CommonLemmas` stands for induction, whose library theorems have an operator as a parameter: a
set of numbers has a least one (by well-foundedness of the inclusion of finite
sets), from which follow induction over a range (`UpTo`) and that a loop of n rounds has a history
(`Rounds`), which the proofs then follow. `LinksSpelled` says what a recursion that goes from link to link
finds, `Items` and its lemmas what appending to and taking from part of a numbering do.

Only model-checked: the liveness properties, which are out of the prover's reach (fairness and ENABLED), and what
becomes of TomFS after a failure that its code ignores. Every other
invariant, refinement and step property that a passing run checks is stated by a theorem. The runs that expect a violation (`HeldKeyIntact`
among them) need no proof.

## 6. What could come next

1. Volumes of several block groups in `TomFSBlocks`: the last group's bounds (tomfs.c:835) and the bitmaps of later groups. The only volumes made (make_fs.c:39) have one.
2. Hash collisions in `tfsFindEntry`, and names of several pieces.
3. The uninitialised process table and stream lists at boot.

## 7. Not modelled

- Ports, PCI detection, GDT, PIC, screen and boot loader: port I/O and static tables.
- Formatting (`vsprintf` of `printf.c`, copied in `kprintf.c`): text. Reading it showed that
  `strnlen` (36-44) counts one character more than its limit, and none at all for the limit -1
  of a `%s` without a precision, where the comment at 147-148 says "max number of chars for
  from string"; the kernel's only uses of `%s` are messages of a failing loader.
- The game of `snake.c` beyond its use of streams, and `puts`.
- The format of ELF files and segments of more than a page, of which `loadELF` maps the first (elf.c:110).
- The TLB. `loadELF` maps its window over for each program, and what the TLB keeps of
  it until the next write of cr3 is not seen.
- Memory that is not zero at first, but for the headers of page groups: `tk_process_table`,
  the pages of `heapSmallAlloc` and the lists of streams are used without being cleared. The
  emulator clears memory.
- `heap.c` assumes page-aligned memory maps here; with others its rounding to 1 kB
  (heap.c:76, whose comment says 4096 bytes) would hand out pages that are not aligned.
- The block cache beyond 512 blocks, which it does not test for.
- In the scheduler: which page is handed out, so that `Halt` may come in any call; the full
  table and the end of memory are counted in `ProcessMemory`.
- That `fuse_main` runs the calls of the FUSE tool on several threads (Makefile:71 passes no
  `-s`) while `tomfs.c` has no lock: `TomFS` is of one call at a time, as the kernel makes them. Nor that
  the tool's `tomfs_write_cb` (fuse.c:25-31) lets the image file grow where the kernel's disk, and the
  model's device, refuse a block past the end.
- In `TomFS`, blocks written in part, but for the bitmap's in `TomFSBlocks`.
- What `tfsReadFile` returns at the end of a file: tomfs.h:175-176 says that it is the number
  of bytes read, but 624-654 may return what was asked for.
- In TomFS: the hashes and the pieces of names, node numbers and back links (nothing
  reads them), the stubs that delete, and `tfsWriteBlockData`, which nobody calls.
- In `allocPage`, that memory runs out: the kernel meets the end of its 4 MB identity map, with
  765 pages handed out, and halts (`ProcessMemory`), before the search can go wrong in the way of `HeapSearch`.
