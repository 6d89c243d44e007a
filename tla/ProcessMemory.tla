---------------------------- MODULE ProcessMemory ----------------------------
(****************************************************************************)
(* The address spaces of processes: what procInitUser, loadELF, streamCreate*)
(* and the page fault handler map, and where streams and their pointers are *)
(* in the memory of both of their ends (process.c, elf.c, stream.c, vmm.c,  *)
(* the small allocator of heap.c and excPageFault of interrupt.c).          *)
(*                                                                          *)
(* Addresses are page numbers.  allocPage hands out the next page, which    *)
(* nobody was given before (PagesServedOnce of Heap); pages hold zeros then,*)
(* as memory does when the emulator is started.  Calls come one at a time,  *)
(* with interrupts off or while booting; those that hang on the disk (see   *)
(* Scheduler) are left out.                                                 *)
(****************************************************************************)
EXTENDS Processes, Sequences

CONSTANTS
  MAX_STREAMS,      \* slots of tk_stream_table
  PerPool,          \* num_per_page of heapSmallAlloc for stream pointers
  TablePages,       \* pages a page table maps (1024)
  KernelCode,       \* pages below 0x90000, mapped to themselves everywhere
  FirstPage,        \* the page allocPage hands out first once the kernel is up
  IdentityPages,    \* pages the kernel has mapped to themselves (1024)
  HeapStart,        \* USER_HEAP_START_VADDR
  LoaderBase,       \* LOADER_VADDR_BASE
  StackStart,       \* USER_STACK_START_VADDR
  SharedPage,       \* USER_SHARED_PAGE_VADDR
  Programs,         \* files: pages, and where the program headers and sections that are
                    \* read start, which is all of each but the last
  MaxMisses,        \* bound on the blocks loadELF reads that are not cached
  MaxStack          \* bound on the pages of a stack

ProgramFiles == [size : Nat, headers : Seq(Nat), sections : Seq(Nat)]

\* Bytes streamCreate rounds up to pages are those of one page in every call.
ASSUME ProcessMemoryAssumption ==
  /\ MAX_STREAMS \in Nat /\ MAX_STREAMS > 2 * (MAX_PROCESSES - 1)
  /\ PerPool \in Nat /\ PerPool >= 2
  /\ TablePages \in Nat \ {0}
  /\ FirstPage \in Nat /\ IdentityPages \in Nat
  /\ KernelCode \subseteq 0..(TablePages - 1) /\ KernelCode # {}
  /\ \A page \in KernelCode : page < FirstPage
  /\ HeapStart \in Nat /\ LoaderBase \in Nat /\ StackStart \in Nat \ {0} /\ SharedPage \in Nat
  /\ MaxMisses \in Nat /\ MaxStack \in Nat
  /\ Programs \subseteq ProgramFiles

\* What fits between the parts of an address space: a page is mapped at most twice in
\* a heap, and every one the loader maps is a page of its own.
ASSUME LayoutAssumption ==
  /\ IdentityPages <= HeapStart
  /\ HeapStart + 2 * IdentityPages <= LoaderBase
  /\ LoaderBase + IdentityPages <= StackStart - MaxStack
  /\ StackStart <= SharedPage
  /\ \A file \in Programs : \A i \in DOMAIN file.headers :
       file.headers[i] \in LoaderBase..(StackStart - MaxStack - 1)

VARIABLES
  mem,              \* the state of the kernel's memory management, see EmptyMemory
  halted            \* the kernel stopped the machine

vars == << mem, halted >>

\* A pointer of the kernel's, in its process table or its stream_list.
KernelPointer == [page |-> 0, slot |-> 0]

NoProgram == [size |-> 0, headers |-> << >>, sections |-> << >>]

\* Before the kernel maps anything but memory to itself.
EmptyMemory ==
  [next        |-> FirstPage,                 \* the next page of allocPage
   map         |-> [p \in Procs |-> << >>],   \* page tables, the kernel's identity map aside
   tables      |-> {},                        \* process and part of its space with a table
   mapped_pages|-> [p \in Procs |-> 0],       \* heap_mapped_pages
   stack_pages |-> [p \in Procs |-> 0],
   stream_list |-> [p \in Procs |-> << >>],   \* pool of stream pointers
   streams     |-> << >>,                     \* tk_stream_table
   told        |-> {},                        \* pointers that were sent to processes
   keyboard    |-> NoProc,                    \* reader of keyboard_output_stream
   program     |-> [p \in Procs |-> NoProgram],
   copied      |-> {},                        \* page, process and section in the page
   users       |-> {},                        \* processes created
   started     |-> {}]                        \* processes that may run

-----------------------------------------------------------------------------
\* Pages.

Put(f, x, y) == [z \in DOMAIN f \cup {x} |-> IF z = x THEN y ELSE f[z]]

\* allocPage; the page is the one that was next.
AllocPage(m) == [m EXCEPT !.next = @ + 1]

\* vmmGetOrCreatePageTable.
WithTable(m, p, part) ==
  IF << p, part >> \in m.tables THEN m
  ELSE [AllocPage(m) EXCEPT !.tables = @ \cup {<< p, part >>}]

\* vmmMapPage.
MapPage(m, p, src, dest) ==
  [WithTable(m, p, src \div TablePages) EXCEPT !.map[p] = Put(@, src, dest)]

\* Where procMapHeapPage maps a page, and procMapHeapPage.
HeapAddress(m, p) == HeapStart + m.mapped_pages[p]

\* Mutant: the page is mapped where the next one will be.
MapHeapPageSame(m, p, dest) == MapPage(m, p, HeapAddress(m, p), dest)

MapHeapPage(m, p, dest) ==
  [MapPage(m, p, HeapAddress(m, p), dest) EXCEPT !.mapped_pages[p] = @ + 1]

\* heapVirtAllocContiguous, for the kernel.
VirtAllocContiguous(m, pages) ==
  LET Mapped[n \in 0..pages] ==
        IF n = 0 THEN m
        ELSE MapHeapPage(AllocPage(Mapped[n - 1]), Kernel, Mapped[n - 1].next)
  IN  Mapped[pages]

\* heapSmallAlloc from a process's stream_list: the page at the end of the list is the
\* first with room, or a page is added.
SmallAlloc(m, p) ==
  LET pool == m.stream_list[p]
  IN  IF pool # << >> /\ pool[Len(pool)].allocated < PerPool
      THEN [m EXCEPT !.stream_list[p][Len(pool)].allocated = @ + 1]
      ELSE [MapHeapPage(AllocPage(m), p, m.next) EXCEPT
              !.stream_list[p] =
                Append(@, [page |-> m.next, vaddr |-> HeapAddress(m, p), allocated |-> 1])]

\* The pointer heapSmallAlloc returned last.
NewPointer(m, p) ==
  LET last == m.stream_list[p][Len(m.stream_list[p])]
  IN  [page |-> last.page, slot |-> last.allocated]

\* Mutant: the process is sent the kernel's address.
NewRealAddr(m, p) == NewPointer(m, p)

\* What heapSmallAllocGetVAddr makes of it.
NewVAddr(m, p) ==
  LET last == m.stream_list[p][Len(m.stream_list[p])]
  IN  [page |-> last.vaddr, slot |-> last.allocated]

\* A process is given the address of its pointer to the newest stream.
Tell(m, p, vaddr) ==
  [m EXCEPT !.told = @ \cup {[process |-> p, stream |-> Len(m.streams), vaddr |-> vaddr]}]

-----------------------------------------------------------------------------
\* Mutant: a page is mapped between the ring and its repetition, in the writer.
StreamCreateInterrupted(m, reader, read_ptr, writer, write_ptr) ==
  LET page  == m.next
      once  == MapHeapPage(MapHeapPage(AllocPage(m), reader, page), writer, page)
      other == MapHeapPage(AllocPage(once), writer, once.next)
      twice == MapHeapPage(MapHeapPage(other, reader, page), writer, page)
  IN  [twice EXCEPT !.streams =
         Append(@, [page |-> page,
                    read_owner  |-> reader, read_ptr  |-> read_ptr,
                    read_vaddr  |-> HeapAddress(m, reader),
                    write_owner |-> writer, write_ptr |-> write_ptr,
                    write_vaddr |-> HeapAddress(m, writer)])]

\* streamCreate: the page of the ring is mapped twice in a row in both processes.
StreamCreate(m, reader, read_ptr, writer, write_ptr) ==
  LET page  == m.next
      once  == MapHeapPage(MapHeapPage(AllocPage(m), reader, page), writer, page)
      twice == MapHeapPage(MapHeapPage(once, reader, page), writer, page)
  IN  [twice EXCEPT !.streams =
         Append(@, [page |-> page,
                    read_owner  |-> reader, read_ptr  |-> read_ptr,
                    read_vaddr  |-> HeapAddress(m, reader),
                    write_owner |-> writer, write_ptr |-> write_ptr,
                    write_vaddr |-> HeapAddress(m, writer)])]

\* procInitUser, in its order: directory, kernel code, kernel stack, stack, shared page.
NewSpace(m, p) ==
  LET low   == [WithTable(AllocPage(m), p, 0) EXCEPT
                  !.map[p] = [page \in KernelCode |-> page]]
      kernel_stack == MapPage(AllocPage(low), p, low.next, low.next)
      stack == MapPage(AllocPage(kernel_stack), p, StackStart - 1, kernel_stack.next)
  IN  [MapPage(AllocPage(stack), p, SharedPage, stack.next) EXCEPT
         !.users = @ \cup {p}, !.stack_pages[p] = 1]

\* The rest of procInitUser: stdin, whose pointer is at the start of the shared page,
\* and stdout, whose pointer is sent.
WithStdStreams(m, p) ==
  LET stdin  == StreamCreate(m, p, [page |-> m.map[p][SharedPage], slot |-> 0],
                             Kernel, KernelPointer)
      told   == Tell(stdin, p, [page |-> SharedPage, slot |-> 0])
      list   == SmallAlloc(told, p)
      stdout == StreamCreate(list, Kernel, KernelPointer, p, NewPointer(list, p))
  IN  Tell(stdout, p, NewVAddr(stdout, p))

InitUser(m, p) == WithStdStreams(NewSpace(m, p), p)

-----------------------------------------------------------------------------
\* loadELF.

\* Each program header but the last gets one page, in the process and in the kernel's
\* loader window.
MapHeaders(m, p, headers) ==
  LET Mapped[i \in 0..Len(headers)] ==
        IF i = 0 THEN m
        ELSE LET before == Mapped[i - 1]
             IN  MapPage(MapPage(AllocPage(before), p, headers[i], before.next),
                         Kernel, LoaderBase + i - 1, before.next)
  IN  Mapped[Len(headers)]

\* Headers of the page a section starts in; the last of them counts.
Headers(file, section) == {i \in DOMAIN file.headers : file.headers[i] = section}

\* Mutant: the first of them counts.
FirstHeader(file, section) ==
  CHOOSE i \in Headers(file, section) : \A j \in Headers(file, section) : i <= j

LastHeader(file, section) ==
  CHOOSE i \in Headers(file, section) : \A j \in Headers(file, section) : j <= i

\* Sections are copied through the window, until one is in no header's page; then the
\* process is left as it is.
CopySections(m, p, file) ==
  LET fits(i) == \A j \in 1..i : Headers(file, file.sections[j]) # {}
      done    == {i \in DOMAIN file.sections : fits(i)}
      page(i) == m.map[Kernel][LoaderBase + LastHeader(file, file.sections[i]) - 1]
  IN  [m EXCEPT !.copied  = @ \cup {<< page(i), p, i >> : i \in done},
                !.started = IF done = DOMAIN file.sections THEN @ \cup {p} ELSE @,
                !.program[p] = file]

\* Reading the file takes pages for the block cache and the buffer.
LoadELF(m, p, file, misses) ==
  LET read == VirtAllocContiguous([m EXCEPT !.next = @ + misses], file.size)
  IN  CopySections(MapHeaders(InitUser(read, p), p, file.headers), p, file)

\* Mutant: whoever asks is given a stream.
KeyboardOpenAlways(m, p) ==
  LET reader == SmallAlloc(m, p)
      writer == SmallAlloc(reader, Kernel)
      stream == StreamCreate(writer, p, NewPointer(writer, p), Kernel, NewPointer(writer, Kernel))
  IN  Tell([stream EXCEPT !.keyboard = p], p, NewVAddr(stream, p))

\* keyboardOpenStream, with procCreateStream.
KeyboardOpenStream(m, p) ==
  LET reader == SmallAlloc(m, p)
      writer == SmallAlloc(reader, Kernel)
      stream == StreamCreate(writer, p, NewPointer(writer, p), Kernel, NewPointer(writer, Kernel))
  IN  IF m.keyboard # NoProc THEN m
      ELSE Tell([stream EXCEPT !.keyboard = p], p, NewVAddr(stream, p))

\* Mutant: the new page is the one the last allocPage returned.
GrowStackSame(m, p) ==
  [MapPage(m, p, StackStart - m.stack_pages[p] - 1, m.next - 1) EXCEPT
     !.stack_pages[p] = @ + 1]

\* excPageFault just below the stack.
GrowStack(m, p) ==
  [MapPage(AllocPage(m), p, StackStart - m.stack_pages[p] - 1, m.next) EXCEPT
     !.stack_pages[p] = @ + 1]

-----------------------------------------------------------------------------
HandlePages == 4

\* Boot, as far as initFilesystem, which maps the pages of the file handles.
Init ==
  /\ mem = VirtAllocContiguous(EmptyMemory, HandlePages)
  /\ halted = FALSE

\* The kernel cannot touch a page that its identity map does not cover: it faults, and
\* halts.
Becomes(m) ==
  /\ ~halted
  /\ IF m.next <= IdentityPages
     THEN mem' = m /\ UNCHANGED halted
     ELSE halted' = TRUE /\ UNCHANGED mem

\* The kernel at boot, or a process, has a program loaded.
Load ==
  /\ mem.users # {} => mem.started # {}
  /\ \E file \in Programs, misses \in 0..MaxMisses, p \in Users :
       /\ p \notin mem.users
       /\ \A q \in Users : q < p => q \in mem.users
       /\ Becomes(LoadELF(mem, p, file, misses))

\* procInitUser halts when the table is full.
LoadTooMany ==
  /\ mem.users = Users
  /\ mem.started # {}
  /\ ~halted
  /\ halted' = TRUE
  /\ UNCHANGED mem

OpenStream(p) ==
  /\ p \in mem.started
  /\ Becomes(KeyboardOpenStream(mem, p))

PageFault(p) ==
  /\ p \in mem.started
  /\ mem.stack_pages[p] < MaxStack
  /\ Becomes(GrowStack(mem, p))

\* Programs that ask for nothing more, and the loop of halt().
Idle ==
  /\ mem.users # {} \/ halted
  /\ UNCHANGED vars

Next ==
  \/ Load \/ LoadTooMany
  \/ \E p \in Users : OpenStream(p) \/ PageFault(p)
  \/ Idle

Spec == Init /\ [][Next]_vars
-----------------------------------------------------------------------------
\* Every message of a ring is contiguous ("magically just wrap around"): in the memory
\* of both its ends the page after the ring is the ring's page again, for good, whatever
\* is mapped later.
RingsWrap ==
  \A i \in DOMAIN mem.streams :
    LET s == mem.streams[i]
        wraps(p, vaddr) == /\ {vaddr, vaddr + 1} \subseteq DOMAIN mem.map[p]
                           /\ mem.map[p][vaddr] = s.page
                           /\ mem.map[p][vaddr + 1] = s.page
    IN  wraps(s.read_owner, s.read_vaddr) /\ wraps(s.write_owner, s.write_vaddr)

\* A process that uses an address it was sent writes the very pointer the kernel syncs.
PointersShared ==
  \A t \in mem.told :
    LET s   == mem.streams[t.stream]
        ptr == IF s.read_owner = t.process THEN s.read_ptr ELSE s.write_ptr
    IN  /\ t.vaddr.page \in DOMAIN mem.map[t.process]
        /\ mem.map[t.process][t.vaddr.page] = ptr.page
        /\ t.vaddr.slot = ptr.slot

PagesOf(p) == {mem.map[p][v] : v \in DOMAIN mem.map[p]}

\* Two processes share the kernel's code and nothing else: every stream goes through
\* the kernel, and no page of one shows up in the memory of another.
SpacesApart ==
  \A p, q \in Users : p # q => PagesOf(p) \cap PagesOf(q) \subseteq KernelCode

\* The streams of all the processes there can be fit in the table, which streamCreate
\* does not test.
StreamTableHasRoom == Len(mem.streams) <= MAX_STREAMS

\* A process that runs finds every section of its program in the page where it looks
\* for it, although program headers may share a page and the loader's window is used
\* over again.
ProgramInPlace ==
  \A p \in mem.started :
    LET file == mem.program[p]
    IN  \A i \in DOMAIN file.sections :
          /\ file.sections[i] \in DOMAIN mem.map[p]
          /\ << mem.map[p][file.sections[i]], p, i >> \in mem.copied

\* Heap, stack and program never grow into each other: a page that is mapped stays
\* where it is, the loader's window aside.
NothingRemapped ==
  [][ \A p \in Procs : \A v \in DOMAIN mem.map[p] :
        \/ p = Kernel /\ v \in LoaderBase..(StackStart - 1)
        \/ v \in DOMAIN mem'.map[p] /\ mem'.map[p][v] = mem.map[p][v] ]_vars
=============================================================================
