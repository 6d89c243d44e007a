------------------------------- MODULE TomFSOps -------------------------------
(****************************************************************************)
(* The functions of TomFS (tomfs.c) on files, directories and handles, as   *)
(* operators.  Each takes a view, the state of a call in progress, and      *)
(* yields the view in which it returns:                                     *)
(*                                                                          *)
(*   device         what the device holds, the writes so far included       *)
(*   handles        gFileHandles                                            *)
(*   root_dir_size  of the header in memory (tfs->header)                   *)
(*   writes         the states of the device after each write, in order     *)
(*   ret            what the last function called returned                  *)
(*   failures       which accesses of the device fail                       *)
(*                                                                          *)
(* The device is a bitmap (that blocks are taken; TomFSBlocks has the tree),*)
(* the blocks' links and data, and the size of the root directory in the    *)
(* filesystem's header.  Data are counted in cells, the 16 bytes of an entry*)
(* of a directory.  A volume is one block group, as make_fs.c makes it.     *)
(****************************************************************************)
EXTENDS Integers, SequencesExt, FiniteSetsExt

CONSTANTS
  total_blocks,
  BlockCells,       \* cells of a block's data (255 in the code)
  MAX_FILE_HANDLES,
  FileNames, DirNames,
  DataCells         \* what programs write, by the cell

BitmapBlock == 1
RootDirectory == 2
Blocks == 0..(total_blocks - 1)
Slots == 1..MAX_FILE_HANDLES
NULL == 0
FAILED == -1

-----------------------------------------------------------------------------
\* Cells: entries of directories, data, and what a fresh block is filled with.
ZeroCell == [mode |-> "zero"]
FilenameEntry(name) == [mode |-> "name", filename |-> name]
FileEntry(mode, block, size, name) ==
  [mode |-> mode, block_index |-> block, file_size |-> size, filename |-> name]

NoEntry == [mode |-> "none"]

IsEntry(cell) == cell.mode \in {"file", "dir"}

EmptyBlock == [next_block |-> 0, cells |-> [i \in 0..(BlockCells - 1) |-> ZeroCell]]
FreeHandle == [block_index |-> 0, directory |-> NULL, current_size |-> 0, ref_count |-> 0]

NewView(device, handles, root_dir_size, failures) ==
  [device |-> device, handles |-> handles, root_dir_size |-> root_dir_size,
   writes |-> << >>, ret |-> NULL, failures |-> failures]

\* Failing accesses, by the number of writes of the call that come before: those that
\* the code reports, and those whose result it ignores.
NoFailures == [reported |-> {}, ignored |-> {}]

\* read_fn or write_fn returns -1.
Fails(v) == Len(v.writes) \in v.failures.reported
FailsUnnoticed(v) == Len(v.writes) \in v.failures.ignored

\* write_fn, where it succeeds.
Write(v, device) == [v EXCEPT !.device = device, !.writes = Append(@, device)]

Return(v, ret) == [v EXCEPT !.ret = ret]

\* tfsWriteFilesystemHeader; a write that changes nothing is left out.
WriteHeader(v) ==
  IF v.device.root_dir_size = v.root_dir_size THEN v
  ELSE Write(v, [v.device EXCEPT !.root_dir_size = v.root_dir_size])

-----------------------------------------------------------------------------
\* The blocks of a file, in the order of the links (fuel bounds a chain with a loop).
Chain(device, first) ==
  LET Follow[fuel \in 0..(total_blocks + 1)] ==
        [at \in Blocks |->
           IF at = NULL \/ fuel = 0 THEN << >>
           ELSE << at >> \o Follow[fuel - 1][device.block[at].next_block]]
  IN  Follow[total_blocks + 1][first]

\* The first cells of a file, as many as its size says.
Cells(device, first, size) ==
  LET chain == Chain(device, first)
  IN  [i \in 0..(size - 1) |->
         device.block[chain[i \div BlockCells + 1]].cells[i % BlockCells]]

-----------------------------------------------------------------------------
\* tfsFindEmptyBlock, by the way its coins fall: any free block may be found, of which
\* the lowest and the highest stand for all.
Coins == {"low", "high"}
Found(free, coin) == IF coin = "low" THEN Min(free) ELSE Max(free)

\* The search also writes the header, and does not look whether that fails.
Search(v) == IF FailsUnnoticed(v) THEN v ELSE WriteHeader(v)

\* Mutant: the search finds blocks that are taken.
AllocateBlockAnyFound(v, desired, coin) ==
  LET block == IF desired \notin v.device.marked THEN desired
               ELSE Found(3..(total_blocks - 1), coin)
      taken == Write(v, [v.device EXCEPT !.marked = @ \cup {block}])
  IN  IF block \notin Blocks THEN Return(taken, NULL)
      ELSE Return(Write(taken, [taken.device EXCEPT !.block[block] = EmptyBlock]), block)

\* tfsAllocateBlock: the desired block if it is free and can be marked, else one of the
\* search.  The bitmap is written first and then the block: one that cannot be written
\* stays marked.  The bitmap goes on past the end of the volume, where the device refuses
\* to write.
AllocateBlock(v, desired, coin) ==
  LET free  == (1..(total_blocks - 1)) \ v.device.marked
      gets  == desired \notin v.device.marked /\ ~ FailsUnnoticed(v)
      block == IF gets THEN desired ELSE IF free # {} THEN Found(free, coin) ELSE NULL
      ready == IF gets THEN v ELSE Search(v)
      taken == Write(ready, [ready.device EXCEPT !.marked = @ \cup {block}])
  IN  IF Fails(v) THEN Return(v, NULL)
      ELSE IF block = NULL \/ Fails(ready) THEN Return(ready, NULL)
      ELSE IF block \notin Blocks \/ Fails(taken) THEN Return(taken, NULL)
      ELSE Return(Write(taken, [taken.device EXCEPT !.block[block] = EmptyBlock]), block)

-----------------------------------------------------------------------------
\* Mutant: an open handle is given out again uncounted.
GetFileHandleUncounted(v, block, directory, size) ==
  LET same == {h \in Slots : v.handles[h].block_index = block}
      free == {h \in Slots : v.handles[h].block_index = 0}
      new  == [block_index |-> block, directory |-> directory,
               current_size |-> size, ref_count |-> 1]
      referred == IF directory = NULL THEN v.handles
                  ELSE [v.handles EXCEPT ![directory].ref_count = @ + 1]
  IN  IF same # {} THEN Return(v, Min(same))
      ELSE IF free # {}
      THEN Return([v EXCEPT !.handles = [referred EXCEPT ![Min(free)] = new]], Min(free))
      ELSE Return(v, NULL)

\* get_file_handle: one handle for a block, however often it is opened.
GetFileHandle(v, block, directory, size) ==
  LET same == {h \in Slots : v.handles[h].block_index = block}
      free == {h \in Slots : v.handles[h].block_index = 0}
      new  == [block_index |-> block, directory |-> directory,
               current_size |-> size, ref_count |-> 1]
      referred == IF directory = NULL THEN v.handles
                  ELSE [v.handles EXCEPT ![directory].ref_count = @ + 1]
  IN  IF same # {} THEN Return([v EXCEPT !.handles[Min(same)].ref_count = @ + 1], Min(same))
      ELSE IF free # {}
      THEN Return([v EXCEPT !.handles = [referred EXCEPT ![Min(free)] = new]], Min(free))
      ELSE Return(v, NULL)

\* tfsCloseHandle: the last reference also releases the directory's handle.
Release(s) ==
  LET h == s.handles[s.at]
  IN  IF s.at = NULL THEN s
      ELSE IF h.ref_count = 1
      THEN [at |-> h.directory, handles |-> [s.handles EXCEPT ![s.at] = FreeHandle]]
      ELSE [at |-> NULL, handles |-> [s.handles EXCEPT ![s.at].ref_count = @ - 1]]

CloseHandle(v, handle) ==
  LET After[i \in 0..MAX_FILE_HANDLES] ==
        IF i = 0 THEN [at |-> handle, handles |-> v.handles] ELSE Release(After[i - 1])
  IN  [v EXCEPT !.handles = After[MAX_FILE_HANDLES].handles]

-----------------------------------------------------------------------------
\* tfsWriteFile.

\* Takes a block after the file's last one, and links it.
Extend(v, last, coin) ==
  LET a == AllocateBlock(v, last + 1, coin)
  IN  IF a.ret = NULL \/ Fails(a) THEN Return(a, NULL)
      ELSE Write(a, [a.device EXCEPT !.block[last].next_block = a.ret])

\* The block after this one, taken if there is none and more is to come.
FollowingBlock(v, at, more, coin) ==
  IF more /\ v.device.block[at].next_block = 0
  THEN AllocateBlock(v, at + 1, coin)
  ELSE Return(v, v.device.block[at].next_block)

\* Reads a block and writes what fits there.  The next block is taken first, so that the
\* write also makes the link; no block is taken, and none written, after a read that
\* fails.
FillBlock(s, coin) ==
  LET n     == Min({Len(s.left), BlockCells - s.offset})
      cells == [i \in 0..(BlockCells - 1) |->
                  IF i \in s.offset..(s.offset + n - 1)
                  THEN s.left[i - s.offset + 1]
                  ELSE s.v.device.block[s.at].cells[i]]
      Fill(a) ==
        IF (n < Len(s.left) /\ a.ret = NULL) \/ Fails(a)
        THEN [s EXCEPT !.v = a, !.stopped = TRUE]
        ELSE [v       |-> Write(a, [a.device EXCEPT
                                      !.block[s.at] = [next_block |-> a.ret, cells |-> cells]]),
              at      |-> a.ret,
              offset  |-> 0,
              left    |-> SubSeq(s.left, n + 1, Len(s.left)),
              stopped |-> FALSE]
  IN  IF s.left = << >> \/ s.stopped THEN s
      ELSE Fill(FollowingBlock(s.v, s.at, n < Len(s.left), coin))

\* Mutant: the entry updated is the last one.
UpdateEntryLast(v, directory, block, size) ==
  LET dir   == v.handles[directory]
      last  == dir.current_size - 1
      where == Chain(v.device, dir.block_index)[last \div BlockCells + 1]
  IN  Write(v, [v.device EXCEPT !.block[where].cells[last % BlockCells].file_size = size])

\* tfsUpdateEntry: the size of the file that starts at the block, in its directory.  It
\* always returns -1, which its caller ignores.
UpdateEntry(v, directory, block, size) ==
  LET dir   == v.handles[directory]
      cells == Cells(v.device, dir.block_index, dir.current_size)
      found == {i \in DOMAIN cells : IsEntry(cells[i]) /\ cells[i].block_index = block}
      where == Chain(v.device, dir.block_index)[Min(found) \div BlockCells + 1]
  IN  IF found = {} THEN v
      ELSE Write(v, [v.device EXCEPT
                       !.block[where].cells[Min(found) % BlockCells].file_size = size])

\* Mutants: only the handle knows that the file has grown; every write sets the size.
SetSizeOfHandle(v, handle, size) ==
  IF size > v.handles[handle].current_size
  THEN [v EXCEPT !.handles[handle].current_size = size] ELSE v

SetSizeAlways(v, handle, size) ==
  LET sized == [v EXCEPT !.handles[handle].current_size = size]
      h     == v.handles[handle]
  IN  IF h.directory # NULL THEN UpdateEntry(sized, h.directory, h.block_index, size)
      ELSE WriteHeader([sized EXCEPT !.root_dir_size = size])

\* A file that has grown: its handle, and its entry or the filesystem's header.  The
\* file counts as grown even when that access fails.
SetSize(v, handle, size) ==
  LET h     == v.handles[handle]
      sized == [v EXCEPT !.handles[handle].current_size = size]
      known == IF h.directory # NULL THEN sized ELSE [sized EXCEPT !.root_dir_size = size]
  IN  IF size <= h.current_size THEN v
      ELSE IF FailsUnnoticed(v) THEN known
      ELSE IF h.directory # NULL THEN UpdateEntry(known, h.directory, h.block_index, size)
      ELSE WriteHeader(known)

FillBlocks(s, n, coin) ==
  LET After[i \in 0..n] == IF i = 0 THEN s ELSE FillBlock(After[i - 1], coin)
  IN  After[n]

WriteFile(v, handle, cells, offset, coin) ==
  LET h      == v.handles[handle]
      chain  == Chain(v.device, h.block_index)
      k      == offset \div BlockCells + 1        \* the block the data start in
      End(filled) ==
        IF filled.stopped THEN Return(filled.v, FAILED)
        ELSE Return(SetSize(filled.v, handle, offset + Len(cells)), Len(cells))
      From(start) ==
        IF start.ret = NULL THEN Return(start, FAILED)
        ELSE End(FillBlocks([v |-> start, at |-> start.ret, offset |-> offset % BlockCells,
                             left |-> cells, stopped |-> FALSE], Len(cells), coin))
  IN  IF h.block_index = 0 \/ offset > h.current_size THEN Return(v, FAILED)
      ELSE From(IF k \in DOMAIN chain THEN Return(v, chain[k])
                ELSE IF offset = Len(chain) * BlockCells THEN Extend(v, Last(chain), coin)
                ELSE Return(v, NULL))

\* tfsReadFile: what is read, and the count that is returned.
ReadFile(device, h, size, offset) ==
  LET capacity == Len(Chain(device, h.block_index)) * BlockCells
      wanted   == Min({size, h.current_size - offset})
      count    == Min({wanted, capacity - offset})
      cells    == Cells(device, h.block_index, offset + count)
  IN  IF offset > h.current_size \/ offset >= capacity
      THEN [ret |-> FAILED, buf |-> << >>]
      ELSE [ret |-> size - (wanted - count),
            buf |-> [i \in 1..count |-> cells[offset + i - 1]]]

-----------------------------------------------------------------------------
\* Directories.

\* tfsAppendDirectoryEntry: the name, then the entry.
AppendDirectoryEntry(v, directory, mode, block, name, coin) ==
  LET entry_idx == v.handles[directory].current_size
      Enter(named) ==
        IF named.ret = FAILED THEN named
        ELSE WriteFile(named, directory, << FileEntry(mode, block, 0, name) >>,
                       entry_idx + 1, coin)
  IN  Enter(WriteFile(v, directory, << FilenameEntry(name) >>, entry_idx, coin))

\* tfsReadNextEntry, called until it fails: the entries of a directory, names aside.
Listing(device, first, size) ==
  {cell \in Range(Cells(device, first, size)) : IsEntry(cell)}

\* tfsFindEntry: the first entry of that name, unless a read fails.
FindEntry(v, directory, name) ==
  LET dir   == v.handles[directory]
      cells == Cells(v.device, dir.block_index, dir.current_size)
      found == {i \in DOMAIN cells : IsEntry(cells[i]) /\ cells[i].filename = name}
  IN  IF Fails(v) \/ found = {} THEN NoEntry ELSE cells[Min(found)]

\* tfsOpenPath: opens one directory after the other, closing the one before.
Descend(w, name) ==
  LET entry == FindEntry(w, w.ret, name)
      child == GetFileHandle(w, entry.block_index, w.ret, entry.file_size)
  IN  IF w.ret = NULL THEN w
      ELSE IF entry = NoEntry THEN Return(CloseHandle(w, w.ret), NULL)
      ELSE CloseHandle(child, w.ret)

OpenPath(v, path) ==
  LET After[i \in 0..Len(path)] ==
        IF i = 0 THEN GetFileHandle(v, RootDirectory, NULL, v.root_dir_size)
        ELSE Descend(After[i - 1], path[i])
  IN  After[Len(path)]

\* tfsOpenFile: the handle of the directory stays open.
OpenFile(v, path, name) ==
  LET Open(dir, entry) ==
        IF entry = NoEntry THEN Return(dir, NULL)
        ELSE GetFileHandle(dir, entry.block_index, dir.ret, entry.file_size)
      OpenIn(dir) == IF dir.ret = NULL THEN dir ELSE Open(dir, FindEntry(dir, dir.ret, name))
  IN  OpenIn(OpenPath(v, path))

\* The node's number is noted in the header.
Number(created) ==
  IF created.ret = NULL \/ Fails(created) THEN Return(created, NULL) ELSE WriteHeader(created)

\* tfsCreateFile: takes a block, makes the entry and opens the file.
CreateFile(v, path, mode, name, coin) ==
  LET Open(dir, block, entered) ==
        IF entered.ret = FAILED THEN Return(CloseHandle(entered, dir), NULL)
        ELSE CloseHandle(GetFileHandle(entered, block, dir, 0), dir)
      Enter(dir, created) ==
        IF created.ret = NULL THEN CloseHandle(created, dir)
        ELSE Open(dir, created.ret,
                  AppendDirectoryEntry(created, dir, mode, created.ret, name, coin))
      CreateIn(dir) ==
        IF dir.ret = NULL THEN dir ELSE Enter(dir.ret, Number(AllocateBlock(dir, RootDirectory, coin)))
  IN  CreateIn(OpenPath(v, path))

\* The entries "." and "..", which lead nowhere.
AppendDots(v, directory, coin) ==
  LET Dot(w, name) == AppendDirectoryEntry(w, directory, "dir", 0, name, coin)
  IN  Return(Dot(Dot(v, "."), ".."), directory)

CreateDirectory(v, path, name, coin) ==
  LET Dotted(created) ==
        IF created.ret = NULL THEN created ELSE AppendDots(created, created.ret, coin)
  IN  Dotted(CreateFile(v, path, "dir", name, coin))

\* tfsInitFilesystem, where it succeeds: the device it leaves, with an empty root
\* directory.
FormattedDevice ==
  LET empty == [marked |-> {BitmapBlock}, block |-> [b \in Blocks |-> EmptyBlock],
                root_dir_size |-> 0]
      root  == AllocateBlock(NewView(empty, [h \in Slots |-> FreeHandle], 0, NoFailures),
                             RootDirectory, "low")
  IN  AppendDots(GetFileHandle(root, root.ret, NULL, 0), 1, "low").device
=============================================================================
