--------------------------- MODULE TomFSLayoutProofs ---------------------------
(****************************************************************************)
(* What a TomFS device and the handles hold, and what taking a block,       *)
(* linking it and filling it do to that, for every size of volume, block    *)
(* and handle table.  TomFSWriteProofs goes on with the entries and whole   *)
(* writes of a file, TomFSProofs with directories and calls.                *)
(*                                                                          *)
(* What a device holds is said by a layout L: for the first block h of each *)
(* file, L[h] has its blocks in order (line), its size, its mode, and the   *)
(* place of its entry (parent, slot, name).  Layout(d, L) ties the two:     *)
(* lines are linked on the device, marked and disjoint, sizes are covered,  *)
(* and the directories show an entry for each file and for nothing else.    *)
(* The blocks that are marked and in no line are those a crash or a full    *)
(* volume left behind.                                                      *)
(*                                                                          *)
(* Handling(hs, L, E) ties the handles to it: each open one has the size of *)
(* its file, and its count is at least the references the program has to it *)
(* (E) and those of the open handles in its directory.                      *)
(*                                                                          *)
(* Honours(d, L, P) ties the device to what was promised of it: each file   *)
(* that has a promise in P is as long as that, and each cell of a file is   *)
(* among those its promise allows.                                          *)
(*                                                                          *)
(* A call is followed through its views, operator by operator, as the code  *)
(* composes them.  A view is good (GoodView) when its device has a layout   *)
(* and honours the promises in force during the call, every write it made   *)
(* on the way left a device that does (Past), and its handles fit; each     *)
(* operator keeps it so and says what else it has done to L and E.          *)
(****************************************************************************)
EXTENDS TomFS, CommonLemmas

\* What the constants are, for the steps that count.
LEMMA Sizes ==
  /\ total_blocks \in Nat /\ total_blocks > 3 /\ BlockCells \in Nat \ {0}
  /\ MAX_FILE_HANDLES \in Nat \ {0}
  /\ BitmapBlock \in Blocks /\ RootDirectory \in Blocks /\ NULL \in Blocks /\ NULL \notin Slots
  /\ BitmapBlock = 1 /\ RootDirectory = 2 /\ NULL = 0
  /\ Blocks \subseteq Nat /\ Slots \subseteq Nat
BY TomFSAssumption DEF BitmapBlock, RootDirectory, NULL, Blocks, Slots

\* Where a cell of a file is: which of its blocks, and where in it.
LEMMA Division ==
  ASSUME NEW i \in Nat
  PROVE  /\ i \div BlockCells \in Nat
         /\ i % BlockCells \in 0..(BlockCells - 1)
         /\ i = (i \div BlockCells) * BlockCells + (i % BlockCells)
BY Sizes

\* The cell j places into block k is in no other block and at no other place.
LEMMA DivisionUnique ==
  ASSUME NEW k \in Nat, NEW j \in 0..(BlockCells - 1)
  PROVE  /\ (k * BlockCells + j) \in Nat
         /\ (k * BlockCells + j) \div BlockCells = k
         /\ (k * BlockCells + j) % BlockCells = j
<1> PICK n : n = k * BlockCells + j
  OBVIOUS
<1>1. n \in Nat
  BY Sizes
<1>2. n = (n \div BlockCells) * BlockCells + (n % BlockCells)
  BY <1>1, Division
<1> QED BY <1>1, <1>2, Division, Sizes

\* A cell below what n blocks hold is in one of them.
LEMMA InsideBlocks ==
  ASSUME NEW n \in Nat, NEW i \in Nat, i < n * BlockCells
  PROVE  i \div BlockCells + 1 \in 1..n
<1>1. i \div BlockCells \in Nat /\ i % BlockCells \in Nat
  BY Division, Sizes
<1>2. (i \div BlockCells) * BlockCells <= i
  BY Division, Sizes
<1>3. ~ (i \div BlockCells >= n)
  <2> SUFFICES ASSUME i \div BlockCells >= n PROVE FALSE
    OBVIOUS
  <2> PICK q \in Nat : q = i \div BlockCells
    BY <1>1
  <2>1. q * BlockCells >= n * BlockCells
    BY Sizes
  <2> QED BY <1>2, <2>1, Sizes
<1> QED BY <1>1, <1>3

-----------------------------------------------------------------------------
\* Devices.
IsBlock(x) ==
  /\ x = [next_block |-> x.next_block, cells |-> x.cells]
  /\ x.next_block \in Blocks
  /\ x.cells = [i \in 0..(BlockCells - 1) |-> x.cells[i]]

IsDevice(d) ==
  /\ d = [marked |-> d.marked, block |-> d.block, root_dir_size |-> d.root_dir_size]
  /\ d.marked \subseteq Nat /\ BitmapBlock \in d.marked
  /\ d.block = [b \in Blocks |-> d.block[b]]
  /\ \A b \in Blocks : IsBlock(d.block[b])
  /\ d.root_dir_size \in Nat

\* The blocks a file has: each links to the next, the last to none, and all are marked.
IsLine(d, s) ==
  /\ s \in Seq(Blocks \ {NULL, BitmapBlock})
  /\ Len(s) > 0
  /\ \A i \in 1..(Len(s) - 1) : d.block[s[i]].next_block = s[i + 1]
  /\ d.block[s[Len(s)]].next_block = NULL
  /\ \A i, j \in 1..Len(s) : s[i] = s[j] => i = j
  /\ \A i \in 1..Len(s) : s[i] \in d.marked

\* A file has no more blocks than the volume, as none is twice in it.
LEMMA LineIsShort ==
  ASSUME NEW d, NEW s, IsLine(d, s)
  PROVE  Len(s) <= total_blocks
<1> DEFINE N == Len(s)
<1>1. s \in [1..N -> Blocks] /\ N \in Nat /\ \A i, j \in 1..N : s[i] = s[j] => i = j
  BY DEF IsLine
<1> HIDE DEF N
<1>2. s \in Injection(1..N, Blocks)
  BY <1>1 DEF Injection, IsInjective
<1>3. IsFiniteSet(Blocks) /\ Cardinality(Blocks) = total_blocks
  BY FS_Interval, Sizes DEF Blocks
<1>4. Cardinality(1..N) <= Cardinality(Blocks)
  BY <1>2, <1>3, FS_Injection
<1>5. Cardinality(1..N) = N
  BY <1>1, FS_Interval
<1> QED BY <1>3, <1>4, <1>5 DEF N

\* The blocks read along the links of a file are those it has.
LEMMA ChainOfLine ==
  ASSUME NEW d, IsDevice(d), NEW s, IsLine(d, s)
  PROVE  Chain(d, s[1]) = s
<1> DEFINE B == total_blocks + 1
           k == Len(s)
           item == [at \in Blocks |-> at]
           next == [at \in Blocks |-> d.block[at].next_block]
           g == [n \in 0..k |-> IF n < k THEN s[n + 1] ELSE NULL]
           IsChain(f) ==
             f = [fuel \in 0..B |->
                    [at \in Blocks |->
                       IF at = NULL \/ fuel = 0 THEN << >>
                       ELSE << at >> \o f[fuel - 1][d.block[at].next_block]]]
           chain == CHOOSE f : IsChain(f)
<1>0. B \in Nat /\ k \in 1..B /\ k \in 0..B
  <2>1. k <= total_blocks
    BY LineIsShort
  <2>2. k \in Nat /\ k > 0
    BY DEF IsLine
  <2> QED BY <2>1, <2>2, Sizes
<1>1. Chain(d, s[1]) = chain[B][s[1]]
  BY DEF Chain
<1>2. next \in [Blocks -> Blocks] /\ \A at \in Blocks : item[at] = at
  BY DEF IsDevice, IsBlock
<1>3. Walk(g, k, Blocks, next, s[1], NULL)
  <2>1. \A i \in 1..k : s[i] \in Blocks \ {NULL, BitmapBlock}
    BY DEF IsLine
  <2>2. g \in [0..k -> Blocks]
    BY <1>0, <2>1, Sizes
  <2>3. g[0] = s[1] /\ g[k] = NULL
    BY <1>0
  <2>4. ASSUME NEW n \in 1..k PROVE g[n] = next[g[n - 1]]
    <3>1. g[n - 1] = s[n] /\ s[n] \in Blocks
      BY <1>0, <2>1
    <3>2. CASE n = k
      BY <3>1, <3>2, <1>0 DEF IsLine
    <3>3. CASE n < k
      BY <3>1, <3>3, <1>0 DEF IsLine
    <3> QED BY <3>2, <3>3, <1>0
  <2>5. \A n \in 0..(k - 1) : g[n] # g[k]
    BY <1>0, <2>1
  <2> QED BY <2>2, <2>3, <2>4, <2>5 DEF Walk
<1>4. Along(item, g, k) = s
  <2>1. s \in [1..k -> Blocks]
    BY DEF IsLine
  <2>2. \A n \in 1..k : item[g[n - 1]] = s[n]
    BY <1>0, <2>1
  <2> QED BY <2>1, <2>2 DEF Along
<1>5. ASSUME NEW f PROVE IsChain(f) <=> Links(f, B, Blocks, item, next, NULL)
  BY <1>2 DEF Links, ItemThenRest
<1> HIDE DEF item, next, B, g
<1>6. \E f : IsChain(f)
  <2>1. \E f : Links(f, B, Blocks, item, next, NULL)
    BY <1>0, LinksExist
  <2> HIDE DEF IsChain
  <2> QED BY <1>5, <2>1
<1>7. IsChain(chain)
  <2> HIDE DEF IsChain
  <2> QED BY <1>6
<1>8. Links(chain, B, Blocks, item, next, NULL)
  BY <1>5, <1>7, Zenon
<1> HIDE DEF chain
<1>9. chain[B][s[1]] = Along(item, g, k)
  <2> HIDE DEF IsChain, k
  <2> PICK from, to, m : from = s[1] /\ to = NULL /\ m = k
    OBVIOUS
  <2>1. Walk(g, m, Blocks, next, from, to) /\ Links(chain, B, Blocks, item, next, to)
    BY <1>3, <1>8
  <2>2. chain[B][from] = Along(item, g, m)
    BY <1>0, <2>1, LinksSpelled
  <2> QED BY <2>2
<1> QED BY <1>1, <1>4, <1>9

Dots == {FileEntry("dir", 0, 0, name) : name \in {".", ".."}}

EntryOf(L, h) == FileEntry(L[h].mode, h, L[h].size, L[h].name)

At(d, L, h, i) == d.block[L[h].line[i \div BlockCells + 1]].cells[i % BlockCells]

\* A file: its blocks, its size, and the directory, the place there and the name of its
\* entry.
IsHead(L, h) ==
  /\ L[h] = [line |-> L[h].line, size |-> L[h].size, mode |-> L[h].mode,
             parent |-> L[h].parent, slot |-> L[h].slot, name |-> L[h].name]
  /\ L[h].line \in Seq(Blocks \ {NULL, BitmapBlock})
  /\ Len(L[h].line) > 0
  /\ L[h].line[1] = h
  /\ L[h].size \in Nat
  /\ L[h].size <= Len(L[h].line) * BlockCells
  /\ L[h].mode \in {"file", "dir"}
  /\ L[h].parent \in DOMAIN L
  /\ L[h].slot \in Nat

IsPlaced(L, h) ==
  /\ L[L[h].parent].mode = "dir"
  /\ L[h].slot < L[L[h].parent].size
  /\ L[h].mode = "dir" => L[h].parent = RootDirectory /\ L[h].name \in DirNames
  /\ L[h].mode = "file" => L[h].name \in FileNames

Apart(L) ==
  \A g, h \in DOMAIN L : \A i \in 1..Len(L[g].line), j \in 1..Len(L[h].line) :
    L[g].line[i] = L[h].line[j] => g = h /\ i = j

Heads(L) ==
  /\ L = [h \in DOMAIN L |-> L[h]]
  /\ DOMAIN L \subseteq Blocks \ {NULL, BitmapBlock}
  /\ RootDirectory \in DOMAIN L
  /\ \A h \in DOMAIN L : IsHead(L, h)
  /\ Apart(L)
  /\ L[RootDirectory].mode = "dir"
  /\ \A h \in DOMAIN L \ {RootDirectory} : IsPlaced(L, h)

IsLinked(d, s) ==
  /\ \A i \in 1..(Len(s) - 1) : d.block[s[i]].next_block = s[i + 1]
  /\ d.block[s[Len(s)]].next_block = NULL
  /\ \A i \in 1..Len(s) : s[i] \in d.marked

Linked(d, L) == \A h \in DOMAIN L : IsLinked(d, L[h].line)

Entered(d, L) ==
  /\ d.root_dir_size = L[RootDirectory].size
  /\ \A h \in DOMAIN L \ {RootDirectory} : At(d, L, L[h].parent, L[h].slot) = EntryOf(L, h)

Known(cell, L, h, i) ==
  \/ \E name : cell = FilenameEntry(name)
  \/ cell \in Dots
  \/ \E e \in DOMAIN L \ {RootDirectory} :
       L[e].parent = h /\ L[e].slot = i /\ cell = EntryOf(L, e)

Seen(d, L) ==
  \A h \in DOMAIN L :
    L[h].mode = "dir" => \A i \in 0..(L[h].size - 1) : Known(At(d, L, h, i), L, h, i)

Layout(d, L) ==
  IsDevice(d) /\ Heads(L) /\ Linked(d, L) /\ Entered(d, L) /\ Seen(d, L)

\* What is known of each file of a layout.
LEMMA HeadFacts ==
  ASSUME NEW L, Heads(L), NEW h \in DOMAIN L
  PROVE  /\ L[h].line \in Seq(Blocks \ {NULL, BitmapBlock})
         /\ L[h].line \in Seq(Blocks)
         /\ Len(L[h].line) \in Nat /\ Len(L[h].line) \in 1..Len(L[h].line)
         /\ \A i \in 1..Len(L[h].line) : L[h].line[i] \in Blocks
         /\ L[h].line[1] = h
         /\ L[h].size \in Nat /\ L[h].size <= Len(L[h].line) * BlockCells
         /\ L[h].parent \in DOMAIN L /\ L[h].slot \in Nat
         /\ h \in Blocks \ {NULL, BitmapBlock}
<1>1. IsHead(L, h) /\ h \in Blocks \ {NULL, BitmapBlock}
  BY DEF Heads
<1>2. PICK s : s = L[h].line
  OBVIOUS
<1>3. s \in Seq(Blocks \ {NULL, BitmapBlock}) /\ Len(s) > 0
  BY <1>1, <1>2 DEF IsHead
<1>4. s \in Seq(Blocks) /\ Len(s) \in Nat /\ Len(s) \in 1..Len(s) /\ \A i \in 1..Len(s) : s[i] \in Blocks
  BY <1>3
<1> QED BY <1>1, <1>2, <1>3, <1>4 DEF IsHead

\* Following the links from a file's first block gives the file's blocks.
LEMMA LinesOfLayout ==
  ASSUME NEW d, NEW L, Layout(d, L), NEW h \in DOMAIN L
  PROVE  IsLine(d, L[h].line) /\ Chain(d, h) = L[h].line /\ h \in Blocks /\ h # NULL
<1>1. IsLine(d, L[h].line)
  <2>1. IsHead(L, h) /\ IsLinked(d, L[h].line) /\ Apart(L)
    BY DEF Layout, Heads, Linked
  <2>2. \A i, j \in 1..Len(L[h].line) : L[h].line[i] = L[h].line[j] => i = j
    BY <2>1 DEF Apart
  <2> QED BY <2>1, <2>2 DEF IsHead, IsLinked, IsLine
<1>2. Chain(d, L[h].line[1]) = L[h].line
  BY <1>1, ChainOfLine DEF Layout
<1> QED BY <1>1, <1>2 DEF Layout, Heads, IsHead

\* Where a cell below a file's size is.
LEMMA PlaceOfCell ==
  ASSUME NEW L, Heads(L), NEW h \in DOMAIN L, NEW i \in 0..(L[h].size - 1)
  PROVE  /\ i \div BlockCells + 1 \in 1..Len(L[h].line)
         /\ L[h].line[i \div BlockCells + 1] \in Blocks
         /\ i \in Nat /\ i % BlockCells \in 0..(BlockCells - 1)
<1>1. /\ L[h].size \in Nat /\ Len(L[h].line) \in Nat /\ L[h].size <= Len(L[h].line) * BlockCells
      /\ \A k \in 1..Len(L[h].line) : L[h].line[k] \in Blocks
  BY HeadFacts
<1>2. i \in Nat /\ i < Len(L[h].line) * BlockCells
  BY <1>1, Sizes
<1>3. i \div BlockCells + 1 \in 1..Len(L[h].line)
  BY <1>1, <1>2, InsideBlocks
<1> QED BY <1>1, <1>2, <1>3, Division

\* What a read of a whole file returns, cell by cell.
LEMMA CellsOfFile ==
  ASSUME NEW d, NEW L, Layout(d, L), NEW h \in DOMAIN L, NEW size, size = L[h].size
  PROVE  Cells(d, h, size) = [i \in 0..(size - 1) |-> At(d, L, h, i)]
BY LinesOfLayout DEF Cells, At

-----------------------------------------------------------------------------
SetBlock(d, b, x) == [d EXCEPT !.block[b] = x]
Mark(d, b) == [d EXCEPT !.marked = @ \cup {b}]
SetRootSize(d, n) == [d EXCEPT !.root_dir_size = n]

\* tfsWriteBlock changes that block and no other.
LEMMA BlockSet ==
  ASSUME NEW d, IsDevice(d), NEW b \in Blocks, NEW x, IsBlock(x)
  PROVE  /\ IsDevice(SetBlock(d, b, x))
         /\ \A c \in Blocks : SetBlock(d, b, x).block[c] = IF c = b THEN x ELSE d.block[c]
         /\ SetBlock(d, b, x).marked = d.marked
         /\ SetBlock(d, b, x).root_dir_size = d.root_dir_size
<1> DEFINE new == [c \in Blocks |-> IF c = b THEN x ELSE d.block[c]]
<1>1. [d.block EXCEPT ![b] = x] = new
  BY DEF IsDevice
<1>2. SetBlock(d, b, x) = [marked |-> d.marked, block |-> new, root_dir_size |-> d.root_dir_size]
  BY <1>1 DEF IsDevice, SetBlock
<1> QED BY <1>2 DEF IsDevice

\* A mark in the bitmap changes no block.
LEMMA BlockMarked ==
  ASSUME NEW d, IsDevice(d), NEW b \in Nat
  PROVE  /\ IsDevice(Mark(d, b))
         /\ Mark(d, b).block = d.block
         /\ Mark(d, b).marked = d.marked \cup {b}
         /\ Mark(d, b).root_dir_size = d.root_dir_size
BY DEF IsDevice, Mark

\* A write of the header changes no block.
LEMMA RootSizeSet ==
  ASSUME NEW d, IsDevice(d), NEW n \in Nat
  PROVE  /\ IsDevice(SetRootSize(d, n))
         /\ SetRootSize(d, n).block = d.block
         /\ SetRootSize(d, n).marked = d.marked
         /\ SetRootSize(d, n).root_dir_size = n
BY DEF IsDevice, SetRootSize

\* The blocks of the files, but for their data, and what the directories show are the
\* same.
SameFiles(L, M) ==
  /\ DOMAIN M = DOMAIN L
  /\ \A h \in DOMAIN L : /\ M[h].size = L[h].size /\ M[h].mode = L[h].mode
                         /\ M[h].parent = L[h].parent /\ M[h].slot = L[h].slot
                         /\ M[h].name = L[h].name

\* A layout is one of another device too, with blocks more or less to its files, when the
\* links fit it and the directories show the same.
LEMMA SameLayout ==
  ASSUME NEW d, NEW L, Layout(d, L), NEW e, NEW M, IsDevice(e), Heads(M), Linked(e, M),
         SameFiles(L, M), e.root_dir_size = d.root_dir_size,
         \A h \in DOMAIN L : L[h].mode = "dir" =>
           \A i \in 0..(L[h].size - 1) : At(e, M, h, i) = At(d, L, h, i)
  PROVE  Layout(e, M)
<1>1. \A h \in DOMAIN L : EntryOf(M, h) = EntryOf(L, h)
  BY DEF EntryOf, SameFiles
<1>2. Entered(e, M)
  <2>1. e.root_dir_size = M[RootDirectory].size
    BY DEF Layout, Entered, SameFiles, Heads
  <2>2. ASSUME NEW h \in DOMAIN M \ {RootDirectory}
        PROVE  At(e, M, M[h].parent, M[h].slot) = EntryOf(M, h)
    <3>1. h \in DOMAIN L \ {RootDirectory}
      BY DEF SameFiles
    <3>2. /\ L[h].parent \in DOMAIN L /\ L[L[h].parent].mode = "dir"
          /\ L[h].slot \in 0..(L[L[h].parent].size - 1)
      <4>1. IsHead(L, h) /\ IsPlaced(L, h)
        BY <3>1 DEF Layout, Heads
      <4>2. IsHead(L, L[h].parent)
        BY <4>1 DEF Layout, Heads, IsHead
      <4> QED BY <4>1, <4>2 DEF IsHead, IsPlaced
    <3>3. At(e, M, L[h].parent, L[h].slot) = At(d, L, L[h].parent, L[h].slot)
      BY <3>2
    <3>4. M[h].parent = L[h].parent /\ M[h].slot = L[h].slot
      BY <3>1 DEF SameFiles
    <3>5. At(d, L, L[h].parent, L[h].slot) = EntryOf(L, h)
      BY <3>1 DEF Layout, Entered
    <3> QED BY <1>1, <3>1, <3>3, <3>4, <3>5
  <2> QED BY <2>1, <2>2 DEF Entered
<1>3. Seen(e, M)
  <2> SUFFICES ASSUME NEW h \in DOMAIN M, M[h].mode = "dir", NEW i \in 0..(M[h].size - 1)
               PROVE  Known(At(e, M, h, i), M, h, i)
    BY DEF Seen
  <2>1. h \in DOMAIN L /\ L[h].mode = "dir" /\ i \in 0..(L[h].size - 1)
    BY DEF SameFiles
  <2>2. At(e, M, h, i) = At(d, L, h, i)
    BY <2>1
  <2>3. Known(At(d, L, h, i), L, h, i)
    BY <2>1 DEF Layout, Seen
  <2> QED BY <1>1, <2>1, <2>2, <2>3 DEF Known, SameFiles
<1> QED BY <1>2, <1>3 DEF Layout

InNoFile(L, b) == \A h \in DOMAIN L : \A i \in 1..Len(L[h].line) : L[h].line[i] # b

\* Marking a block leaves the files as they are.
LEMMA MarkLayout ==
  ASSUME NEW d, NEW L, Layout(d, L), NEW b \in Nat
  PROVE  Layout(Mark(d, b), L)
<1> DEFINE e == Mark(d, b)
<1>1. IsDevice(e) /\ e.block = d.block /\ d.marked \subseteq e.marked
      /\ e.root_dir_size = d.root_dir_size
  BY BlockMarked DEF Layout
<1> HIDE DEF e
<1>2. Linked(e, L)
  BY <1>1 DEF Layout, Linked, IsLinked
<1>3. \A h \in DOMAIN L : \A i \in 0..(L[h].size - 1) : At(e, L, h, i) = At(d, L, h, i)
  BY <1>1 DEF At
<1>4. SameFiles(L, L) /\ Heads(L)
  BY DEF SameFiles, Layout
<1>5. Layout(e, L)
  BY <1>1, <1>2, <1>3, <1>4, SameLayout
<1> QED BY <1>5 DEF e

\* Writing a block of no file leaves the files as they are.
LEMMA OtherBlockLayout ==
  ASSUME NEW d, NEW L, Layout(d, L), NEW b \in Blocks, InNoFile(L, b), NEW x, IsBlock(x)
  PROVE  Layout(SetBlock(d, b, x), L)
<1> DEFINE e == SetBlock(d, b, x)
<1>1. /\ IsDevice(e) /\ d.marked = e.marked /\ e.root_dir_size = d.root_dir_size
      /\ \A c \in Blocks : e.block[c] = IF c = b THEN x ELSE d.block[c]
  BY BlockSet DEF Layout
<1> HIDE DEF e
<1>0. ASSUME NEW h \in DOMAIN L, NEW i \in 1..Len(L[h].line)
      PROVE  e.block[L[h].line[i]] = d.block[L[h].line[i]]
  <2>1. IsHead(L, h)
    BY DEF Layout, Heads
  <2> QED BY <1>1, <2>1 DEF InNoFile, IsHead
<1>2. Linked(e, L)
  <2> SUFFICES ASSUME NEW h \in DOMAIN L PROVE IsLinked(e, L[h].line)
    BY DEF Linked
  <2> PICK s : s = L[h].line
    OBVIOUS
  <2>1. IsLinked(d, s)
    BY DEF Layout, Linked
  <2>2. Len(s) \in Nat /\ Len(s) \in 1..Len(s)
    BY HeadFacts DEF Layout
  <2>3. \A i \in 1..Len(s) : e.block[s[i]] = d.block[s[i]]
    BY <1>0
  <2>4. IsLinked(e, s)
    BY <1>1, <2>1, <2>2, <2>3 DEF IsLinked
  <2> QED BY <2>4
<1>3. ASSUME NEW h \in DOMAIN L, NEW i \in 0..(L[h].size - 1)
      PROVE  At(e, L, h, i) = At(d, L, h, i)
  BY <1>0, PlaceOfCell DEF At, Layout
<1>4. SameFiles(L, L) /\ Heads(L)
  BY DEF SameFiles, Layout
<1>5. Layout(e, L)
  BY <1>1, <1>2, <1>3, <1>4, SameLayout
<1> QED BY <1>5 DEF e

\* A directory is no file.
LEMMA ModeNotBoth == ASSUME NEW L, NEW h, L[h].mode = "dir" PROVE L[h].mode # "file"
OBVIOUS

\* A block of a file is written, with the link it had: every other cell stays.
LEMMA BlockOfFileSet ==
  ASSUME NEW d, NEW L, Layout(d, L), NEW h \in DOMAIN L, NEW k \in 1..Len(L[h].line),
         NEW x, IsBlock(x), x.next_block = d.block[L[h].line[k]].next_block
  PROVE  LET e == SetBlock(d, L[h].line[k], x)
         IN  /\ IsDevice(e) /\ Linked(e, L)
             /\ e.root_dir_size = d.root_dir_size /\ e.marked = d.marked
             /\ \A g \in DOMAIN L : \A i \in 0..(L[g].size - 1) :
                  At(e, L, g, i) = IF g = h /\ i \div BlockCells + 1 = k
                                   THEN x.cells[i % BlockCells] ELSE At(d, L, g, i)
<1> DEFINE b == L[h].line[k]
           e == SetBlock(d, b, x)
<1>0. b \in Blocks
  BY HeadFacts DEF Layout
<1>1. /\ IsDevice(e) /\ d.marked = e.marked /\ e.root_dir_size = d.root_dir_size
      /\ \A c \in Blocks : e.block[c] = IF c = b THEN x ELSE d.block[c]
  BY <1>0, BlockSet DEF Layout
<1> HIDE DEF e
<1>2. Linked(e, L)
  <2> SUFFICES ASSUME NEW g \in DOMAIN L PROVE IsLinked(e, L[g].line)
    BY DEF Linked
  <2> PICK s : s = L[g].line
    OBVIOUS
  <2>1. IsLinked(d, s)
    BY DEF Layout, Linked
  <2>2. Len(s) \in Nat /\ Len(s) \in 1..Len(s) /\ \A i \in 1..Len(s) : s[i] \in Blocks
    BY HeadFacts DEF Layout
  <2>3. \A i \in 1..Len(s) : e.block[s[i]].next_block = d.block[s[i]].next_block
    BY <1>1, <2>2
  <2>4. IsLinked(e, s)
    BY <1>1, <2>1, <2>2, <2>3 DEF IsLinked
  <2> QED BY <2>4
<1>3. ASSUME NEW g \in DOMAIN L, NEW i \in 0..(L[g].size - 1)
      PROVE  At(e, L, g, i) = IF g = h /\ i \div BlockCells + 1 = k
                              THEN x.cells[i % BlockCells] ELSE At(d, L, g, i)
  <2> PICK j : j = i \div BlockCells + 1
    OBVIOUS
  <2>1. j \in 1..Len(L[g].line) /\ L[g].line[j] \in Blocks
    BY PlaceOfCell DEF Layout
  <2>2. L[g].line[j] = b <=> g = h /\ j = k
    BY <2>1 DEF Layout, Heads, Apart
  <2> QED BY <1>1, <2>1, <2>2 DEF At
<1> QED BY <1>1, <1>2, <1>3 DEF e

\* What a directory shows of a block stays.
KeepsShown(d, L, h, k, x) ==
  L[h].mode = "dir" =>
    \A i \in 0..(L[h].size - 1) :
      i \div BlockCells + 1 = k => x.cells[i % BlockCells] = At(d, L, h, i)

\* A block of a file is filled: the files stay, if it shows what a directory showed.
LEMMA FillLayout ==
  ASSUME NEW d, NEW L, Layout(d, L), NEW h \in DOMAIN L, NEW k \in 1..Len(L[h].line),
         NEW x, IsBlock(x), x.next_block = d.block[L[h].line[k]].next_block,
         KeepsShown(d, L, h, k, x)
  PROVE  Layout(SetBlock(d, L[h].line[k], x), L)
<1> DEFINE e == SetBlock(d, L[h].line[k], x)
<1>1. /\ IsDevice(e) /\ Linked(e, L) /\ e.root_dir_size = d.root_dir_size
      /\ \A g \in DOMAIN L : \A i \in 0..(L[g].size - 1) :
                  At(e, L, g, i) = IF g = h /\ i \div BlockCells + 1 = k
                                   THEN x.cells[i % BlockCells] ELSE At(d, L, g, i)
  BY BlockOfFileSet
<1> HIDE DEF e
<1>2. \A g \in DOMAIN L : L[g].mode = "dir" =>
        \A i \in 0..(L[g].size - 1) : At(e, L, g, i) = At(d, L, g, i)
  BY <1>1 DEF KeepsShown
<1>3. SameFiles(L, L) /\ Heads(L)
  BY DEF SameFiles, Layout
<1>4. Layout(e, L)
  BY <1>1, <1>2, <1>3, SameLayout
<1> QED BY <1>4 DEF e

-----------------------------------------------------------------------------
\* A file gets one more block.
Longer(L, h, c) == [L EXCEPT ![h].line = Append(@, c)]

Spare(d, L, c) ==
  /\ c \in Blocks \ {NULL, BitmapBlock}
  /\ InNoFile(L, c)
  /\ c \in d.marked
  /\ d.block[c].next_block = NULL

\* A file with a block more is where it was, and as long as it was.
LEMMA LongerFacts ==
  ASSUME NEW L, Heads(L), NEW h \in DOMAIN L,
         NEW c \in Blocks \ {NULL, BitmapBlock}, InNoFile(L, c)
  PROVE  LET M == Longer(L, h, c)
             n == Len(L[h].line)
         IN  /\ SameFiles(L, M) /\ Heads(M)
             /\ \A g \in DOMAIN L \ {h} : M[g] = L[g]
             /\ Len(M[h].line) = n + 1
             /\ \A i \in 1..n : M[h].line[i] = L[h].line[i]
             /\ M[h].line[n + 1] = c
<1> DEFINE M == Longer(L, h, c)
           n == Len(L[h].line)
<1> PICK s : s = L[h].line
  OBVIOUS
<1>1. IsHead(L, h) /\ L = [g \in DOMAIN L |-> L[g]]
  BY DEF Heads
<1>2. /\ L[h] = [line |-> s, size |-> L[h].size, mode |-> L[h].mode,
                 parent |-> L[h].parent, slot |-> L[h].slot, name |-> L[h].name]
      /\ s \in Seq(Blocks \ {NULL, BitmapBlock}) /\ Len(s) > 0 /\ s[1] = h
  BY <1>1 DEF IsHead
<1>3. M = [g \in DOMAIN L |-> IF g = h THEN [L[h] EXCEPT !.line = Append(s, c)] ELSE L[g]]
  BY <1>1, <1>2 DEF Longer
<1>4. [L[h] EXCEPT !.line = Append(s, c)] =
        [line |-> Append(s, c), size |-> L[h].size, mode |-> L[h].mode,
                 parent |-> L[h].parent, slot |-> L[h].slot, name |-> L[h].name]
  <2> PICK z, m, p, t, a : /\ z = L[h].size /\ m = L[h].mode /\ p = L[h].parent
                          /\ t = L[h].slot /\ a = L[h].name
    OBVIOUS
  <2> PICK r : r = L[h]
    OBVIOUS
  <2>1. r = [line |-> s, size |-> z, mode |-> m, parent |-> p, slot |-> t, name |-> a]
    BY <1>2
  <2>2. [r EXCEPT !.line = Append(s, c)] =
          [line |-> Append(s, c), size |-> z, mode |-> m, parent |-> p, slot |-> t, name |-> a]
    BY <2>1
  <2> QED BY <2>2
<1>5. /\ DOMAIN M = DOMAIN L /\ \A g \in DOMAIN L \ {h} : M[g] = L[g]
      /\ M[h] = [line |-> Append(s, c), size |-> L[h].size, mode |-> L[h].mode,
                 parent |-> L[h].parent, slot |-> L[h].slot, name |-> L[h].name]
      /\ M = [g \in DOMAIN M |-> M[g]]
  BY <1>3, <1>4
<1> HIDE DEF M
<1>6. /\ Append(s, c) \in Seq(Blocks \ {NULL, BitmapBlock}) /\ Len(Append(s, c)) = Len(s) + 1
      /\ \A i \in 1..Len(s) : Append(s, c)[i] = s[i]
      /\ Append(s, c)[Len(s) + 1] = c
      /\ Append(s, c)[1] = h /\ Len(s) \in Nat
  BY <1>2
<1>7. /\ Len(M[h].line) = n + 1
      /\ \A i \in 1..n : M[h].line[i] = L[h].line[i]
      /\ M[h].line[n + 1] = c /\ n \in Nat
  BY <1>5, <1>6
<1>8. SameFiles(L, M)
  BY <1>5 DEF SameFiles
<1>9. \A g \in DOMAIN M : IsHead(M, g)
  <2>1. IsHead(M, h)
    <3>1. L[h].size <= (n + 1) * BlockCells
      <4>1. L[h].size \in Nat /\ L[h].size <= n * BlockCells /\ n \in Nat
        BY <1>1, <1>6 DEF IsHead
      <4> QED BY <4>1, Sizes
    <3> QED BY <1>1, <1>5, <1>6, <1>7, <3>1 DEF IsHead
  <2>2. ASSUME NEW g \in DOMAIN L \ {h} PROVE IsHead(M, g)
    <3>1. IsHead(L, g)
      BY DEF Heads
    <3> QED BY <1>5, <3>1 DEF IsHead
  <2> QED BY <1>5, <2>1, <2>2
<1>10. Apart(M)
  <2> SUFFICES ASSUME NEW f \in DOMAIN L, NEW g \in DOMAIN L,
                      NEW i \in 1..Len(M[f].line), NEW j \in 1..Len(M[g].line),
                      M[f].line[i] = M[g].line[j]
               PROVE  f = g /\ i = j
    BY <1>5 DEF Apart
  <2>1. ASSUME NEW a \in DOMAIN L, NEW u \in 1..Len(M[a].line)
        PROVE  \/ u \in 1..Len(L[a].line) /\ M[a].line[u] = L[a].line[u] /\ M[a].line[u] # c
               \/ a = h /\ u = n + 1 /\ M[a].line[u] = c
    BY <1>5, <1>7 DEF InNoFile
  <2>2. Apart(L)
    BY DEF Heads
  <2>3. CASE /\ i \in 1..Len(L[f].line) /\ M[f].line[i] = L[f].line[i]
             /\ j \in 1..Len(L[g].line) /\ M[g].line[j] = L[g].line[j]
    <3>1. L[f].line[i] = L[g].line[j]
      BY <2>3
    <3> QED BY <2>2, <2>3, <3>1 DEF Apart
  <2>4. CASE f = h /\ i = n + 1 /\ g = h /\ j = n + 1
    BY <2>4
  <2> QED BY <2>1, <2>3, <2>4
<1>11. \A g \in DOMAIN M \ {RootDirectory} : IsPlaced(M, g)
  <2> SUFFICES ASSUME NEW g \in DOMAIN L \ {RootDirectory} PROVE IsPlaced(M, g)
    BY <1>5
  <2>1. IsPlaced(L, g) /\ L[g].parent \in DOMAIN L
    BY DEF Heads, IsHead
  <2> QED BY <1>8, <2>1 DEF IsPlaced, SameFiles
<1>12. Heads(M)
  BY <1>5, <1>8, <1>9, <1>10, <1>11 DEF Heads, SameFiles
<1> QED BY <1>5, <1>7, <1>8, <1>12 DEF M

\* The last block of a file is linked to a spare one, which is the file's from then on.
LEMMA ExtendLayout ==
  ASSUME NEW d, NEW L, Layout(d, L), NEW h \in DOMAIN L, NEW c, Spare(d, L, c),
         NEW k, k = Len(L[h].line),
         NEW x, IsBlock(x), x.next_block = c, KeepsShown(d, L, h, k, x)
  PROVE  Layout(SetBlock(d, L[h].line[k], x), Longer(L, h, c))
<1> DEFINE b == L[h].line[k]
           e == SetBlock(d, b, x)
           M == Longer(L, h, c)
<1>0. b \in Blocks /\ k \in Nat /\ k \in 1..k /\ Heads(L) /\ c \in Blocks \ {NULL, BitmapBlock}
      /\ InNoFile(L, c)
  BY HeadFacts DEF Layout, Spare
<1>1. /\ IsDevice(e) /\ d.marked = e.marked /\ e.root_dir_size = d.root_dir_size
      /\ \A a \in Blocks : e.block[a] = IF a = b THEN x ELSE d.block[a]
  BY <1>0, BlockSet DEF Layout
<1>2. /\ SameFiles(L, M) /\ Heads(M)
      /\ \A g \in DOMAIN L \ {h} : M[g] = L[g]
      /\ Len(M[h].line) = k + 1
      /\ \A i \in 1..k : M[h].line[i] = L[h].line[i]
      /\ M[h].line[k + 1] = c
  BY <1>0, LongerFacts
<1> HIDE DEF e, M, b
<1>a. \A g \in DOMAIN L : \A i \in 1..Len(L[g].line) :
        /\ L[g].line[i] \in Blocks
        /\ L[g].line[i] = b <=> g = h /\ i = k
  <2> TAKE g \in DOMAIN L
  <2> TAKE i \in 1..Len(L[g].line)
  <2>1. k \in 1..Len(L[h].line)
    BY <1>0
  <2>2. L[g].line[i] \in Blocks
    BY <1>0, HeadFacts
  <2>3. Apart(L)
    BY <1>0 DEF Heads
  <2>4. L[g].line[i] = L[h].line[k] => g = h /\ i = k
    BY <2>1, <2>3 DEF Apart
  <2> QED BY <2>2, <2>4 DEF b
<1>3. Linked(e, M)
  <2> SUFFICES ASSUME NEW g \in DOMAIN L PROVE IsLinked(e, M[g].line)
    BY <1>2 DEF Linked, SameFiles
  <2> PICK s : s = L[g].line
    OBVIOUS
  <2>1. IsLinked(d, s) /\ Len(s) \in Nat /\ Len(s) \in 1..Len(s)
    BY HeadFacts DEF Layout, Linked
  <2>2. CASE g # h
    <3>1. \A i \in 1..Len(s) : e.block[s[i]] = d.block[s[i]]
      BY <1>1, <1>a, <2>2
    <3>2. \A i \in 1..(Len(s) - 1) : e.block[s[i]].next_block = s[i + 1]
      <4> TAKE i \in 1..(Len(s) - 1)
      <4>1. i \in 1..Len(s)
        BY ONLY <2>1
      <4> QED BY ONLY <2>1, <3>1, <4>1 DEF IsLinked
    <3>3. e.block[s[Len(s)]].next_block = NULL
      BY ONLY <2>1, <3>1 DEF IsLinked
    <3>4. \A i \in 1..Len(s) : s[i] \in e.marked
      BY ONLY <1>1, <2>1 DEF IsLinked
    <3>5. IsLinked(e, s)
      BY ONLY <3>2, <3>3, <3>4 DEF IsLinked
    <3> QED BY <1>2, <2>2, <3>5
  <2>3. CASE g = h
    <3> PICK t : t = M[h].line
      OBVIOUS
    <3>1. Len(s) = k /\ Len(t) = k + 1 /\ t[k + 1] = c /\ \A i \in 1..k : t[i] = s[i]
      BY <1>2, <2>3
    <3>2. \A i \in 1..k : /\ s[i] \in Blocks /\ (s[i] = b <=> i = k)
                          /\ s[i] \in d.marked
      BY <1>a, <2>1, <2>3, <3>1 DEF IsLinked
    <3>3. ASSUME NEW i \in 1..k PROVE e.block[t[i]].next_block = t[i + 1]
      <4>1. CASE i = k
        BY <1>1, <3>1, <3>2, <4>1
      <4>2. CASE i # k
        <5>1. i \in 1..(Len(s) - 1) /\ i + 1 \in 1..k
          BY <3>1, <4>2, <1>0
        <5>2. d.block[s[i]].next_block = s[i + 1]
          BY <2>1, <5>1 DEF IsLinked
        <5>3. e.block[s[i]] = d.block[s[i]]
          BY <1>1, <3>2, <4>2
        <5>4. t[i] = s[i] /\ t[i + 1] = s[i + 1]
          BY <3>1, <5>1
        <5> QED BY <5>2, <5>3, <5>4
      <4> QED BY <4>1, <4>2
    <3>4. c \in d.marked /\ d.block[c].next_block = NULL /\ c # b
      BY <1>0 DEF Spare, InNoFile, b
    <3>5. e.block[t[k + 1]].next_block = NULL
      BY <1>0, <1>1, <3>1, <3>4
    <3>6. \A i \in 1..(k + 1) : t[i] \in e.marked
      BY <1>0, <1>1, <3>1, <3>2, <3>4
    <3>7. IsLinked(e, t)
      BY <1>0, <3>1, <3>3, <3>5, <3>6 DEF IsLinked
    <3> QED BY <2>3, <3>7
  <2> QED BY <2>2, <2>3
<1>4. ASSUME NEW g \in DOMAIN L, L[g].mode = "dir", NEW i \in 0..(L[g].size - 1)
      PROVE  At(e, M, g, i) = At(d, L, g, i)
  <2> PICK j : j = i \div BlockCells + 1
    OBVIOUS
  <2>1. j \in 1..Len(L[g].line) /\ L[g].line[j] \in Blocks
    BY <1>0, PlaceOfCell
  <2>2. M[g].line[j] = L[g].line[j]
    BY <1>2, <2>1
  <2>3. CASE g = h /\ j = k
    <3>1. e.block[L[g].line[j]] = x
      BY <1>1, <2>1, <2>3 DEF b
    <3>2. At(e, M, g, i) = x.cells[i % BlockCells]
      BY <2>2, <3>1 DEF At
    <3>3. x.cells[i % BlockCells] = At(d, L, h, i)
      BY <1>4, <2>3 DEF KeepsShown
    <3> QED BY <2>3, <3>2, <3>3
  <2>4. CASE ~ (g = h /\ j = k)
    BY <1>1, <1>a, <2>1, <2>2, <2>4 DEF At
  <2> QED BY <2>3, <2>4
<1>5. Layout(e, M)
  BY <1>1, <1>2, <1>3, <1>4, SameLayout
<1> QED BY <1>5 DEF e, M, b

-----------------------------------------------------------------------------
\* A file's size grows, up to what its blocks hold.
Resized(L, h, n) == [L EXCEPT ![h].size = n]

\* A file of another size differs in nothing else.
LEMMA ResizedFacts ==
  ASSUME NEW L, Heads(L), NEW h \in DOMAIN L, NEW n \in Nat, L[h].size <= n,
         n <= Len(L[h].line) * BlockCells
  PROVE  LET M == Resized(L, h, n)
         IN  /\ Heads(M)
             /\ DOMAIN M = DOMAIN L
             /\ \A g \in DOMAIN L \ {h} : M[g] = L[g]
             /\ M[h].line = L[h].line /\ M[h].size = n /\ M[h].mode = L[h].mode
             /\ M[h].parent = L[h].parent /\ M[h].slot = L[h].slot /\ M[h].name = L[h].name
<1> DEFINE M == Resized(L, h, n)
<1>1. IsHead(L, h) /\ L = [g \in DOMAIN L |-> L[g]] /\ L[h].size \in Nat
  BY DEF Heads, IsHead
<1> PICK r : r = L[h]
  OBVIOUS
<1> PICK s, m, p, t, a : /\ s = L[h].line /\ m = L[h].mode /\ p = L[h].parent
                          /\ t = L[h].slot /\ a = L[h].name
  OBVIOUS
<1>2. r = [line |-> s, size |-> r.size, mode |-> m, parent |-> p, slot |-> t, name |-> a]
  BY <1>1 DEF IsHead
<1>3. [r EXCEPT !.size = n] =
        [line |-> s, size |-> n, mode |-> m, parent |-> p, slot |-> t, name |-> a]
  BY <1>2
<1>4. M = [g \in DOMAIN L |-> IF g = h THEN [r EXCEPT !.size = n] ELSE L[g]]
  BY <1>1 DEF Resized
<1>5. /\ DOMAIN M = DOMAIN L /\ \A g \in DOMAIN L \ {h} : M[g] = L[g]
      /\ M[h] = [line |-> s, size |-> n, mode |-> m, parent |-> p, slot |-> t, name |-> a]
      /\ M = [g \in DOMAIN M |-> M[g]]
  BY <1>3, <1>4
<1> HIDE DEF M
<1>6. /\ M[h].line = L[h].line /\ M[h].size = n /\ M[h].mode = L[h].mode
      /\ M[h].parent = L[h].parent /\ M[h].slot = L[h].slot /\ M[h].name = L[h].name
  BY <1>5
<1>7. \A g \in DOMAIN L : /\ M[g].line = L[g].line /\ M[g].mode = L[g].mode
                          /\ M[g].parent = L[g].parent /\ M[g].slot = L[g].slot
                          /\ M[g].name = L[g].name
                          /\ M[g].size = IF g = h THEN n ELSE L[g].size
  BY <1>5, <1>6
<1>9. \A g \in DOMAIN M : IsHead(M, g)
  <2>1. IsHead(M, h)
    BY <1>1, <1>5, <1>6 DEF IsHead
  <2>2. ASSUME NEW g \in DOMAIN L \ {h} PROVE IsHead(M, g)
    <3>1. IsHead(L, g)
      BY DEF Heads
    <3> QED BY <1>5, <3>1 DEF IsHead
  <2> QED BY <1>5, <2>1, <2>2
<1>10. Apart(M)
  BY <1>5, <1>7 DEF Heads, Apart
<1>11. \A g \in DOMAIN M \ {RootDirectory} : IsPlaced(M, g)
  <2> SUFFICES ASSUME NEW g \in DOMAIN L \ {RootDirectory} PROVE IsPlaced(M, g)
    BY <1>5
  <2>1. IsPlaced(L, g) /\ L[g].parent \in DOMAIN L /\ L[g].slot \in Nat
    BY DEF Heads, IsHead
  <2>2. L[g].slot < M[L[g].parent].size
    BY <1>1, <1>7, <2>1 DEF IsPlaced
  <2>3. M[L[g].parent].mode = "dir"
    BY <1>7, <2>1 DEF IsPlaced
  <2> QED BY <1>7, <2>1, <2>2, <2>3 DEF IsPlaced
<1>12. Heads(M)
  BY <1>5, <1>7, <1>9, <1>10, <1>11 DEF Heads
<1> QED BY <1>5, <1>6, <1>12 DEF M

\* The size of a file is written to its entry, or that of the root directory to the
\* header.
Regrown(d, L, h, n, e) ==
  /\ IsDevice(e) /\ Linked(e, L)
  /\ e.root_dir_size = Resized(L, h, n)[RootDirectory].size
  /\ \A g \in DOMAIN L : L[g].mode = "dir" =>
       \A i \in 0..(L[g].size - 1) :
         At(e, L, g, i) = IF h # RootDirectory /\ g = L[h].parent /\ i = L[h].slot
                          THEN EntryOf(Resized(L, h, n), h) ELSE At(d, L, g, i)

Shown(e, L, M) ==
  \A g \in DOMAIN L : L[g].mode = "dir" =>
    \A i \in 0..(L[g].size - 1) : Known(At(e, M, g, i), M, g, i)

\* The entry of a file is a cell of its directory.
LEMMA PlaceInDirectory ==
  ASSUME NEW L, Heads(L), NEW h \in DOMAIN L \ {RootDirectory}
  PROVE  /\ L[h].parent \in DOMAIN L /\ L[L[h].parent].mode = "dir"
         /\ L[h].slot \in 0..(L[L[h].parent].size - 1)
<1>1. IsPlaced(L, h) /\ L[h].parent \in DOMAIN L /\ L[h].slot \in Nat
  BY HeadFacts DEF Heads
<1>2. L[L[h].parent].size \in Nat
  BY <1>1, HeadFacts
<1> QED BY <1>1, <1>2 DEF IsPlaced

\* A file's new size reaches the device: but for what the directory shows beyond its old
\* end, the files are as the layout with the new size has them.
LEMMA Grown ==
  ASSUME NEW d, NEW L, Layout(d, L), NEW h \in DOMAIN L, NEW n \in Nat, L[h].size <= n,
         n <= Len(L[h].line) * BlockCells, NEW e, Regrown(d, L, h, n, e)
  PROVE  LET M == Resized(L, h, n)
         IN  Heads(M) /\ Linked(e, M) /\ Entered(e, M) /\ Shown(e, L, M)
<1> DEFINE M == Resized(L, h, n)
<1>0. Heads(L)
  BY DEF Layout
<1>1. /\ Heads(M)
      /\ DOMAIN M = DOMAIN L
      /\ \A g \in DOMAIN L \ {h} : M[g] = L[g]
      /\ M[h].line = L[h].line /\ M[h].size = n /\ M[h].mode = L[h].mode
      /\ M[h].parent = L[h].parent /\ M[h].slot = L[h].slot /\ M[h].name = L[h].name
  BY <1>0, ResizedFacts
<1>2. /\ IsDevice(e) /\ Linked(e, L)
      /\ e.root_dir_size = M[RootDirectory].size
      /\ \A g \in DOMAIN L : L[g].mode = "dir" =>
           \A i \in 0..(L[g].size - 1) :
             At(e, L, g, i) = IF h # RootDirectory /\ g = L[h].parent /\ i = L[h].slot
                              THEN EntryOf(M, h) ELSE At(d, L, g, i)
  BY DEF Regrown
<1> HIDE DEF M
<1>3. \A g \in DOMAIN L : /\ M[g].line = L[g].line /\ M[g].mode = L[g].mode
                          /\ M[g].parent = L[g].parent /\ M[g].slot = L[g].slot
                          /\ M[g].name = L[g].name
                          /\ (g # h => EntryOf(M, g) = EntryOf(L, g))
  BY <1>1 DEF EntryOf
<1>4. \A g \in DOMAIN L : \A i : At(e, M, g, i) = At(e, L, g, i)
  BY <1>3 DEF At
<1>5. Linked(e, M)
  BY <1>1, <1>2, <1>3 DEF Linked
<1>6. ASSUME NEW g \in DOMAIN L \ {RootDirectory}, NEW f \in DOMAIN L \ {RootDirectory},
             L[g].parent = L[f].parent, L[g].slot = L[f].slot
      PROVE  g = f
  <2>1. EntryOf(L, g) = EntryOf(L, f)
    BY <1>6 DEF Layout, Entered
  <2>2. EntryOf(L, g).block_index = g /\ EntryOf(L, f).block_index = f
    BY DEF EntryOf, FileEntry
  <2> QED BY <2>1, <2>2
<1>7. ASSUME NEW g \in DOMAIN L \ {RootDirectory}
      PROVE  At(e, M, M[g].parent, M[g].slot) = EntryOf(M, g)
  <2> PICK p, i : p = L[g].parent /\ i = L[g].slot
    OBVIOUS
  <2>1. p \in DOMAIN L /\ L[p].mode = "dir" /\ i \in 0..(L[p].size - 1)
    BY <1>0, PlaceInDirectory
  <2>2. At(e, M, p, i) = IF h # RootDirectory /\ p = L[h].parent /\ i = L[h].slot
                         THEN EntryOf(M, h) ELSE At(d, L, p, i)
    BY <1>2, <1>4, <2>1
  <2>3. CASE g = h
    BY <1>3, <2>2, <2>3
  <2>4. CASE g # h
    <3>1. ~ (h # RootDirectory /\ p = L[h].parent /\ i = L[h].slot)
      BY <1>6, <2>4
    <3>2. At(d, L, p, i) = EntryOf(L, g)
      BY DEF Layout, Entered
    <3> QED BY <1>3, <2>2, <2>4, <3>1, <3>2
  <2> QED BY <2>3, <2>4
<1>8. Entered(e, M)
  BY <1>1, <1>2, <1>7 DEF Entered
<1>9. ASSUME NEW g \in DOMAIN L, L[g].mode = "dir", NEW i \in 0..(L[g].size - 1)
      PROVE  Known(At(e, M, g, i), M, g, i)
  <2>1. At(e, M, g, i) = IF h # RootDirectory /\ g = L[h].parent /\ i = L[h].slot
                         THEN EntryOf(M, h) ELSE At(d, L, g, i)
    BY <1>2, <1>4, <1>9
  <2>2. CASE h # RootDirectory /\ g = L[h].parent /\ i = L[h].slot
    BY <1>1, <2>1, <2>2 DEF Known
  <2>3. CASE ~ (h # RootDirectory /\ g = L[h].parent /\ i = L[h].slot)
    <3>1. Known(At(d, L, g, i), L, g, i)
      BY <1>9 DEF Layout, Seen
    <3>2. ASSUME NEW f \in DOMAIN L \ {RootDirectory}, L[f].parent = g, L[f].slot = i,
                 At(d, L, g, i) = EntryOf(L, f)
          PROVE  Known(At(e, M, g, i), M, g, i)
      <4>1. f # h
        BY <2>3, <3>2
      <4> QED BY <1>1, <1>3, <2>1, <2>3, <3>2, <4>1 DEF Known
    <3> QED BY <2>1, <2>3, <3>1, <3>2 DEF Known
  <2> QED BY <2>2, <2>3
<1> QED BY <1>1, <1>5, <1>8, <1>9 DEF M, Shown

\* A file that holds data has nothing to show beyond its old end.
LEMMA GrownFile ==
  ASSUME NEW d, NEW L, Layout(d, L), NEW h \in DOMAIN L, NEW n \in Nat, L[h].size <= n,
         n <= Len(L[h].line) * BlockCells, NEW e, Regrown(d, L, h, n, e),
         L[h].mode = "file"
  PROVE  Layout(e, Resized(L, h, n))
<1> DEFINE M == Resized(L, h, n)
<1>1. Heads(M) /\ Linked(e, M) /\ Entered(e, M) /\ Shown(e, L, M)
  BY Grown
<1>2. /\ DOMAIN M = DOMAIN L /\ \A g \in DOMAIN L \ {h} : M[g] = L[g]
      /\ M[h].mode = "file"
  BY ResizedFacts DEF Layout
<1> HIDE DEF M
<1>3. Seen(e, M)
  BY <1>1, <1>2 DEF Seen, Shown
<1>4. IsDevice(e)
  BY DEF Regrown
<1>5. Layout(e, M)
  BY <1>1, <1>3, <1>4 DEF Layout
<1> QED BY <1>5 DEF M

\* A directory grows by a cell: a name, "." or "..".
LEMMA GrownDirectory ==
  ASSUME NEW d, NEW L, Layout(d, L), NEW h \in DOMAIN L, NEW n, n = L[h].size + 1,
         n <= Len(L[h].line) * BlockCells, NEW e, Regrown(d, L, h, n, e),
         L[h].mode = "dir",
         NEW cell, cell = At(e, L, h, L[h].size),
         cell \in Dots \/ \E name : cell = FilenameEntry(name)
  PROVE  Layout(e, Resized(L, h, n))
<1> DEFINE M == Resized(L, h, n)
<1>0. n \in Nat /\ L[h].size <= n /\ L[h].size \in Nat
  BY HeadFacts DEF Layout
<1>1. Heads(M) /\ Linked(e, M) /\ Entered(e, M) /\ Shown(e, L, M)
  BY <1>0, Grown
<1>2. /\ DOMAIN M = DOMAIN L /\ \A g \in DOMAIN L \ {h} : M[g] = L[g]
      /\ M[h].mode = "dir" /\ M[h].line = L[h].line /\ M[h].size = n
  BY <1>0, ResizedFacts DEF Layout
<1> HIDE DEF M
<1>3. Seen(e, M)
  <2> SUFFICES ASSUME NEW g \in DOMAIN L, M[g].mode = "dir", NEW i \in 0..(M[g].size - 1)
               PROVE  Known(At(e, M, g, i), M, g, i)
    BY <1>2 DEF Seen
  <2>1. CASE g = h /\ i = L[h].size
    <3>1. At(e, M, h, L[h].size) = cell
      BY <1>2, Zenon DEF At
    <3> QED BY <2>1, <3>1 DEF Known
  <2>2. CASE ~ (g = h /\ i = L[h].size)
    <3>1. L[g].mode = "dir" /\ i \in 0..(L[g].size - 1)
      BY <1>0, <1>2, <2>2
    <3> QED BY <1>1, <3>1 DEF Shown
  <2> QED BY <2>1, <2>2
<1>4. IsDevice(e)
  BY DEF Regrown
<1>5. Layout(e, M)
  BY <1>1, <1>3, <1>4 DEF Layout
<1> QED BY <1>5 DEF M

\* A file of one block and no data, with its entry.
NewFile(b, mode, parent, slot, name) ==
  [line |-> << b >>, size |-> 0, mode |-> mode, parent |-> parent, slot |-> slot, name |-> name]

With(L, b, r) == [g \in DOMAIN L \cup {b} |-> IF g = b THEN r ELSE L[g]]

\* The names programs give to files and to directories, which are in the root directory.
Nameable(mode, parent, name) ==
  \/ mode = "file" /\ name \in FileNames
  \/ mode = "dir" /\ name \in DirNames /\ parent = RootDirectory

CanJoin(L, b, mode, h, slot, name) ==
  /\ Heads(L) /\ h \in DOMAIN L /\ L[h].mode = "dir" /\ slot \in 0..(L[h].size - 1)
  /\ b \in Blocks \ {NULL, BitmapBlock} /\ InNoFile(L, b) /\ Nameable(mode, h, name)

Joined(L, b, r, M) ==
  /\ Heads(M)
  /\ DOMAIN M = DOMAIN L \cup {b} /\ b \notin DOMAIN L
  /\ \A g \in DOMAIN L : M[g] = L[g]
  /\ M[b] = r

\* A new file starts in a block of its own and has a place of its own in its directory.
LEMMA WithFacts ==
  ASSUME NEW L, NEW b, NEW mode, NEW h, NEW slot, NEW name,
         CanJoin(L, b, mode, h, slot, name)
  PROVE  Joined(L, b, NewFile(b, mode, h, slot, name), With(L, b, NewFile(b, mode, h, slot, name)))
<1> DEFINE r == NewFile(b, mode, h, slot, name)
           M == With(L, b, r)
<1>0. /\ Heads(L) /\ h \in DOMAIN L /\ L[h].mode = "dir" /\ slot \in 0..(L[h].size - 1)
      /\ b \in Blocks \ {NULL, BitmapBlock} /\ InNoFile(L, b) /\ Nameable(mode, h, name)
  BY DEF CanJoin
<1>1. /\ L[h].size \in Nat /\ L[h].size > 0 /\ slot \in Nat /\ slot < L[h].size
  BY <1>0, HeadFacts
<1>2. b \notin DOMAIN L
  <2> SUFFICES ASSUME b \in DOMAIN L PROVE FALSE
    OBVIOUS
  <2>1. L[b].line[1] = b /\ 1 \in 1..Len(L[b].line)
    BY <1>0, HeadFacts
  <2> QED BY <1>0, <2>1 DEF InNoFile
<1>3. /\ DOMAIN M = DOMAIN L \cup {b}
      /\ \A g \in DOMAIN L : M[g] = L[g]
      /\ M[b] = r
      /\ M = [g \in DOMAIN M |-> M[g]]
  BY <1>2 DEF With
<1> HIDE DEF M
<1>4. /\ r.line = << b >> /\ r.size = 0 /\ r.mode = mode /\ r.parent = h /\ r.slot = slot
      /\ r.name = name
      /\ r = [line |-> r.line, size |-> r.size, mode |-> r.mode, parent |-> r.parent,
              slot |-> r.slot, name |-> r.name]
      /\ mode \in {"file", "dir"} /\ ~ (mode = "file" /\ mode = "dir")
  BY <1>0 DEF NewFile, Nameable
<1>5. Len(<< b >>) = 1 /\ << b >>[1] = b /\ << b >> \in Seq(Blocks \ {NULL, BitmapBlock})
  BY <1>0
<1> HIDE DEF r
<1>6. \A g \in DOMAIN M : IsHead(M, g)
  <2>1. IsHead(M, b)
    BY <1>0, <1>1, <1>3, <1>4, <1>5, Sizes DEF IsHead
  <2>2. ASSUME NEW g \in DOMAIN L PROVE IsHead(M, g)
    <3>1. IsHead(L, g)
      BY <1>0 DEF Heads
    <3> QED BY <1>3, <3>1 DEF IsHead
  <2> QED BY <1>3, <2>1, <2>2
<1>7. Apart(M)
  <2> SUFFICES ASSUME NEW f \in DOMAIN M, NEW g \in DOMAIN M,
                      NEW i \in 1..Len(M[f].line), NEW j \in 1..Len(M[g].line),
                      M[f].line[i] = M[g].line[j]
               PROVE  f = g /\ i = j
    BY DEF Apart
  <2>1. ASSUME NEW a \in DOMAIN M, NEW u \in 1..Len(M[a].line)
        PROVE  \/ a \in DOMAIN L /\ M[a] = L[a] /\ M[a].line[u] # b
               \/ a = b /\ u = 1 /\ M[a].line[u] = b
    BY <1>0, <1>3, <1>4, <1>5 DEF InNoFile
  <2>2. Apart(L)
    BY <1>0 DEF Heads
  <2>3. CASE f \in DOMAIN L /\ M[f] = L[f] /\ g \in DOMAIN L /\ M[g] = L[g]
    <3>1. i \in 1..Len(L[f].line) /\ j \in 1..Len(L[g].line) /\ L[f].line[i] = L[g].line[j]
      BY <2>3
    <3> QED BY <2>2, <2>3, <3>1 DEF Apart
  <2>4. CASE f = b /\ i = 1 /\ g = b /\ j = 1
    BY <2>4
  <2> QED BY <2>1, <2>3, <2>4
<1>8. ASSUME NEW g \in DOMAIN M \ {RootDirectory} PROVE IsPlaced(M, g)
  <2>1. CASE g = b
    BY <1>0, <1>1, <1>3, <1>4, <2>1 DEF IsPlaced, Nameable
  <2>2. CASE g \in DOMAIN L \ {RootDirectory}
    <3>1. IsPlaced(L, g) /\ L[g].parent \in DOMAIN L
      BY <1>0, <2>2, PlaceInDirectory DEF Heads
    <3> QED BY <1>3, <2>2, <3>1 DEF IsPlaced
  <2> QED BY <1>3, <2>1, <2>2
<1>9. Heads(M)
  BY <1>0, <1>3, <1>6, <1>7, <1>8 DEF Heads
<1> QED BY <1>2, <1>3, <1>9 DEF Joined, M, r

\* A directory grows by the entry of a new file.
LEMMA GrownEntry ==
  ASSUME NEW d, NEW L, Layout(d, L), NEW h \in DOMAIN L, NEW n, n = L[h].size + 1,
         n <= Len(L[h].line) * BlockCells, NEW e, Regrown(d, L, h, n, e),
         L[h].mode = "dir",
         NEW b, Spare(e, L, b), NEW mode, NEW name, Nameable(mode, h, name),
         At(e, L, h, L[h].size) = FileEntry(mode, b, 0, name)
  PROVE  Layout(e, With(Resized(L, h, n), b, NewFile(b, mode, h, L[h].size, name)))
<1> DEFINE M == Resized(L, h, n)
           r == NewFile(b, mode, h, L[h].size, name)
           N == With(M, b, r)
<1>0. n \in Nat /\ L[h].size <= n /\ L[h].size \in Nat
  BY HeadFacts DEF Layout
<1>1. Heads(M) /\ Linked(e, M) /\ Entered(e, M) /\ Shown(e, L, M)
  BY <1>0, Grown
<1>2. /\ DOMAIN M = DOMAIN L /\ \A g \in DOMAIN L \ {h} : M[g] = L[g]
      /\ M[h].mode = "dir" /\ M[h].line = L[h].line /\ M[h].size = n
  BY <1>0, ResizedFacts DEF Layout
<1> HIDE DEF M
<1>3. InNoFile(M, b) /\ b \in Blocks \ {NULL, BitmapBlock}
  <2>1. \A g \in DOMAIN L : M[g].line = L[g].line
    BY <1>2
  <2> QED BY <1>2, <2>1 DEF Spare, InNoFile
<1>4. /\ Heads(N)
      /\ DOMAIN N = DOMAIN M \cup {b} /\ b \notin DOMAIN M
      /\ \A g \in DOMAIN M : N[g] = M[g]
      /\ N[b] = r
  <2>1. L[h].size \in 0..(M[h].size - 1) /\ h \in DOMAIN M /\ M[h].mode = "dir"
    BY <1>0, <1>2
  <2>2. CanJoin(M, b, mode, h, L[h].size, name)
    BY <1>1, <1>3, <2>1 DEF CanJoin
  <2>3. Joined(M, b, r, N)
    BY <2>2, WithFacts
  <2> QED BY <2>3 DEF Joined
<1>5. r.line = << b >> /\ r.size = 0 /\ r.mode = mode /\ r.parent = h /\ r.slot = L[h].size
      /\ r.name = name
  BY DEF NewFile
<1> HIDE DEF r, N
<1>6. \A g \in DOMAIN M : /\ EntryOf(N, g) = EntryOf(M, g)
                          /\ \A i : At(e, N, g, i) = At(e, M, g, i)
  BY <1>4 DEF EntryOf, At
<1>7. At(e, N, h, L[h].size) = EntryOf(N, b) /\ EntryOf(N, b) = FileEntry(mode, b, 0, name)
  <2>1. At(e, N, h, L[h].size) = At(e, L, h, L[h].size)
    BY <1>2, <1>4, <1>6, Zenon DEF At
  <2> QED BY <1>4, <1>5, <2>1 DEF EntryOf
<1>8. Linked(e, N)
  <2>1. IsLinked(e, << b >>)
    <3>1. Len(<< b >>) = 1 /\ << b >>[1] = b
      OBVIOUS
    <3> QED BY <3>1 DEF IsLinked, Spare
  <2> QED BY <1>1, <1>4, <1>5, <2>1 DEF Linked
<1>9. Entered(e, N)
  <2>1. e.root_dir_size = N[RootDirectory].size
    BY <1>1, <1>4 DEF Entered, Heads
  <2>2. ASSUME NEW g \in DOMAIN M \ {RootDirectory}
        PROVE  At(e, N, N[g].parent, N[g].slot) = EntryOf(N, g)
    <3>1. M[g].parent \in DOMAIN M
      BY <1>1, HeadFacts
    <3> QED BY <1>1, <1>4, <1>6, <2>2, <3>1 DEF Entered
  <2>3. At(e, N, N[b].parent, N[b].slot) = EntryOf(N, b)
    BY <1>4, <1>5, <1>7
  <2> QED BY <1>4, <2>1, <2>2, <2>3 DEF Entered
<1>10. Seen(e, N)
  <2> SUFFICES ASSUME NEW g \in DOMAIN N, N[g].mode = "dir", NEW i \in 0..(N[g].size - 1)
               PROVE  Known(At(e, N, g, i), N, g, i)
    BY DEF Seen
  <2>1. CASE g = h /\ i = L[h].size
    <3>1. b \in DOMAIN N \ {RootDirectory}
      BY <1>1, <1>4 DEF Heads
    <3>2. N[b].parent = g /\ N[b].slot = i /\ At(e, N, g, i) = EntryOf(N, b)
      BY <1>4, <1>5, <1>7, <2>1
    <3> QED BY <3>1, <3>2 DEF Known
  <2>2. CASE g = b
    BY <1>4, <1>5, <2>2
  <2>3. CASE g # b /\ ~ (g = h /\ i = L[h].size)
    <3>1. g \in DOMAIN L /\ L[g].mode = "dir" /\ i \in 0..(L[g].size - 1)
      <4>1. g \in DOMAIN M /\ N[g] = M[g]
        BY <1>4, <2>3
      <4>2. CASE g = h
        BY <1>0, <1>2, <2>3, <4>1, <4>2
      <4>3. CASE g # h
        BY <1>2, <2>3, <4>1, <4>3
      <4> QED BY <4>2, <4>3
    <3>2. Known(At(e, M, g, i), M, g, i)
      BY <1>1, <3>1 DEF Shown
    <3>3. At(e, N, g, i) = At(e, M, g, i)
      BY <1>2, <1>6, <3>1
    <3> QED BY <1>4, <1>6, <3>2, <3>3 DEF Known
  <2> QED BY <2>1, <2>2, <2>3
<1>11. IsDevice(e)
  BY DEF Regrown
<1>12. Layout(e, N)
  BY <1>4, <1>8, <1>9, <1>10, <1>11 DEF Layout
<1> QED BY <1>12 DEF N, M, r

HandleRecords ==
  [block_index : Blocks, directory : Slots \cup {NULL}, current_size : Nat, ref_count : Nat]

IsOpen(hs, x) == hs[x].block_index # 0

OpenIn(hs, x) == {y \in Slots : IsOpen(hs, y) /\ hs[y].directory = x}

\* A handle agrees with its file, is counted at least once for each reference of the
\* program (E) and for each open handle in its directory, and its own directory is open.
HandleKept(hs, L, E, x) ==
  /\ hs[x].block_index \in DOMAIN L
  /\ hs[x].current_size = L[hs[x].block_index].size
  /\ hs[x].ref_count >= E[<< x, hs[x].block_index >>] + Cardinality(OpenIn(hs, x))
  /\ IF hs[x].block_index = RootDirectory THEN hs[x].directory = NULL
     ELSE /\ hs[x].directory \in Slots
          /\ hs[hs[x].directory].block_index = L[hs[x].block_index].parent

References(hs, E) ==
  \A x \in Slots, b \in Blocks : E[<< x, b >>] > 0 => b # 0 /\ hs[x].block_index = b

OneHandleEach(hs) ==
  \A x, y \in Slots : IsOpen(hs, x) /\ hs[x].block_index = hs[y].block_index => x = y

IsCount(E) == E \in [Slots \X Blocks -> Nat]

Handling(hs, L, E) ==
  /\ hs \in [Slots -> HandleRecords]
  /\ IsCount(E)
  /\ \A x \in Slots : IsOpen(hs, x) => HandleKept(hs, L, E, x)
  /\ OneHandleEach(hs)
  /\ References(hs, E)

More(E, x, b) == [p \in Slots \X Blocks |-> IF p = << x, b >> THEN E[p] + 1 ELSE E[p]]
Less(E, x, b) == [p \in Slots \X Blocks |-> IF p = << x, b >> THEN E[p] - 1 ELSE E[p]]

OneMore(F, E, x, b) ==
  /\ IsCount(F)
  /\ \A y \in Slots, c \in Blocks :
       F[<< y, c >>] = E[<< y, c >>] + (IF y = x /\ c = b THEN 1 ELSE 0)

\* A reference more, in numbers.
LEMMA MoreCounts ==
  ASSUME NEW E, IsCount(E), NEW x \in Slots, NEW b \in Blocks
  PROVE  OneMore(More(E, x, b), E, x, b)
<1> PICK p, S : p = << x, b >> /\ S = Slots \X Blocks
  OBVIOUS
<1> DEFINE F == [q \in S |-> IF q = p THEN E[q] + 1 ELSE E[q]]
<1>1. p \in S /\ E \in [S -> Nat]
  BY DEF IsCount
<1>2. More(E, x, b) = F
  BY DEF More
<1>3. IsCount(F)
  BY <1>1 DEF IsCount
<1>4. ASSUME NEW y \in Slots, NEW c \in Blocks
      PROVE  F[<< y, c >>] = E[<< y, c >>] + (IF y = x /\ c = b THEN 1 ELSE 0)
  <2> PICK q : q = << y, c >>
    OBVIOUS
  <2>1. q \in S /\ (q = p <=> y = x /\ c = b)
    OBVIOUS
  <2> QED BY <1>1, <2>1
<1> QED BY <1>2, <1>3, <1>4 DEF OneMore

\* A reference more and then less is what it was.
LEMMA MoreOrLess ==
  ASSUME NEW E, IsCount(E), NEW x \in Slots, NEW b \in Blocks
  PROVE  /\ Less(More(E, x, b), x, b) = E
         /\ E[<< x, b >>] > 0 => IsCount(Less(E, x, b)) /\ More(Less(E, x, b), x, b) = E
<1> PICK p, S : p = << x, b >> /\ S = Slots \X Blocks
  OBVIOUS
<1> DEFINE up(F) == [q \in S |-> IF q = p THEN F[q] + 1 ELSE F[q]]
           down(F) == [q \in S |-> IF q = p THEN F[q] - 1 ELSE F[q]]
<1>1. p \in S /\ E \in [S -> Nat] /\ E = [q \in S |-> E[q]]
  BY DEF IsCount
<1>2. \A F : More(F, x, b) = up(F) /\ Less(F, x, b) = down(F)
  BY DEF More, Less
<1>3. down(up(E)) = E
  <2>1. \A q \in S : down(up(E))[q] = E[q]
    BY <1>1
  <2> QED BY <1>1, <2>1
<1>4. ASSUME E[p] > 0 PROVE IsCount(down(E)) /\ up(down(E)) = E
  <2>1. \A q \in S : up(down(E))[q] = E[q]
    BY <1>1
  <2> QED BY <1>1, <1>4, <2>1 DEF IsCount
<1> HIDE DEF up, down
<1> QED BY <1>2, <1>3, <1>4

\* No more handles are open than there are.
LEMMA OpenInFinite ==
  ASSUME NEW hs, NEW x
  PROVE  /\ IsFiniteSet(OpenIn(hs, x)) /\ Cardinality(OpenIn(hs, x)) \in Nat
         /\ IsFiniteSet({y \in Slots : IsOpen(hs, y)})
         /\ Cardinality({y \in Slots : IsOpen(hs, y)}) \in Nat
         /\ Cardinality({y \in Slots : IsOpen(hs, y)}) <= MAX_FILE_HANDLES
<1>1. IsFiniteSet(Slots) /\ Cardinality(Slots) = MAX_FILE_HANDLES
  BY FS_Interval, Sizes DEF Slots
<1>2. OpenIn(hs, x) \in SUBSET Slots
  BY DEF OpenIn
<1>3. {y \in Slots : IsOpen(hs, y)} \in SUBSET Slots
  OBVIOUS
<1>4. IsFiniteSet(OpenIn(hs, x))
  BY <1>1, <1>2, FS_Subset
<1>5. IsFiniteSet({y \in Slots : IsOpen(hs, y)}) /\ Cardinality({y \in Slots : IsOpen(hs, y)}) <= MAX_FILE_HANDLES
  BY <1>1, <1>3, FS_Subset
<1> QED BY <1>4, <1>5, FS_CardinalityType

\* A file is opened once more.
LEMMA CountedHandling ==
  ASSUME NEW hs, NEW L, NEW E, Handling(hs, L, E), NEW x \in Slots, IsOpen(hs, x),
         NEW b, b = hs[x].block_index
  PROVE  Handling([hs EXCEPT ![x].ref_count = @ + 1], L, More(E, x, b))
<1> DEFINE new == [hs EXCEPT ![x].ref_count = @ + 1]
           F == More(E, x, b)
<1>1. hs \in [Slots -> HandleRecords] /\ IsCount(E) /\ b \in Blocks /\ b # 0
  BY DEF Handling, HandleRecords, IsOpen
<1>2. /\ new \in [Slots -> HandleRecords]
      /\ \A y \in Slots : /\ new[y].block_index = hs[y].block_index
                          /\ new[y].directory = hs[y].directory
                          /\ new[y].current_size = hs[y].current_size
                          /\ new[y].ref_count = hs[y].ref_count + (IF y = x THEN 1 ELSE 0)
  BY <1>1 DEF HandleRecords
<1>3. /\ IsCount(F)
      /\ \A y \in Slots, c \in Blocks :
           F[<< y, c >>] = E[<< y, c >>] + (IF y = x /\ c = b THEN 1 ELSE 0)
  BY <1>1, MoreCounts DEF OneMore
<1> HIDE DEF new, F
<1>4. \A y : OpenIn(new, y) = OpenIn(hs, y)
  BY <1>2 DEF OpenIn, IsOpen
<1>5. ASSUME NEW y \in Slots, IsOpen(new, y) PROVE HandleKept(new, L, F, y)
  <2>1. HandleKept(hs, L, E, y)
    BY <1>2, <1>5 DEF Handling, IsOpen
  <2>2. new[y].ref_count >= F[<< y, new[y].block_index >>] + Cardinality(OpenIn(new, y))
    <3> PICK c \in Blocks : c = hs[y].block_index
      BY <1>1 DEF HandleRecords
    <3> PICK n : n = Cardinality(OpenIn(hs, y))
      OBVIOUS
    <3>1. n \in Nat /\ n = Cardinality(OpenIn(new, y))
      BY <1>4, OpenInFinite
    <3>2. hs[y].ref_count >= E[<< y, c >>] + n /\ hs[y].ref_count \in Nat /\ E[<< y, c >>] \in Nat
      BY <1>1, <2>1 DEF HandleKept, HandleRecords, IsCount
    <3>3. F[<< y, c >>] <= E[<< y, c >>] + (IF y = x THEN 1 ELSE 0) /\ F[<< y, c >>] \in Nat
      BY <1>1, <1>3 DEF IsCount
    <3> QED BY <1>2, <3>1, <3>2, <3>3
  <2> QED BY <1>2, <2>1, <2>2 DEF HandleKept
<1>6. OneHandleEach(new) /\ References(new, F)
  BY <1>1, <1>2, <1>3 DEF Handling, OneHandleEach, References, IsOpen, IsCount
<1>7. Handling(new, L, F)
  BY <1>2, <1>3, <1>5, <1>6 DEF Handling
<1> QED BY <1>7 DEF new, F

InDirectory(hs, L, b, dir) ==
  IF b = RootDirectory THEN dir = NULL
  ELSE dir \in Slots /\ hs[dir].block_index = L[b].parent

\* A file gets a free handle, and its directory's is counted once more.
LEMMA NewHandling ==
  ASSUME NEW hs, NEW L, NEW E, Handling(hs, L, E), Heads(L),
         NEW x \in Slots, ~ IsOpen(hs, x),
         NEW b \in DOMAIN L, \A y \in Slots : hs[y].block_index # b,
         NEW dir, InDirectory(hs, L, b, dir),
         NEW size, size = L[b].size,
         NEW referred,
         referred = IF dir = NULL THEN hs ELSE [hs EXCEPT ![dir].ref_count = @ + 1],
         NEW new, new = [block_index |-> b, directory |-> dir, current_size |-> size, ref_count |-> 1]
  PROVE  Handling([referred EXCEPT ![x] = new], L, More(E, x, b))
<1> DEFINE ns == [referred EXCEPT ![x] = new]
           F == More(E, x, b)
<1>1. /\ hs \in [Slots -> HandleRecords] /\ IsCount(E) /\ b \in Blocks /\ b # 0
      /\ size \in Nat /\ L[b].parent \in Blocks /\ L[b].parent # 0
      /\ dir \in Slots \cup {NULL} /\ NULL \notin Slots /\ NULL = 0
  BY HeadFacts, Sizes DEF Handling, InDirectory
<1>2. dir # x
  BY <1>1 DEF InDirectory, IsOpen
<1>a. new \in HandleRecords
  BY <1>1 DEF HandleRecords
<1>3. /\ ns \in [Slots -> HandleRecords]
      /\ ns[x] = new
      /\ \A y \in Slots \ {x} :
           /\ ns[y].block_index = hs[y].block_index
           /\ ns[y].directory = hs[y].directory
           /\ ns[y].current_size = hs[y].current_size
           /\ ns[y].ref_count = hs[y].ref_count + (IF y = dir THEN 1 ELSE 0)
  <2>1. CASE dir = NULL
    BY <1>1, <1>a, <2>1 DEF HandleRecords
  <2>2. CASE dir \in Slots
    <3>1. referred = [hs EXCEPT ![dir].ref_count = @ + 1]
      BY <1>1, <2>2
    <3> QED BY <1>1, <1>2, <1>a, <2>2, <3>1 DEF HandleRecords
  <2> QED BY <1>1, <2>1, <2>2
<1>4. /\ IsCount(F)
      /\ \A y \in Slots, c \in Blocks :
           F[<< y, c >>] = E[<< y, c >>] + (IF y = x /\ c = b THEN 1 ELSE 0)
  BY <1>1, MoreCounts DEF OneMore
<1> HIDE DEF ns, F
<1>5. new.block_index = b /\ new.directory = dir /\ new.current_size = size /\ new.ref_count = 1
  OBVIOUS
<1>6. \A y \in Slots : OpenIn(ns, y) = OpenIn(hs, y) \cup (IF y = dir THEN {x} ELSE {})
  BY <1>1, <1>3, <1>5 DEF OpenIn, IsOpen
<1>7. OpenIn(hs, x) = {}
  <2> SUFFICES ASSUME NEW y \in Slots, IsOpen(hs, y), hs[y].directory = x PROVE FALSE
    BY DEF OpenIn
  <2>1. HandleKept(hs, L, E, y)
    BY DEF Handling
  <2>2. hs[x].block_index = L[hs[y].block_index].parent /\ hs[y].block_index \in DOMAIN L
    BY <1>1, <2>1 DEF HandleKept
  <2>3. L[hs[y].block_index].parent # 0
    BY <2>2, HeadFacts, Sizes
  <2> QED BY <2>2, <2>3 DEF IsOpen
<1>8. E[<< x, b >>] = 0
  BY <1>1 DEF Handling, References, IsOpen, IsCount
<1>9. ASSUME NEW y \in Slots, IsOpen(ns, y) PROVE HandleKept(ns, L, F, y)
  <2>1. CASE y = x
    <3>1. OpenIn(ns, x) = {} /\ Cardinality(OpenIn(ns, x)) = 0
      BY <1>2, <1>6, <1>7, FS_EmptySet
    <3>2. F[<< x, b >>] = 1
      BY <1>1, <1>4, <1>8
    <3>3. IF b = RootDirectory THEN dir = NULL ELSE dir \in Slots /\ ns[dir].block_index = L[b].parent
      BY <1>2, <1>3 DEF InDirectory
    <3> QED BY <1>3, <1>5, <2>1, <3>1, <3>2, <3>3 DEF HandleKept
  <2>2. CASE y # x
    <3>1. HandleKept(hs, L, E, y) /\ IsOpen(hs, y)
      BY <1>3, <1>9, <2>2 DEF Handling, IsOpen
    <3> PICK c \in Blocks : c = hs[y].block_index
      BY <1>1 DEF HandleRecords
    <3> PICK n, m : n = Cardinality(OpenIn(hs, y)) /\ m = Cardinality(OpenIn(ns, y))
      OBVIOUS
    <3>2. n \in Nat /\ m \in Nat /\ m <= n + (IF y = dir THEN 1 ELSE 0)
      <4>1. n \in Nat /\ m \in Nat /\ IsFiniteSet(OpenIn(hs, y))
        BY OpenInFinite
      <4>2. CASE y = dir
        <5>1. OpenIn(ns, y) = OpenIn(hs, y) \cup {x}
          BY <1>6, <4>2
        <5>2. m = IF x \in OpenIn(hs, y) THEN n ELSE n + 1
          BY <4>1, <5>1, FS_AddElement
        <5> QED BY <4>1, <4>2, <5>2
      <4>3. CASE y # dir
        <5>1. OpenIn(ns, y) = OpenIn(hs, y)
          BY <1>6, <4>3
        <5> QED BY <4>1, <4>3, <5>1
      <4> QED BY <4>2, <4>3
    <3>3. hs[y].ref_count >= E[<< y, c >>] + n /\ hs[y].ref_count \in Nat /\ E[<< y, c >>] \in Nat
      BY <1>1, <3>1 DEF HandleKept, HandleRecords, IsCount
    <3>4. F[<< y, c >>] = E[<< y, c >>]
      BY <1>1, <1>4, <2>2, <3>3
    <3>5. ns[y].ref_count >= F[<< y, c >>] + m
      BY <1>3, <2>2, <3>2, <3>3, <3>4
    <3>6. IF c = RootDirectory THEN ns[y].directory = NULL
          ELSE ns[y].directory \in Slots /\ ns[ns[y].directory].block_index = L[c].parent
      <4>1. CASE c = RootDirectory
        BY <1>3, <2>2, <3>1, <4>1 DEF HandleKept
      <4>2. CASE c # RootDirectory
        <5>1. hs[y].directory \in Slots /\ hs[hs[y].directory].block_index = L[c].parent /\ c \in DOMAIN L
          BY <3>1, <4>2 DEF HandleKept
        <5>2. hs[y].directory # x
          BY <1>7, <3>1 DEF OpenIn
        <5> QED BY <1>3, <2>2, <4>2, <5>1, <5>2
      <4> QED BY <4>1, <4>2
    <3> QED BY <1>3, <2>2, <3>1, <3>5, <3>6 DEF HandleKept
  <2> QED BY <2>1, <2>2
<1>10. OneHandleEach(ns)
  <2> SUFFICES ASSUME NEW y \in Slots, NEW z \in Slots, IsOpen(ns, y), ns[y].block_index = ns[z].block_index
               PROVE  y = z
    BY DEF OneHandleEach
  <2>1. \A w \in Slots : ns[w].block_index = IF w = x THEN b ELSE hs[w].block_index
    BY <1>3, <1>5
  <2> QED BY <2>1 DEF Handling, OneHandleEach, IsOpen
<1>11. References(ns, F)
  <2> SUFFICES ASSUME NEW y \in Slots, NEW c \in Blocks, F[<< y, c >>] > 0
               PROVE  c # 0 /\ ns[y].block_index = c
    BY DEF References
  <2>1. CASE y = x /\ c = b
    BY <1>1, <1>3, <1>5, <2>1
  <2>2. CASE ~ (y = x /\ c = b)
    <3>1. E[<< y, c >>] > 0 /\ E[<< y, c >>] \in Nat
      BY <1>1, <1>4, <2>2 DEF IsCount
    <3>2. c # 0 /\ hs[y].block_index = c
      BY <3>1 DEF Handling, References
    <3>3. y # x
      BY <3>2 DEF IsOpen
    <3> QED BY <1>3, <3>2, <3>3
  <2> QED BY <2>1, <2>2
<1>12. Handling(ns, L, F)
  BY <1>3, <1>4, <1>9, <1>10, <1>11 DEF Handling
<1> QED BY <1>12 DEF ns, F

OpenSlots(hs) == {y \in Slots : IsOpen(hs, y)}

\* A handle to be released holds one reference more, and after i released handles that
\* many fewer are open.
Releasing(s, L, E, i) ==
  /\ s = [at |-> s.at, handles |-> s.handles]
  /\ IF s.at = NULL THEN Handling(s.handles, L, E)
     ELSE /\ s.at \in Slots
          /\ IsOpen(s.handles, s.at)
          /\ Handling(s.handles, L, More(E, s.at, s.handles[s.at].block_index))
          /\ Cardinality(OpenSlots(s.handles)) <= MAX_FILE_HANDLES - i

\* The last reference frees the handle and releases its directory's.
LEMMA FreedHandling ==
  ASSUME NEW hs, NEW L, NEW E, Heads(L), IsCount(E), NEW x \in Slots, IsOpen(hs, x),
         NEW b, b = hs[x].block_index, Handling(hs, L, More(E, x, b)),
         hs[x].ref_count = 1,
         NEW dir, dir = hs[x].directory
  PROVE  LET ns == [hs EXCEPT ![x] = FreeHandle]
         IN  IF dir = NULL THEN Handling(ns, L, E)
             ELSE /\ dir \in Slots /\ IsOpen(ns, dir)
                  /\ Handling(ns, L, More(E, dir, ns[dir].block_index))
<1> DEFINE ns == [hs EXCEPT ![x] = FreeHandle]
           D == More(E, x, b)
<1>1. /\ hs \in [Slots -> HandleRecords] /\ b \in Blocks /\ b # 0
      /\ dir \in Slots \cup {NULL} /\ NULL \notin Slots /\ NULL = 0
  BY Sizes DEF Handling, HandleRecords, IsOpen
<1>2. /\ IsCount(D)
      /\ \A y \in Slots, c \in Blocks :
           D[<< y, c >>] = E[<< y, c >>] + (IF y = x /\ c = b THEN 1 ELSE 0)
  BY <1>1, MoreCounts DEF OneMore
<1>3. Handling(hs, L, D)
  OBVIOUS
<1> HIDE DEF D
<1>4. FreeHandle \in HandleRecords /\ FreeHandle.block_index = 0
  BY Sizes DEF FreeHandle, HandleRecords
<1>5. /\ ns \in [Slots -> HandleRecords]
      /\ ns[x] = FreeHandle
      /\ \A y \in Slots \ {x} : ns[y] = hs[y]
  BY <1>1, <1>4
<1> HIDE DEF ns
<1>6. HandleKept(hs, L, D, x)
  BY <1>3 DEF Handling
<1>7. E[<< x, b >>] = 0 /\ OpenIn(hs, x) = {}
  <2> PICK n : n = Cardinality(OpenIn(hs, x))
    OBVIOUS
  <2>1. n \in Nat /\ IsFiniteSet(OpenIn(hs, x))
    BY OpenInFinite
  <2>2. 1 >= D[<< x, b >>] + n /\ D[<< x, b >>] = E[<< x, b >>] + 1 /\ E[<< x, b >>] \in Nat
    BY <1>1, <1>2, <1>6 DEF HandleKept, IsCount
  <2>3. E[<< x, b >>] = 0 /\ n = 0
    BY <2>1, <2>2
  <2> QED BY <2>1, <2>3, FS_EmptySet
<1>8. \A y \in Slots, c \in Blocks : E[<< y, c >>] \in Nat /\ (E[<< y, c >>] > 0 => y # x /\ hs[y].block_index = c /\ c # 0)
  <2> TAKE y \in Slots
  <2> TAKE c \in Blocks
  <2>1. E[<< y, c >>] \in Nat
    BY <1>2 DEF IsCount
  <2>2. ASSUME E[<< y, c >>] > 0 PROVE y # x /\ hs[y].block_index = c /\ c # 0
    <3>1. D[<< y, c >>] > 0
      BY <1>2, <2>1, <2>2
    <3>2. hs[y].block_index = c /\ c # 0
      BY <1>3, <3>1 DEF Handling, References
    <3> QED BY <1>7, <2>2, <3>2
  <2> QED BY <2>1, <2>2
<1>9. ASSUME NEW y \in Slots, IsOpen(ns, y)
      PROVE  /\ y # x /\ IsOpen(hs, y) /\ HandleKept(hs, L, D, y)
             /\ hs[y].directory # x
             /\ OpenIn(ns, y) = OpenIn(hs, y) \ {x}
             /\ D[<< y, hs[y].block_index >>] = E[<< y, hs[y].block_index >>]
  <2>1. y # x /\ IsOpen(hs, y)
    BY <1>4, <1>5, <1>9 DEF IsOpen
  <2>2. HandleKept(hs, L, D, y)
    BY <1>3, <2>1 DEF Handling
  <2>3. hs[y].directory # x
    BY <1>7, <2>1 DEF OpenIn
  <2>4. OpenIn(ns, y) = OpenIn(hs, y) \ {x}
    BY <1>4, <1>5 DEF OpenIn, IsOpen
  <2>5. D[<< y, hs[y].block_index >>] = E[<< y, hs[y].block_index >>]
    BY <1>1, <1>2, <1>8, <2>1 DEF HandleRecords
  <2> QED BY <2>1, <2>2, <2>3, <2>4, <2>5
<1>10. OneHandleEach(ns)
  <2> SUFFICES ASSUME NEW y \in Slots, NEW z \in Slots, IsOpen(ns, y), ns[y].block_index = ns[z].block_index
               PROVE  y = z
    BY DEF OneHandleEach
  <2>1. y # x /\ z # x
    BY <1>4, <1>5 DEF IsOpen
  <2> QED BY <1>3, <1>5, <2>1 DEF Handling, OneHandleEach, IsOpen
<1>11. ASSUME NEW F, IsCount(F), NEW y \in Slots, IsOpen(ns, y),
              F[<< y, hs[y].block_index >>] <=
                E[<< y, hs[y].block_index >>] + (IF y = dir THEN 1 ELSE 0)
       PROVE  HandleKept(ns, L, F, y)
  <2> PICK c \in Blocks : c = hs[y].block_index
    BY <1>1 DEF HandleRecords
  <2> PICK n, m, e, f : /\ n = Cardinality(OpenIn(hs, y)) /\ m = Cardinality(OpenIn(ns, y))
                        /\ e = E[<< y, c >>] /\ f = F[<< y, c >>]
    OBVIOUS
  <2>1. n \in Nat /\ m \in Nat /\ IsFiniteSet(OpenIn(hs, y)) /\ e \in Nat /\ f \in Nat
    BY <1>8, <1>11, OpenInFinite DEF IsCount
  <2>2. /\ y # x /\ IsOpen(hs, y) /\ HandleKept(hs, L, D, y) /\ hs[y].directory # x
        /\ OpenIn(ns, y) = OpenIn(hs, y) \ {x} /\ D[<< y, c >>] = e
    BY <1>9, <1>11
  <2>3. m = IF x \in OpenIn(hs, y) THEN n - 1 ELSE n
    BY <2>1, <2>2, FS_RemoveElement
  <2>4. x \in OpenIn(hs, y) <=> y = dir
    BY DEF OpenIn
  <2>5. hs[y].ref_count >= e + n /\ hs[y].ref_count \in Nat
    BY <1>1, <2>2 DEF HandleKept, HandleRecords
  <2>6. f <= e + (IF y = dir THEN 1 ELSE 0)
    BY <1>11
  <2>7. hs[y].ref_count >= f + m
    BY <2>1, <2>3, <2>4, <2>5, <2>6
  <2>8. IF c = RootDirectory THEN hs[y].directory = NULL
        ELSE /\ hs[y].directory \in Slots
             /\ ns[hs[y].directory].block_index = L[c].parent
    BY <1>5, <2>2 DEF HandleKept
  <2> QED BY <1>5, <2>2, <2>7, <2>8 DEF HandleKept
<1>12. CASE dir = NULL
  <2>1. \A y \in Slots : IsOpen(ns, y) => HandleKept(ns, L, E, y)
    <3> SUFFICES ASSUME NEW y \in Slots, IsOpen(ns, y) PROVE HandleKept(ns, L, E, y)
      OBVIOUS
    <3>1. hs[y].block_index \in Blocks /\ E[<< y, hs[y].block_index >>] \in Nat /\ y # dir
      BY <1>1, <1>8, <1>12 DEF HandleRecords
    <3>2. E[<< y, hs[y].block_index >>] <=
                E[<< y, hs[y].block_index >>] + (IF y = dir THEN 1 ELSE 0)
      BY <3>1
    <3> QED BY <1>11, <3>2
  <2>2. References(ns, E)
    BY <1>5, <1>8 DEF References
  <2>3. Handling(ns, L, E)
    BY <1>5, <1>10, <2>1, <2>2 DEF Handling
  <2> QED BY <1>12, <2>3 DEF ns
<1>13. CASE dir \in Slots
  <2>1. b # RootDirectory /\ hs[dir].block_index = L[b].parent /\ b \in DOMAIN L
    BY <1>1, <1>6, <1>13 DEF HandleKept
  <2> PICK p : p = L[b].parent
    OBVIOUS
  <2>2. p \in Blocks /\ p # 0 /\ p \in DOMAIN L
    BY <2>1, HeadFacts, Sizes
  <2>3. dir # x
    <3>1. x \notin OpenIn(hs, x)
      BY <1>7
    <3> QED BY <3>1 DEF OpenIn
  <2>4. ns[dir].block_index = p /\ IsOpen(ns, dir)
    BY <1>5, <1>13, <2>1, <2>2, <2>3 DEF IsOpen
  <2>5. /\ IsCount(More(E, dir, p))
        /\ \A y \in Slots, c \in Blocks :
             More(E, dir, p)[<< y, c >>] = E[<< y, c >>] + (IF y = dir /\ c = p THEN 1 ELSE 0)
    <3>1. OneMore(More(E, dir, p), E, dir, p)
      BY <1>13, <2>2, MoreCounts
    <3> QED BY <3>1 DEF OneMore
  <2> DEFINE F == More(E, dir, p)
  <2> HIDE DEF F
  <2>6. /\ IsCount(F)
        /\ \A y \in Slots, c \in Blocks :
             F[<< y, c >>] = E[<< y, c >>] + (IF y = dir /\ c = p THEN 1 ELSE 0)
    BY <2>5 DEF F
  <2>7. \A y \in Slots : IsOpen(ns, y) => HandleKept(ns, L, F, y)
    <3> SUFFICES ASSUME NEW y \in Slots, IsOpen(ns, y) PROVE HandleKept(ns, L, F, y)
      OBVIOUS
    <3>1. hs[y].block_index \in Blocks /\ E[<< y, hs[y].block_index >>] \in Nat
      BY <1>1, <1>8 DEF HandleRecords
    <3>2. F[<< y, hs[y].block_index >>] <=
                E[<< y, hs[y].block_index >>] + (IF y = dir THEN 1 ELSE 0)
      BY <2>6, <3>1
    <3> QED BY <1>11, <2>6, <3>2
  <2>8. References(ns, F)
    <3> SUFFICES ASSUME NEW y \in Slots, NEW c \in Blocks, F[<< y, c >>] > 0
                 PROVE  c # 0 /\ ns[y].block_index = c
      BY DEF References
    <3>1. CASE y = dir /\ c = p
      BY <2>2, <2>4, <3>1
    <3>2. CASE ~ (y = dir /\ c = p)
      <4>1. E[<< y, c >>] > 0
        BY <1>8, <2>6, <3>2
      <4> QED BY <1>5, <1>8, <4>1
    <3> QED BY <3>1, <3>2
  <2>9. Handling(ns, L, F)
    BY <1>5, <1>10, <2>6, <2>7, <2>8 DEF Handling
  <2>10. dir # NULL
    BY <1>1, <1>13
  <2> QED BY <1>13, <2>4, <2>9, <2>10 DEF ns, F
<1> QED BY <1>1, <1>12, <1>13

\* One of several references less.
LEMMA UncountedHandling ==
  ASSUME NEW hs, NEW L, NEW E, IsCount(E), NEW x \in Slots, IsOpen(hs, x),
         NEW b, b = hs[x].block_index, Handling(hs, L, More(E, x, b)),
         hs[x].ref_count # 1
  PROVE  Handling([hs EXCEPT ![x].ref_count = @ - 1], L, E)
<1> DEFINE ns == [hs EXCEPT ![x].ref_count = @ - 1]
           D == More(E, x, b)
<1>1. hs \in [Slots -> HandleRecords] /\ b \in Blocks /\ b # 0
  BY DEF Handling, HandleRecords, IsOpen
<1>2. /\ IsCount(D)
      /\ \A y \in Slots, c \in Blocks :
           D[<< y, c >>] = E[<< y, c >>] + (IF y = x /\ c = b THEN 1 ELSE 0)
  BY <1>1, MoreCounts DEF OneMore
<1>3. Handling(hs, L, D)
  OBVIOUS
<1> HIDE DEF D
<1>4. hs[x].ref_count \in Nat /\ hs[x].ref_count > 1
  <2>1. HandleKept(hs, L, D, x) /\ hs[x].ref_count \in Nat
    BY <1>1, <1>3 DEF Handling, HandleRecords
  <2> PICK n : n = Cardinality(OpenIn(hs, x))
    OBVIOUS
  <2>2. n \in Nat
    BY OpenInFinite
  <2>3. hs[x].ref_count >= D[<< x, b >>] + n /\ D[<< x, b >>] = E[<< x, b >>] + 1 /\ E[<< x, b >>] \in Nat
    BY <1>1, <1>2, <2>1 DEF HandleKept, IsCount
  <2> QED BY <2>1, <2>2, <2>3
<1>5. /\ ns \in [Slots -> HandleRecords]
      /\ \A y \in Slots : /\ ns[y].block_index = hs[y].block_index
                          /\ ns[y].directory = hs[y].directory
                          /\ ns[y].current_size = hs[y].current_size
                          /\ ns[y].ref_count = hs[y].ref_count - (IF y = x THEN 1 ELSE 0)
  BY <1>1, <1>4 DEF HandleRecords
<1> HIDE DEF ns
<1>6. \A y : OpenIn(ns, y) = OpenIn(hs, y)
  BY <1>5 DEF OpenIn, IsOpen
<1>7. ASSUME NEW y \in Slots, IsOpen(ns, y) PROVE HandleKept(ns, L, E, y)
  <2>1. HandleKept(hs, L, D, y)
    BY <1>3, <1>5, <1>7 DEF Handling, IsOpen
  <2>2. ns[y].ref_count >= E[<< y, ns[y].block_index >>] + Cardinality(OpenIn(ns, y))
    <3> PICK c \in Blocks : c = hs[y].block_index
      BY <1>1 DEF HandleRecords
    <3> PICK n : n = Cardinality(OpenIn(hs, y))
      OBVIOUS
    <3>1. n \in Nat /\ n = Cardinality(OpenIn(ns, y))
      BY <1>6, OpenInFinite
    <3>2. hs[y].ref_count >= D[<< y, c >>] + n /\ hs[y].ref_count \in Nat /\ E[<< y, c >>] \in Nat
      BY <1>1, <2>1 DEF HandleKept, HandleRecords, IsCount
    <3>3. D[<< y, c >>] = E[<< y, c >>] + (IF y = x THEN 1 ELSE 0)
      BY <1>1, <1>2
    <3> QED BY <1>5, <3>1, <3>2, <3>3
  <2> QED BY <1>5, <2>1, <2>2 DEF HandleKept
<1>8. OneHandleEach(ns)
  BY <1>3, <1>5 DEF Handling, OneHandleEach, IsOpen
<1>9. References(ns, E)
  <2> SUFFICES ASSUME NEW y \in Slots, NEW c \in Blocks, E[<< y, c >>] > 0
               PROVE  c # 0 /\ ns[y].block_index = c
    BY DEF References
  <2>1. E[<< y, c >>] \in Nat
    BY DEF IsCount
  <2>2. D[<< y, c >>] > 0
    BY <1>2, <2>1
  <2> QED BY <1>3, <1>5, <2>2 DEF Handling, References
<1>10. Handling(ns, L, E)
  BY <1>5, <1>7, <1>8, <1>9 DEF Handling
<1> QED BY <1>10 DEF ns

\* tfsCloseHandle releases one handle: the one it goes on to is its directory's.
LEMMA ReleaseStep ==
  ASSUME NEW s, NEW L, NEW E, NEW i \in Nat, Heads(L), IsCount(E), Releasing(s, L, E, i)
  PROVE  Releasing(Release(s), L, E, i + 1)
<1> PICK x, hs, t : x = s.at /\ hs = s.handles /\ t = Release(s)
  OBVIOUS
<1>1. CASE x = NULL
  <2>1. t = s
    BY <1>1 DEF Release
  <2> QED BY <1>1, <2>1 DEF Releasing
<1>2. CASE x # NULL
  <2> PICK b : b = hs[x].block_index
    OBVIOUS
  <2>1. /\ x \in Slots /\ IsOpen(hs, x) /\ Handling(hs, L, More(E, x, b))
        /\ Cardinality(OpenSlots(hs)) <= MAX_FILE_HANDLES - i
    BY <1>2 DEF Releasing
  <2>2. CASE hs[x].ref_count = 1
    <3> PICK dir, ns : dir = hs[x].directory /\ ns = [hs EXCEPT ![x] = FreeHandle]
      OBVIOUS
    <3>1. t = [at |-> dir, handles |-> ns]
      BY <1>2, <2>2 DEF Release
    <3>2. IF dir = NULL THEN Handling(ns, L, E)
          ELSE /\ dir \in Slots /\ IsOpen(ns, dir)
               /\ Handling(ns, L, More(E, dir, ns[dir].block_index))
      BY <2>1, <2>2, FreedHandling
    <3>3. Cardinality(OpenSlots(ns)) <= MAX_FILE_HANDLES - (i + 1)
      <4>1. hs \in [Slots -> HandleRecords]
        BY <2>1 DEF Handling
      <4>2. OpenSlots(ns) = OpenSlots(hs) \ {x} /\ x \in OpenSlots(hs)
        BY <2>1, <4>1 DEF OpenSlots, IsOpen, FreeHandle
      <4>3. IsFiniteSet(OpenSlots(hs)) /\ Cardinality(OpenSlots(hs)) \in Nat
        BY OpenInFinite DEF OpenSlots
      <4>4. Cardinality(OpenSlots(ns)) = Cardinality(OpenSlots(hs)) - 1
        BY <4>2, <4>3, FS_RemoveElement
      <4> QED BY <2>1, <4>3, <4>4, Sizes
    <3> QED BY <3>1, <3>2, <3>3 DEF Releasing
  <2>3. CASE hs[x].ref_count # 1
    <3>1. t = [at |-> NULL, handles |-> [hs EXCEPT ![x].ref_count = @ - 1]]
      BY <1>2, <2>3 DEF Release
    <3>2. Handling([hs EXCEPT ![x].ref_count = @ - 1], L, E)
      BY <2>1, <2>3, UncountedHandling
    <3> QED BY <3>1, <3>2 DEF Releasing
  <2> QED BY <2>2, <2>3
<1> QED BY <1>1, <1>2

Releases(f, s, N) ==
  f = [i \in 0..N |-> IF i = 0 THEN s ELSE Release(f[i - 1])]

\* The releases of tfsCloseHandle, as the recursion spells them.
LEMMA ReleasesExist ==
  ASSUME NEW N \in Nat, NEW s
  PROVE  \E f : Releases(f, s, N)
<1> DEFINE holds == {k \in 0..N : \E f : Releases(f, s, k)}
<1>1. 0 \in holds
  <2> DEFINE f == [i \in 0..0 |-> s]
  <2>1. Releases(f, s, 0)
    BY DEF Releases
  <2> HIDE DEF f
  <2> QED BY <2>1
<1>2. ASSUME NEW k \in 1..N, k - 1 \in holds PROVE k \in holds
  <2> PICK f : Releases(f, s, k - 1)
    BY <1>2
  <2> PICK x : x = Release(f[k - 1])
    OBVIOUS
  <2> DEFINE g == [i \in 0..k |-> IF i = k THEN x ELSE f[i]]
  <2>1. ASSUME NEW i \in 0..k PROVE g[i] = IF i = 0 THEN s ELSE Release(g[i - 1])
    <3>1. CASE i = k
      BY <3>1
    <3>2. CASE i # k
      BY <3>2 DEF Releases
    <3> QED BY <3>1, <3>2
  <2>2. g = [i \in 0..k |-> g[i]]
    OBVIOUS
  <2> HIDE DEF g
  <2>3. Releases(g, s, k)
    BY <2>1, <2>2 DEF Releases
  <2> QED BY <2>3
<1> HIDE DEF holds
<1>3. 0..N \subseteq holds
  BY <1>1, <1>2, UpTo
<1> QED BY <1>3 DEF holds

\* Closing a handle takes one of the program's references.
LEMMA ClosedHandling ==
  ASSUME NEW hs, NEW L, NEW E, Heads(L), Handling(hs, L, E),
         NEW x \in Slots, NEW b, b = hs[x].block_index, E[<< x, b >>] > 0,
         NEW v, v.handles = hs
  PROVE  \E ns : /\ CloseHandle(v, x) = [v EXCEPT !.handles = ns]
                 /\ Handling(ns, L, Less(E, x, b))
<1> DEFINE N == MAX_FILE_HANDLES
           D == Less(E, x, b)
           start == [at |-> x, handles |-> hs]
           After == CHOOSE f : Releases(f, start, N)
<1>0. N \in Nat /\ x # NULL /\ x # 0
  BY Sizes
<1>1. b \in Blocks /\ b # 0 /\ IsCount(E) /\ IsOpen(hs, x)
  BY DEF Handling, HandleRecords, References, IsOpen
<1>2. IsCount(D) /\ More(D, x, b) = E
  BY <1>1, MoreOrLess
<1>3. CloseHandle(v, x) = [v EXCEPT !.handles = After[N].handles]
  BY DEF CloseHandle, Releases
<1> HIDE DEF D
<1>4. Releases(After, start, N)
  <2> HIDE DEF start
  <2> QED BY <1>0, ReleasesExist
<1>5. Releasing(start, L, D, 0)
  <2>1. Cardinality(OpenSlots(hs)) <= MAX_FILE_HANDLES - 0
    BY OpenInFinite, Sizes DEF OpenSlots
  <2> QED BY <1>0, <1>1, <1>2, <2>1 DEF Releasing
<1> HIDE DEF After, start
<1> DEFINE holds == {i \in 0..N : Releasing(After[i], L, D, i)}
<1>6. 0 \in holds
  BY <1>0, <1>4, <1>5 DEF Releases
<1>7. ASSUME NEW k \in 1..N, k - 1 \in holds PROVE k \in holds
  <2>0. k \in 0..N /\ k # 0 /\ k - 1 \in Nat /\ (k - 1) + 1 = k
    BY <1>0
  <2>1. After[k] = Release(After[k - 1])
    <3> HIDE DEF holds
    <3>1. \A i \in 0..N : After[i] = IF i = 0 THEN start ELSE Release(After[i - 1])
      BY <1>4 DEF Releases
    <3> QED BY <2>0, <3>1
  <2>2. Releasing(Release(After[k - 1]), L, D, (k - 1) + 1)
    BY <1>2, <1>7, <2>0, ReleaseStep
  <2> QED BY <2>0, <2>1, <2>2
<1>8. Releasing(After[N], L, D, N)
  <2> HIDE DEF holds
  <2>1. 0..N \subseteq holds
    BY <1>0, <1>6, <1>7, UpTo
  <2> QED BY <1>0, <2>1 DEF holds
<1>9. After[N].at = NULL
  <2> SUFFICES ASSUME After[N].at # NULL PROVE FALSE
    OBVIOUS
  <2> PICK hn, y : hn = After[N].handles /\ y = After[N].at
    OBVIOUS
  <2>1. y \in OpenSlots(hn) /\ Cardinality(OpenSlots(hn)) <= 0
    BY <1>0, <1>8 DEF Releasing, OpenSlots
  <2>2. IsFiniteSet(OpenSlots(hn)) /\ Cardinality(OpenSlots(hn)) \in Nat
    BY OpenInFinite DEF OpenSlots
  <2> QED BY <2>1, <2>2, FS_EmptySet
<1> QED BY <1>3, <1>8, <1>9 DEF Releasing, D

\* The first free handle is a free handle.
LEMMA LeastInSet ==
  ASSUME NEW S \in SUBSET Nat, S # {}
  PROVE  Min(S) \in S
<1>1. \E m \in S : \A k \in S : m <= k
  BY LeastOfSet
<1> QED BY <1>1 DEF Min

\* The block tfsFindEmptyBlock finds is one of those it looks for.
LEMMA FoundInSet ==
  ASSUME NEW S \in SUBSET Blocks, S # {}, NEW coin
  PROVE  Found(S, coin) \in S
<1>1. S \in SUBSET Nat
  BY Sizes
<1>2. Min(S) \in S
  BY <1>1, LeastInSet
<1>3. Max(S) \in S
  <2> DEFINE below == {n \in Nat : total_blocks - n \in S}
  <2>1. below \in SUBSET Nat /\ below # {}
    <3> PICK x \in S : TRUE
      OBVIOUS
    <3>1. x \in 0..(total_blocks - 1)
      BY DEF Blocks
    <3>2. total_blocks - x \in below
      BY <3>1, Sizes
    <3> QED BY <3>2
  <2>2. PICK m \in below : \A k \in below : m <= k
    <3> HIDE DEF below
    <3> QED BY <2>1, LeastOfSet
  <2>3. total_blocks - m \in S
    OBVIOUS
  <2>4. ASSUME NEW y \in S PROVE total_blocks - m >= y
    <3>1. y \in 0..(total_blocks - 1)
      BY DEF Blocks
    <3>2. total_blocks - y \in below
      BY <3>1, Sizes
    <3>3. m <= total_blocks - y
      BY <2>2, <3>2
    <3> QED BY <3>1, <3>3, Sizes
  <2> HIDE DEF below
  <2> QED BY <2>3, <2>4 DEF Max
<1> QED BY <1>2, <1>3 DEF Found

-----------------------------------------------------------------------------
\* The promise for a file, which promises nothing where none was made.
PromiseOf(P, b) == IF b \in DOMAIN P THEN P[b] ELSE NoPromise

\* Each cell of a file, not of a directory, is one that was promised.
Truthful(d, L, P, h) ==
  L[h].mode = "file" =>
    /\ L[h].size <= MaxFileCells
    /\ \A i \in 0..(L[h].size - 1) : At(d, L, h, i) \in PromiseOf(P, h).cells[i]

\* The files promised are there, and are as long as promised.
Honours(d, L, P) ==
  /\ \A h \in DOMAIN P : h \in DOMAIN L /\ P[h].size \in Nat /\ P[h].size <= L[h].size
  /\ \A h \in DOMAIN L : Truthful(d, L, P, h)

GoodDevice(d, P) == \E L : Layout(d, L) /\ Honours(d, L, P)

\* The header in memory says what the device says as long as no failure goes unnoticed.
IsView(v) ==
  /\ v = [device |-> v.device, handles |-> v.handles, root_dir_size |-> v.root_dir_size,
          writes |-> v.writes, ret |-> v.ret, failures |-> v.failures]
  /\ v.root_dir_size = v.device.root_dir_size
  /\ v.failures.ignored = {}

\* Every write of the call so far left a device that is good for the promise in force
\* during the call, the last one the present one.
Past(v, call) ==
  /\ \E S : v.writes \in Seq(S) /\ \A d \in S : GoodDevice(d, call.promise)
  /\ v.device = IF v.writes = << >> THEN call.device ELSE v.writes[Len(v.writes)]

GoodView(v, call, L, E) ==
  /\ IsView(v) /\ Past(v, call) /\ Layout(v.device, L) /\ Handling(v.handles, L, E)
  /\ Honours(v.device, L, call.promise)

ViewIs(w, call, L, E, d, hs, r) ==
  GoodView(w, call, L, E) /\ w.device = d /\ w.handles = hs /\ w.ret = r

\* A call writes a device that has a layout: the view stays good.
LEMMA WriteView ==
  ASSUME NEW v, NEW call, IsView(v), Past(v, call), NEW L, NEW E, NEW d, Layout(d, L),
         Handling(v.handles, L, E), Honours(d, L, call.promise),
         d.root_dir_size = v.device.root_dir_size
  PROVE  /\ ViewIs(Write(v, d), call, L, E, d, v.handles, v.ret)
         /\ Write(v, d).failures = v.failures
<1> PICK w, hs, r, n, f : /\ w = v.writes /\ hs = v.handles /\ r = v.ret
                          /\ n = v.root_dir_size /\ f = v.failures
  OBVIOUS
<1>1. /\ v = [device |-> v.device, handles |-> hs, root_dir_size |-> n,
              writes |-> w, ret |-> r, failures |-> f]
      /\ n = d.root_dir_size /\ f.ignored = {}
  BY DEF IsView
<1>2. Write(v, d) = [device |-> d, handles |-> hs, root_dir_size |-> n,
                     writes |-> Append(w, d), ret |-> r, failures |-> f]
  <2> PICK e : e = v.device
    OBVIOUS
  <2>1. v = [device |-> e, handles |-> hs, root_dir_size |-> n,
             writes |-> w, ret |-> r, failures |-> f]
    BY <1>1
  <2>2. Write(v, d) = [v EXCEPT !.device = d, !.writes = Append(w, d)]
    BY DEF Write
  <2>3. [v EXCEPT !.device = d] = [device |-> d, handles |-> hs, root_dir_size |-> n,
                                   writes |-> w, ret |-> r, failures |-> f]
    BY <2>1
  <2>4. [v EXCEPT !.device = d, !.writes = Append(w, d)] =
          [[v EXCEPT !.device = d] EXCEPT !.writes = Append(w, d)]
    BY <2>1
  <2> QED BY <2>2, <2>3, <2>4
<1> PICK S : w \in Seq(S) /\ \A e \in S : GoodDevice(e, call.promise)
  BY DEF Past
<1>3. /\ Append(w, d) \in Seq(S \cup {d}) /\ Append(w, d) # << >>
      /\ Append(w, d)[Len(Append(w, d))] = d
  OBVIOUS
<1>4. \A e \in S \cup {d} : GoodDevice(e, call.promise)
  BY DEF GoodDevice
<1>5. IsView(Write(v, d))
  BY <1>1, <1>2 DEF IsView
<1> QED BY <1>2, <1>3, <1>4, <1>5 DEF ViewIs, GoodView, Past

\* A call that sets its result changes nothing else.
LEMMA ReturnView ==
  ASSUME NEW v, NEW call, NEW L, NEW E, GoodView(v, call, L, E), NEW r
  PROVE  /\ ViewIs(Return(v, r), call, L, E, v.device, v.handles, r)
         /\ Return(v, r).failures = v.failures
         /\ Return(v, r).writes = v.writes
<1>1. Return(v, r) = [device |-> v.device, handles |-> v.handles, root_dir_size |-> v.root_dir_size,
                      writes |-> v.writes, ret |-> r, failures |-> v.failures]
  <2>1. v = [device |-> v.device, handles |-> v.handles, root_dir_size |-> v.root_dir_size,
             writes |-> v.writes, ret |-> v.ret, failures |-> v.failures]
    BY DEF GoodView, IsView
  <2> PICK d, h, w, t, n, f : /\ d = v.device /\ h = v.handles /\ w = v.writes /\ t = v.ret
                              /\ n = v.root_dir_size /\ f = v.failures
    OBVIOUS
  <2>2. v = [device |-> d, handles |-> h, root_dir_size |-> n, writes |-> w, ret |-> t, failures |-> f]
    BY <2>1
  <2>3. Return(v, r) = [device |-> d, handles |-> h, root_dir_size |-> n, writes |-> w, ret |-> r, failures |-> f]
    BY <2>2 DEF Return
  <2> QED BY <2>3
<1>2. v.root_dir_size = v.device.root_dir_size /\ v.failures.ignored = {}
  BY DEF GoodView, IsView
<1>3. IsView(Return(v, r))
  BY <1>1, <1>2 DEF IsView
<1> QED BY <1>1, <1>3 DEF ViewIs, GoodView, Past

\* A call that changes the handles leaves the device as it is.
LEMMA HandlesView ==
  ASSUME NEW v, NEW call, NEW L, NEW E, GoodView(v, call, L, E), NEW hs, NEW F,
         Handling(hs, L, F)
  PROVE  /\ ViewIs([v EXCEPT !.handles = hs], call, L, F, v.device, hs, v.ret)
         /\ [v EXCEPT !.handles = hs].failures = v.failures
<1> DEFINE w == [v EXCEPT !.handles = hs]
<1>1. w = [device |-> v.device, handles |-> hs, root_dir_size |-> v.root_dir_size,
           writes |-> v.writes, ret |-> v.ret, failures |-> v.failures]
  <2>1. v = [device |-> v.device, handles |-> v.handles, root_dir_size |-> v.root_dir_size,
             writes |-> v.writes, ret |-> v.ret, failures |-> v.failures]
    BY DEF GoodView, IsView
  <2> PICK d, h, x, t, n, f : /\ d = v.device /\ h = v.handles /\ x = v.writes /\ t = v.ret
                              /\ n = v.root_dir_size /\ f = v.failures
    OBVIOUS
  <2>2. v = [device |-> d, handles |-> h, root_dir_size |-> n, writes |-> x, ret |-> t, failures |-> f]
    BY <2>1
  <2>3. w = [device |-> d, handles |-> hs, root_dir_size |-> n, writes |-> x, ret |-> t, failures |-> f]
    BY <2>2
  <2> QED BY <2>3
<1> HIDE DEF w
<1>2. v.root_dir_size = v.device.root_dir_size /\ v.failures.ignored = {}
  BY DEF GoodView, IsView
<1>3. IsView(w)
  BY <1>1, <1>2 DEF IsView
<1>4. ViewIs(w, call, L, F, v.device, hs, v.ret) /\ w.failures = v.failures
  BY <1>1, <1>3 DEF ViewIs, GoodView, Past
<1> QED BY <1>4 DEF w

\* The handle returned, if any, is one more reference to the file that starts at b.
Opened(g, v, call, L, E, b) ==
  /\ g.device = v.device
  /\ \/ g.ret = NULL /\ GoodView(g, call, L, E)
     \/ /\ g.ret \in Slots /\ g.handles[g.ret].block_index = b
        /\ GoodView(g, call, L, More(E, g.ret, b))

\* tfsGetFileHandle: the file gets a handle, its own or a free one, and one more
\* reference, or there is no handle left and all is as before.
LEMMA GetFileHandleView ==
  ASSUME NEW v, NEW call, NEW L, NEW E, GoodView(v, call, L, E),
         NEW b \in DOMAIN L, NEW dir, InDirectory(v.handles, L, b, dir),
         NEW size, size = L[b].size
  PROVE  Opened(GetFileHandle(v, b, dir, size), v, call, L, E, b)
<1> PICK hs : hs = v.handles
  OBVIOUS
<1> DEFINE same == {h \in Slots : hs[h].block_index = b}
           free == {h \in Slots : hs[h].block_index = 0}
           new  == [block_index |-> b, directory |-> dir,
                    current_size |-> size, ref_count |-> 1]
           referred == IF dir = NULL THEN hs ELSE [hs EXCEPT ![dir].ref_count = @ + 1]
           g == GetFileHandle(v, b, dir, size)
<1>1. g = IF same # {} THEN Return([v EXCEPT !.handles[Min(same)].ref_count = @ + 1], Min(same))
          ELSE IF free # {}
          THEN Return([v EXCEPT !.handles = [referred EXCEPT ![Min(free)] = new]], Min(free))
          ELSE Return(v, NULL)
  BY DEF GetFileHandle
<1>2. Handling(hs, L, E) /\ Heads(L) /\ hs \in [Slots -> HandleRecords]
  BY DEF GoodView, Layout, Handling
<1>3. b \in Blocks /\ b # 0 /\ same \in SUBSET Nat /\ free \in SUBSET Nat
      /\ same \in SUBSET Slots /\ free \in SUBSET Slots
  BY <1>2, HeadFacts, Sizes
<1>a. /\ \A h \in Slots : h \in same <=> hs[h].block_index = b
      /\ \A h \in Slots : h \in free <=> hs[h].block_index = 0
  OBVIOUS
<1>b. [v EXCEPT !.handles[Min(same)].ref_count = @ + 1] =
        [v EXCEPT !.handles = [hs EXCEPT ![Min(same)].ref_count = @ + 1]]
  <2>1. v = [device |-> v.device, handles |-> hs, root_dir_size |-> v.root_dir_size,
             writes |-> v.writes, ret |-> v.ret, failures |-> v.failures]
    BY DEF GoodView, IsView
  <2> QED BY ONLY <2>1
<1> HIDE DEF g, same, free, referred, new
<1>4. CASE same # {}
  <2> PICK x : x = Min(same)
    OBVIOUS
  <2>1. x \in Slots /\ hs[x].block_index = b /\ IsOpen(hs, x)
    BY <1>3, <1>4, <1>a, LeastInSet DEF IsOpen
  <2> PICK ns : ns = [hs EXCEPT ![x].ref_count = @ + 1]
    OBVIOUS
  <2>2. Handling(ns, L, More(E, x, b))
    BY <1>2, <2>1, CountedHandling
  <2>3. ns[x].block_index = b
    BY <1>2, <2>1 DEF HandleRecords
  <2> PICK w : w = [v EXCEPT !.handles = ns]
    OBVIOUS
  <2>4. GoodView(w, call, L, More(E, x, b)) /\ w.device = v.device /\ w.handles = ns
    <3>1. ViewIs([v EXCEPT !.handles = ns], call, L, More(E, x, b), v.device, ns, v.ret)
      BY <2>2, HandlesView
    <3> QED BY <3>1 DEF ViewIs
  <2>5. /\ GoodView(Return(w, x), call, L, More(E, x, b)) /\ Return(w, x).device = w.device
        /\ Return(w, x).handles = w.handles /\ Return(w, x).ret = x
    <3> PICK F : F = More(E, x, b)
      OBVIOUS
    <3>1. GoodView(w, call, L, F)
      BY <2>4
    <3>2. ViewIs(Return(w, x), call, L, F, w.device, w.handles, x)
      BY ONLY <3>1, ReturnView
    <3> QED BY <3>2 DEF ViewIs
  <2>6. g = Return(w, x)
    <3>1. w = [v EXCEPT !.handles[x].ref_count = @ + 1]
      BY <1>b
    <3> QED BY <1>1, <1>4, <3>1
  <2> QED BY <2>1, <2>3, <2>4, <2>5, <2>6 DEF Opened, g
<1>5. CASE same = {} /\ free # {}
  <2> PICK x : x = Min(free)
    OBVIOUS
  <2>1. x \in Slots /\ hs[x].block_index = 0 /\ ~ IsOpen(hs, x)
    BY <1>3, <1>5, <1>a, LeastInSet DEF IsOpen
  <2> PICK ns : ns = [referred EXCEPT ![x] = new]
    OBVIOUS
  <2>2. \A y \in Slots : hs[y].block_index # b
    BY <1>5, <1>a
  <2>3. Handling(ns, L, More(E, x, b))
    BY <1>2, <2>1, <2>2, NewHandling DEF referred, new
  <2>4. ns[x].block_index = b
    BY <1>2, <2>1 DEF HandleRecords, referred, new
  <2> PICK w : w = [v EXCEPT !.handles = ns]
    OBVIOUS
  <2>5. GoodView(w, call, L, More(E, x, b)) /\ w.device = v.device /\ w.handles = ns
    <3>1. ViewIs([v EXCEPT !.handles = ns], call, L, More(E, x, b), v.device, ns, v.ret)
      BY <2>3, HandlesView
    <3> QED BY <3>1 DEF ViewIs
  <2>6. /\ GoodView(Return(w, x), call, L, More(E, x, b)) /\ Return(w, x).device = w.device
        /\ Return(w, x).handles = w.handles /\ Return(w, x).ret = x
    <3> PICK F : F = More(E, x, b)
      OBVIOUS
    <3>1. GoodView(w, call, L, F)
      BY <2>5
    <3>2. ViewIs(Return(w, x), call, L, F, w.device, w.handles, x)
      BY ONLY <3>1, ReturnView
    <3> QED BY <3>2 DEF ViewIs
  <2>7. g = Return(w, x)
    BY <1>1, <1>5
  <2> QED BY <2>1, <2>4, <2>5, <2>6, <2>7 DEF Opened, g
<1>6. CASE same = {} /\ free = {}
  <2>1. g = Return(v, NULL)
    BY <1>1, <1>6
  <2>2. /\ GoodView(Return(v, NULL), call, L, E)
        /\ Return(v, NULL).device = v.device /\ Return(v, NULL).handles = v.handles
        /\ Return(v, NULL).ret = NULL
    BY ReturnView DEF ViewIs
  <2> QED BY <2>1, <2>2 DEF Opened, g
<1> QED BY <1>4, <1>5, <1>6

Closed(w, v, call, L, E) == GoodView(w, call, L, E) /\ w.device = v.device /\ w.ret = v.ret

\* tfsCloseHandle takes a reference the program has: the view stays good without it.
LEMMA CloseHandleView ==
  ASSUME NEW v, NEW call, NEW L, NEW E, GoodView(v, call, L, E),
         NEW x \in Slots, NEW b, b = v.handles[x].block_index, E[<< x, b >>] > 0
  PROVE  Closed(CloseHandle(v, x), v, call, L, Less(E, x, b))
<1> PICK hs : hs = v.handles
  OBVIOUS
<1>1. Heads(L) /\ Handling(hs, L, E)
  BY DEF GoodView, Layout
<1>2. PICK ns : CloseHandle(v, x) = [v EXCEPT !.handles = ns] /\ Handling(ns, L, Less(E, x, b))
  BY <1>1, ClosedHandling
<1>3. ViewIs([v EXCEPT !.handles = ns], call, L, Less(E, x, b), v.device, ns, v.ret)
  BY <1>2, HandlesView
<1> QED BY <1>2, <1>3 DEF Closed, ViewIs

\* The blocks of the files are as they were.
SameData(d, e, L) ==
  \A h \in DOMAIN L : \A i \in 1..Len(L[h].line) :
    e.block[L[h].line[i]] = d.block[L[h].line[i]]

\* Cells of the files, where their blocks are the same.
LEMMA SameDataAt ==
  ASSUME NEW d, NEW e, NEW L, Heads(L), SameData(d, e, L), NEW h \in DOMAIN L
  PROVE  \A i \in 0..(L[h].size - 1) : At(e, L, h, i) = At(d, L, h, i)
BY PlaceOfCell DEF SameData, At

\* The files there were hold what they held, directories may be longer, and new files
\* are empty.
KeepsFile(d, L, e, M, h) ==
  /\ h \in DOMAIN M /\ M[h].mode = L[h].mode /\ L[h].size <= M[h].size
  /\ L[h].mode = "file" =>
       /\ M[h].size = L[h].size
       /\ \A i \in 0..(L[h].size - 1) : At(e, M, h, i) = At(d, L, h, i)

Keeps(d, L, e, M) ==
  /\ \A h \in DOMAIN L : KeepsFile(d, L, e, M, h)
  /\ \A h \in DOMAIN M \ DOMAIN L : M[h].size = 0

\* What was promised still holds where the files keep what they held.
LEMMA KeepsHonour ==
  ASSUME NEW d, NEW L, NEW e, NEW M, Keeps(d, L, e, M), Heads(L), Heads(M), NEW P, Honours(d, L, P)
  PROVE  Honours(e, M, P)
<1>1. \A h \in DOMAIN L : L[h].size \in Nat
  BY HeadFacts
<1>2. \A h \in DOMAIN M : M[h].size \in Nat
  BY HeadFacts
<1>3. ASSUME NEW h \in DOMAIN P PROVE h \in DOMAIN M /\ P[h].size \in Nat /\ P[h].size <= M[h].size
  <2>1. h \in DOMAIN L /\ P[h].size \in Nat /\ P[h].size <= L[h].size
    BY DEF Honours
  <2>2. h \in DOMAIN M /\ L[h].size <= M[h].size
    BY <2>1 DEF Keeps, KeepsFile
  <2> QED BY <1>1, <1>2, <2>1, <2>2
<1>4. ASSUME NEW h \in DOMAIN M PROVE Truthful(e, M, P, h)
  <2>1. CASE h \in DOMAIN L
    <3>1. Truthful(d, L, P, h) /\ KeepsFile(d, L, e, M, h)
      BY <2>1 DEF Honours, Keeps
    <3> QED BY <3>1 DEF Truthful, KeepsFile
  <2>2. CASE h \notin DOMAIN L
    <3>1. M[h].size = 0 /\ MaxFileCells \in Nat
      BY <2>2, TomFSAssumption DEF Keeps
    <3> QED BY <3>1 DEF Truthful
  <2> QED BY <2>1, <2>2
<1> QED BY <1>3, <1>4 DEF Honours

\* So it is where the blocks are the same.
LEMMA SameDataHonours ==
  ASSUME NEW d, NEW e, NEW L, Heads(L), SameData(d, e, L), NEW P, Honours(d, L, P)
  PROVE  Honours(e, L, P)
<1>1. ASSUME NEW h \in DOMAIN L PROVE KeepsFile(d, L, e, L, h)
  <2>1. L[h].size \in Nat
    BY HeadFacts
  <2> QED BY <2>1, SameDataAt DEF KeepsFile
<1>2. Keeps(d, L, e, L)
  BY <1>1 DEF Keeps
<1> QED BY <1>2, KeepsHonour

\* A spare block is so still, and is not the one taken.
SpareStill(d, e, L, taken) ==
  \A b : Spare(d, L, b) => Spare(e, L, b) /\ b # taken

Allocated(a, v, call, L, E) ==
  /\ GoodView(a, call, L, E)
  /\ a.handles = v.handles
  /\ SameData(v.device, a.device, L)
  /\ a.ret = NULL \/ Spare(a.device, L, a.ret)
  /\ SpareStill(v.device, a.device, L, a.ret)

\* What tfsAllocateBlock writes in a block it took.
LEMMA EmptyBlockIsBlock == IsBlock(EmptyBlock) /\ EmptyBlock.next_block = NULL
BY Sizes DEF IsBlock, EmptyBlock

\* tfsAllocateBlock: a spare block, emptied and marked, or none.
LEMMA AllocateBlockView ==
  ASSUME NEW v, NEW call, NEW L, NEW E, GoodView(v, call, L, E),
         NEW desired \in Nat, desired > 1, NEW coin
  PROVE  Allocated(AllocateBlock(v, desired, coin), v, call, L, E)
<1> DEFINE free == (1..(total_blocks - 1)) \ v.device.marked
           block == IF desired \notin v.device.marked THEN desired
                    ELSE IF free # {} THEN Found(free, coin)
                    ELSE NULL
           taken == Write(v, [v.device EXCEPT !.marked = @ \cup {block}])
           a == AllocateBlock(v, desired, coin)
<1>1. a = IF Fails(v) \/ block = NULL THEN Return(v, NULL)
          ELSE IF block \notin Blocks \/ Fails(taken) THEN Return(taken, NULL)
          ELSE Return(Write(taken, [taken.device EXCEPT !.block[block] = EmptyBlock]), block)
  <2>1. ~ FailsUnnoticed(v) /\ v.device.root_dir_size = v.root_dir_size
    BY DEF FailsUnnoticed, GoodView, IsView
  <2>2. Search(v) = v
    BY <2>1 DEF Search, WriteHeader
  <2> QED BY <2>1, <2>2 DEF AllocateBlock
<1>2. /\ IsView(v) /\ Past(v, call) /\ Layout(v.device, L) /\ Handling(v.handles, L, E)
      /\ IsDevice(v.device) /\ Heads(L) /\ BitmapBlock \in v.device.marked
      /\ Honours(v.device, L, call.promise)
  BY DEF GoodView, Layout, IsDevice
<1>3. block = NULL \/ (block \in Nat \ {NULL, BitmapBlock} /\ block \notin v.device.marked)
  <2>1. free \in SUBSET Blocks
    BY Sizes DEF Blocks
  <2>2. free # {} => Found(free, coin) \in free
    BY <2>1, FoundInSet
  <2>3. \A x \in free : x \in Nat \ {NULL, BitmapBlock} /\ x \notin v.device.marked
    BY <1>2, Sizes
  <2>4. desired \in Nat \ {NULL, BitmapBlock}
    BY Sizes
  <2> HIDE DEF free
  <2>5. CASE desired \notin v.device.marked
    BY <2>4, <2>5
  <2>6. CASE desired \in v.device.marked /\ free # {}
    <3>1. block = Found(free, coin)
      BY <2>6
    <3> QED BY <2>2, <2>3, <2>6, <3>1
  <2>7. CASE desired \in v.device.marked /\ free = {}
    BY <2>7
  <2> QED BY <2>5, <2>6, <2>7
<1>4. block \in Nat
  BY <1>3, Sizes
<1> HIDE DEF block, a
<1> PICK e : e = Mark(v.device, block)
  OBVIOUS
<1>5. taken = Write(v, e)
  BY DEF Mark
<1>6. /\ Layout(e, L) /\ IsDevice(e) /\ e.block = v.device.block /\ e.marked = v.device.marked \cup {block}
      /\ e.root_dir_size = v.device.root_dir_size
  BY <1>2, <1>4, MarkLayout, BlockMarked
<1>9. SameData(v.device, e, L)
  BY <1>6 DEF SameData
<1>7. ViewIs(taken, call, L, E, e, v.handles, v.ret)
  <2>0. Honours(e, L, call.promise)
    BY <1>2, <1>9, SameDataHonours
  <2>1. ViewIs(Write(v, e), call, L, E, e, v.handles, v.ret)
    BY <1>2, <1>6, <2>0, WriteView
  <2> QED BY <1>5, <2>1
<1>8. GoodView(taken, call, L, E) /\ taken.device = e /\ taken.handles = v.handles
  BY <1>7 DEF ViewIs
<1> HIDE DEF taken
<1>a. SpareStill(v.device, v.device, L, NULL) /\ SpareStill(v.device, e, L, NULL)
  BY <1>6 DEF SpareStill, Spare
<1>10. CASE Fails(v) \/ block = NULL
  <2>1. ViewIs(Return(v, NULL), call, L, E, v.device, v.handles, NULL)
    BY ReturnView
  <2>2. a = Return(v, NULL)
    BY <1>1, <1>10
  <2> QED BY <1>a, <2>1, <2>2 DEF ViewIs, Allocated, SameData, a
<1>11. CASE ~ (Fails(v) \/ block = NULL) /\ (block \notin Blocks \/ Fails(taken))
  <2>1. ViewIs(Return(taken, NULL), call, L, E, taken.device, taken.handles, NULL)
    BY <1>8, ReturnView
  <2>2. a = Return(taken, NULL)
    BY <1>1, <1>11
  <2> QED BY <1>8, <1>9, <1>a, <2>1, <2>2 DEF ViewIs, Allocated, a
<1>12. CASE ~ (Fails(v) \/ block = NULL) /\ block \in Blocks /\ ~ Fails(taken)
  <2>1. block \in Blocks \ {NULL, BitmapBlock} /\ InNoFile(L, block)
    <3>1. \A h \in DOMAIN L : \A i \in 1..Len(L[h].line) : L[h].line[i] \in v.device.marked
      BY <1>2 DEF Layout, Linked, IsLinked
    <3> QED BY <1>3, <1>12, <3>1 DEF InNoFile
  <2> PICK f : f = SetBlock(e, block, EmptyBlock)
    OBVIOUS
  <2>2. Layout(f, L)
    BY <1>6, <2>1, EmptyBlockIsBlock, OtherBlockLayout
  <2>3. /\ \A c \in Blocks : f.block[c] = IF c = block THEN EmptyBlock ELSE e.block[c]
        /\ f.marked = e.marked /\ f.root_dir_size = e.root_dir_size
    <3>1. /\ IsDevice(SetBlock(e, block, EmptyBlock))
          /\ \A c \in Blocks : SetBlock(e, block, EmptyBlock).block[c] = IF c = block THEN EmptyBlock ELSE e.block[c]
          /\ SetBlock(e, block, EmptyBlock).marked = e.marked
          /\ SetBlock(e, block, EmptyBlock).root_dir_size = e.root_dir_size
      BY <1>6, <1>12, EmptyBlockIsBlock, BlockSet
    <3> QED BY <3>1
  <2> PICK w : w = Write(taken, f)
    OBVIOUS
  <2>9. SameData(v.device, f, L)
    BY <1>2, <1>6, <2>1, <2>3, HeadFacts DEF SameData, InNoFile
  <2>4. ViewIs(w, call, L, E, f, taken.handles, taken.ret)
    <3>0. Honours(f, L, call.promise)
      BY <1>2, <2>9, SameDataHonours
    <3>1. IsView(taken) /\ Past(taken, call) /\ Handling(taken.handles, L, E)
      BY <1>8 DEF GoodView
    <3> QED BY <1>8, <2>2, <2>3, <3>0, <3>1, WriteView
  <2>5. GoodView(w, call, L, E) /\ w.device = f /\ w.handles = v.handles
    BY <1>8, <2>4 DEF ViewIs
  <2>6. ViewIs(Return(w, block), call, L, E, w.device, w.handles, block)
    BY <2>5, ReturnView
  <2>7. a = Return(w, block)
    BY <1>1, <1>8, <1>12 DEF SetBlock
  <2>8. Spare(f, L, block)
    BY <1>6, <2>1, <2>3, EmptyBlockIsBlock DEF Spare
  <2>10. SpareStill(v.device, f, L, block)
    <3> SUFFICES ASSUME NEW b, Spare(v.device, L, b) PROVE Spare(f, L, b) /\ b # block
      BY DEF SpareStill
    <3>1. b # block /\ b \in Blocks
      BY <1>3, <1>12 DEF Spare
    <3>2. f.block[b] = v.device.block[b] /\ f.marked = v.device.marked \cup {block}
      BY <1>6, <2>3, <3>1
    <3> QED BY <3>1, <3>2 DEF Spare
  <2> QED BY <2>5, <2>6, <2>7, <2>8, <2>9, <2>10 DEF ViewIs, Allocated, a
<1> QED BY <1>10, <1>11, <1>12

\* Min of two numbers.
LEMMA LesserOfTwo ==
  ASSUME NEW a \in Int, NEW b \in Int
  PROVE  Min({a, b}) = IF a <= b THEN a ELSE b
BY DEF Min

\* A block more holds BlockCells more.
LEMMA BlocksBefore ==
  ASSUME NEW k \in Nat, k > 0
  PROVE  /\ (k - 1) * BlockCells \in Nat
         /\ k * BlockCells = (k - 1) * BlockCells + BlockCells
         /\ \A n \in Nat : k <= n => k * BlockCells <= n * BlockCells
BY Sizes

\* Files that only get more blocks keep their handles.
LEMMA SameHandling ==
  ASSUME NEW L, NEW M, SameFiles(L, M), NEW hs, NEW E, Handling(hs, L, E)
  PROVE  Handling(hs, M, E)
<1>1. ASSUME NEW x \in Slots, IsOpen(hs, x) PROVE HandleKept(hs, M, E, x)
  <2>1. HandleKept(hs, L, E, x)
    BY <1>1 DEF Handling
  <2>2. /\ hs[x].block_index \in DOMAIN M
        /\ M[hs[x].block_index].size = L[hs[x].block_index].size
        /\ M[hs[x].block_index].parent = L[hs[x].block_index].parent
    BY <2>1 DEF HandleKept, SameFiles
  <2> QED BY <2>1, <2>2 DEF HandleKept
<1> QED BY <1>1 DEF Handling

\* The next block of a file, or one taken to be the next.
LEMMA FollowingBlockView ==
  ASSUME NEW v, NEW call, NEW L, NEW E, GoodView(v, call, L, E),
         NEW at \in Blocks, at > 1, NEW more, NEW coin, NEW next,
         next = v.device.block[at].next_block
  PROVE  LET a == FollowingBlock(v, at, more, coin)
         IN  /\ GoodView(a, call, L, E) /\ a.handles = v.handles
             /\ SameData(v.device, a.device, L)
             /\ IF more /\ next = NULL THEN a.ret = NULL \/ Spare(a.device, L, a.ret)
                ELSE a.ret = next /\ a.device = v.device
<1> PICK a : a = FollowingBlock(v, at, more, coin)
  OBVIOUS
<1>1. CASE more /\ next = NULL
  <2>1. a = AllocateBlock(v, at + 1, coin)
    BY <1>1, Sizes DEF FollowingBlock
  <2>2. at + 1 \in Nat /\ at + 1 > 1
    BY Sizes
  <2> PICK b : b = at + 1
    OBVIOUS
  <2>3. Allocated(AllocateBlock(v, b, coin), v, call, L, E)
    BY <2>2, AllocateBlockView
  <2> QED BY <1>1, <2>1, <2>3 DEF Allocated
<1>2. CASE ~ (more /\ next = NULL)
  <2>1. a = Return(v, next)
    BY <1>2, Sizes DEF FollowingBlock
  <2>2. ViewIs(Return(v, next), call, L, E, v.device, v.handles, next)
    BY ReturnView
  <2>3. SameData(v.device, v.device, L)
    BY DEF SameData
  <2> QED BY <1>2, <2>1, <2>2, <2>3 DEF ViewIs
<1> QED BY <1>1, <1>2

-----------------------------------------------------------------------------
\* A write to the file that starts at h, with cells left for places up to the total.
IsFill(s) ==
  /\ s = [v |-> s.v, at |-> s.at, offset |-> s.offset, left |-> s.left, stopped |-> s.stopped]
  /\ \E X : s.left \in Seq(X)
  /\ s.stopped \in BOOLEAN

AtPlace(s, L, h, total, k) ==
  /\ k \in 1..Len(L[h].line)
  /\ s.at = L[h].line[k]
  /\ s.offset \in 0..(BlockCells - 1)
  /\ (k - 1) * BlockCells + s.offset + Len(s.left) = total
  /\ L[h].mode = "dir" => L[h].size <= (k - 1) * BlockCells + s.offset

\* To a file goes one value, the one promised, from where the write began.
Supplied(s, call, L, h, total) ==
  L[h].mode = "file" =>
    /\ call.first \in Nat /\ call.first <= total - Len(s.left)
    /\ \A j \in 1..Len(s.left) : s.left[j] = call.value
    /\ \A i \in call.first..(total - 1) : call.value \in PromiseOf(call.promise, h).cells[i]
    /\ \A i \in call.first..(total - Len(s.left) - 1) :
         i \div BlockCells + 1 \in 1..Len(L[h].line) /\ At(s.v.device, L, h, i) = call.value

Filling(s, hs, call, L, E, h, total) ==
  /\ IsFill(s)
  /\ GoodView(s.v, call, L, E) /\ s.v.handles = hs
  /\ ~ s.stopped => /\ Supplied(s, call, L, h, total)
                 /\ \/ s.left = << >> /\ total <= Len(L[h].line) * BlockCells
                    \/ s.left # << >> /\ \E k : AtPlace(s, L, h, total, k)

FilledCells(s, n) ==
  [i \in 0..(BlockCells - 1) |->
     IF i \in s.offset..(s.offset + n - 1) THEN s.left[i - s.offset + 1]
     ELSE s.v.device.block[s.at].cells[i]]

FilledBlock(s, n, a) ==
  [v      |-> Write(a, SetBlock(a.device, s.at,
                                [next_block |-> a.ret, cells |-> FilledCells(s, n)])),
   at     |-> a.ret,
   offset |-> 0,
   left   |-> SubSeq(s.left, n + 1, Len(s.left)),
   stopped |-> FALSE]

\* One round of the loop of tfsWriteFile, and the two ways it ends.
LEMMA FillBlockValue ==
  ASSUME NEW s, s.left # << >>, ~ s.stopped, NEW coin,
         NEW n, n = Min({Len(s.left), BlockCells - s.offset}),
         NEW a, a = FollowingBlock(s.v, s.at, n < Len(s.left), coin)
  PROVE  FillBlock(s, coin) =
           IF (n < Len(s.left) /\ a.ret = NULL) \/ Fails(a) THEN [s EXCEPT !.v = a, !.stopped = TRUE]
           ELSE FilledBlock(s, n, a)
BY DEF FillBlock, FilledBlock, FilledCells, SetBlock

\* The block filled keeps what a directory shows.
LEMMA FilledKeepsShown ==
  ASSUME NEW s, NEW d, NEW L, Layout(d, L), NEW h \in DOMAIN L, NEW k, NEW total,
         AtPlace(s, L, h, total, k),
         NEW n \in Nat, NEW a, SameData(s.v.device, d, L),
         NEW x, x = [next_block |-> a, cells |-> FilledCells(s, n)]
  PROVE  KeepsShown(d, L, h, k, x)
<1> SUFFICES ASSUME L[h].mode = "dir", NEW i \in 0..(L[h].size - 1), i \div BlockCells + 1 = k
             PROVE  x.cells[i % BlockCells] = At(d, L, h, i)
  BY DEF KeepsShown
<1>1. /\ k \in 1..Len(L[h].line) /\ s.at = L[h].line[k] /\ s.offset \in 0..(BlockCells - 1)
      /\ L[h].size <= (k - 1) * BlockCells + s.offset
  BY DEF AtPlace
<1>2. L[h].size \in Nat /\ Len(L[h].line) \in Nat
  BY HeadFacts DEF Layout
<1> PICK q, r : q = i \div BlockCells /\ r = i % BlockCells
  OBVIOUS
<1>3. i \in Nat /\ q = k - 1 /\ i < L[h].size
  BY <1>1, <1>2
<1>4. q \in Nat /\ r \in 0..(BlockCells - 1) /\ i = q * BlockCells + r
  BY <1>3, Division
<1> PICK t : t = q * BlockCells
  OBVIOUS
<1>a. t \in Nat
  BY <1>4, Sizes
<1>5. r < s.offset
  <2> PICK o, m : o = s.offset /\ m = L[h].size
    OBVIOUS
  <2>1. (k - 1) * BlockCells = t
    BY <1>3
  <2>2. m <= t + o /\ i < m /\ i = t + r
    BY <1>1, <1>3, <1>4, <2>1
  <2>3. m \in Nat /\ o \in Nat /\ r \in Nat
    BY <1>1, <1>2, <1>4, Sizes
  <2> QED BY <1>3, <1>a, <2>2, <2>3
<1>6. x.cells[r] = s.v.device.block[s.at].cells[r]
  <2> PICK o : o = s.offset
    OBVIOUS
  <2>1. r \in 0..(BlockCells - 1) /\ r < o /\ o \in Nat /\ r \notin o..(o + n - 1)
    BY <1>1, <1>4, <1>5, Sizes
  <2> QED BY <2>1 DEF FilledCells
<1>7. d.block[s.at] = s.v.device.block[s.at]
  BY <1>1 DEF SameData
<1> QED BY <1>1, <1>3, <1>6, <1>7 DEF At

\* What fits in the block.
Fit(s) == Min({Len(s.left), BlockCells - s.offset})

\* At least one cell fits in the block, and what is left does so in those that follow.
LEMMA FitFacts ==
  ASSUME NEW s, \E X : s.left \in Seq(X), s.left # << >>,
         s.offset \in 0..(BlockCells - 1)
  PROVE  /\ Fit(s) \in 1..Len(s.left) /\ Len(s.left) \in Nat
         /\ s.offset + Fit(s) <= BlockCells
         /\ Fit(s) < Len(s.left) => s.offset + Fit(s) = BlockCells
         /\ Len(SubSeq(s.left, Fit(s) + 1, Len(s.left))) = Len(s.left) - Fit(s)
         /\ \E X : SubSeq(s.left, Fit(s) + 1, Len(s.left)) \in Seq(X)
<1> PICK X, l, o : l = s.left /\ o = s.offset /\ l \in Seq(X)
  OBVIOUS
<1>1. Len(l) \in Nat /\ Len(l) > 0 /\ o \in 0..(BlockCells - 1)
  OBVIOUS
<1>2. Fit(s) = IF Len(l) <= BlockCells - o THEN Len(l) ELSE BlockCells - o
  <2>1. Len(l) \in Int /\ BlockCells - o \in Int
    BY <1>1, Sizes
  <2> PICK m, p : m = Len(l) /\ p = BlockCells - o
    OBVIOUS
  <2>2. Min({m, p}) = IF m <= p THEN m ELSE p
    BY <2>1, LesserOfTwo
  <2> QED BY <2>2 DEF Fit
<1>3. /\ Fit(s) \in 1..Len(l) /\ o + Fit(s) <= BlockCells
      /\ Fit(s) < Len(l) => o + Fit(s) = BlockCells
  BY <1>1, <1>2, Sizes
<1> PICK n : n = Fit(s)
  OBVIOUS
<1>4. SubSeq(l, n + 1, Len(l)) \in Seq(X) /\ Len(SubSeq(l, n + 1, Len(l))) = Len(l) - n
  BY <1>1, <1>3
<1> QED BY <1>1, <1>3, <1>4

\* The place in the file is the same, counted from the next block.
LEMMA NextSum ==
  ASSUME NEW k \in Nat, k > 0, NEW j, j = k + 1, NEW o \in Nat, NEW n \in Nat, o + n = BlockCells,
         NEW l \in Nat, NEW m, m = l - n, NEW total, (k - 1) * BlockCells + o + l = total
  PROVE  /\ (j - 1) * BlockCells + 0 + m = total
         /\ \A z \in Nat : z <= (k - 1) * BlockCells + o => z <= (j - 1) * BlockCells + 0
<1> PICK p : p = (k - 1) * BlockCells
  OBVIOUS
<1>1. p \in Nat /\ k * BlockCells = p + BlockCells /\ j - 1 = k /\ BlockCells \in Nat
  BY BlocksBefore, Sizes
<1>2. (j - 1) * BlockCells = p + BlockCells
  BY <1>1
<1>3. p + o + l = total
  OBVIOUS
<1>4. (p + BlockCells) + 0 + m = total /\ \A z \in Nat : z <= p + o => z <= (p + BlockCells) + 0
  <2> PICK c : c = BlockCells
    OBVIOUS
  <2>1. p \in Nat /\ c \in Nat /\ o + n = c
    BY <1>1
  <2>2. (p + c) + 0 + m = total
    BY <1>3, <2>1
  <2>3. \A z \in Nat : z <= p + o => z <= (p + c) + 0
    BY <2>1
  <2> QED BY <2>2, <2>3
<1> QED BY <1>2, <1>4

\* The place of a write is known by the block it is in and the cells left.
LEMMA PlaceSaid ==
  ASSUME NEW t, NEW N, NEW h, NEW total, NEW k,
         k \in 1..Len(N[h].line), t.at = N[h].line[k], t.offset \in 0..(BlockCells - 1),
         (k - 1) * BlockCells + t.offset + Len(t.left) = total,
         N[h].mode = "dir" => N[h].size <= (k - 1) * BlockCells + t.offset
  PROVE  AtPlace(t, N, h, total, k)
BY DEF AtPlace

\* The write goes on at the start of the next block.
LEMMA NextPlace ==
  ASSUME NEW s, NEW L, NEW h, NEW total \in Nat, NEW k, AtPlace(s, L, h, total, k), IsFill(s),
         s.left # << >>, Heads(L), h \in DOMAIN L, Fit(s) < Len(s.left),
         NEW N, SameFiles(L, N), Heads(N),
         NEW t, k + 1 \in 1..Len(N[h].line), t.at = N[h].line[k + 1], t.offset = 0,
         t.left = SubSeq(s.left, Fit(s) + 1, Len(s.left))
  PROVE  AtPlace(t, N, h, total, k + 1)
<1> PICK o, l, m, n, j : /\ o = s.offset /\ l = Len(s.left) /\ m = Len(t.left) /\ n = Fit(s)
                         /\ j = k + 1
  OBVIOUS
<1>0. k \in 1..Len(L[h].line) /\ o \in 0..(BlockCells - 1)
  BY DEF AtPlace
<1>1. (k - 1) * BlockCells + o + l = total
  BY DEF AtPlace
<1>2. n \in 1..l /\ l \in Nat /\ o + n = BlockCells /\ m = l - n
  BY <1>0, FitFacts DEF IsFill
<1>3. k \in Nat /\ k > 0 /\ L[h].size \in Nat /\ o \in Nat
  <2>1. k \in Nat /\ k > 0 /\ L[h].size \in Nat
    BY <1>0, HeadFacts
  <2>2. o \in Nat
    BY <1>0, Sizes
  <2> QED BY <2>1, <2>2
<1>4. n \in Nat
  BY <1>2
<1>5. /\ (j - 1) * BlockCells + 0 + m = total
      /\ \A z \in Nat : z <= (k - 1) * BlockCells + o => z <= (j - 1) * BlockCells + 0
  <2>1. k \in Nat /\ k > 0 /\ j = k + 1 /\ o \in Nat /\ n \in Nat /\ o + n = BlockCells
    BY <1>2, <1>3, <1>4
  <2>2. l \in Nat /\ m = l - n /\ (k - 1) * BlockCells + o + l = total
    BY <1>1, <1>2
  <2> HIDE DEF AtPlace, SameFiles, Heads, IsFill, Fit
  <2> QED BY ONLY <2>1, <2>2, NextSum, total \in Nat
<1>6. N[h].mode = "dir" => N[h].size <= (j - 1) * BlockCells + 0
  <2>1. N[h].mode = L[h].mode /\ N[h].size = L[h].size
    BY DEF SameFiles
  <2>2. L[h].mode = "dir" => L[h].size <= (k - 1) * BlockCells + o
    BY DEF AtPlace
  <2> QED BY <1>3, <1>5, <2>1, <2>2
<1>7. t.offset = 0 /\ t.offset \in 0..(BlockCells - 1)
  BY Sizes
<1>8. j \in 1..Len(N[h].line) /\ t.at = N[h].line[j]
  OBVIOUS
<1> QED BY <1>5, <1>6, <1>7, <1>8, PlaceSaid

\* The block the data are in is the file's last one or leads to the next.
LEMMA NextOfPlace ==
  ASSUME NEW d, NEW L, Layout(d, L), NEW h \in DOMAIN L, NEW k \in 1..Len(L[h].line),
         NEW next, next = d.block[L[h].line[k]].next_block
  PROVE  /\ L[h].line[k] \in Blocks /\ L[h].line[k] > 1
         /\ next \in Blocks
         /\ next = NULL => k = Len(L[h].line)
         /\ next # NULL => k + 1 \in 1..Len(L[h].line) /\ next = L[h].line[k + 1]
<1> PICK l : l = L[h].line
  OBVIOUS
<1>1. l \in Seq(Blocks \ {NULL, BitmapBlock}) /\ Len(l) \in Nat /\ k \in 1..Len(l)
  BY HeadFacts DEF Layout
<1>2. ASSUME NEW i \in 1..Len(l) PROVE l[i] \in Blocks /\ l[i] # NULL /\ l[i] > 1
  <2>1. l[i] \in Blocks \ {NULL, BitmapBlock}
    BY <1>1
  <2>2. \A b \in Nat \ {0, 1} : b > 1
    OBVIOUS
  <2> QED BY <2>1, <2>2, Sizes
<1>3. IsLinked(d, l)
  BY DEF Layout, Linked
<1>4. CASE k = Len(l)
  BY <1>1, <1>2, <1>3, <1>4, Sizes DEF IsLinked
<1>5. CASE k # Len(l)
  <2>1. k + 1 \in 1..Len(l) /\ k \in 1..(Len(l) - 1)
    BY <1>1, <1>5
  <2> QED BY <1>1, <1>2, <1>3, <2>1 DEF IsLinked
<1> QED BY <1>4, <1>5

Shrinks(s, t) == t.stopped \/ t.left = << >> \/ Len(t.left) < Len(s.left)

\* The volume is full or the device fails: the write stops where the view is good.
LEMMA FullFilling ==
  ASSUME NEW s, NEW hs, NEW call, NEW L, NEW E, NEW h, NEW total, IsFill(s),
         NEW a, GoodView(a, call, L, E), a.handles = hs
  PROVE  LET t == [s EXCEPT !.v = a, !.stopped = TRUE]
         IN  t.stopped = TRUE /\ Filling(t, hs, call, L, E, h, total)
<1> PICK t : t = [s EXCEPT !.v = a, !.stopped = TRUE]
  OBVIOUS
<1> PICK v, at, o, l, f : v = s.v /\ at = s.at /\ o = s.offset /\ l = s.left /\ f = s.stopped
  OBVIOUS
<1>1. s = [v |-> v, at |-> at, offset |-> o, left |-> l, stopped |-> f] /\ \E X : l \in Seq(X)
  BY DEF IsFill
<1>2. t = [v |-> a, at |-> at, offset |-> o, left |-> l, stopped |-> TRUE]
  BY <1>1
<1> QED BY <1>1, <1>2 DEF Filling, IsFill

IsFilled(t, x, s, n, a, at) ==
  /\ IsBlock(x) /\ x.next_block = a.ret /\ x.cells = FilledCells(s, n)
  /\ t = [v |-> t.v, at |-> t.at, offset |-> t.offset, left |-> t.left, stopped |-> t.stopped]
  /\ t.v = Write(a, SetBlock(a.device, at, x))
  /\ t.at = a.ret /\ t.offset = 0 /\ t.left = SubSeq(s.left, n + 1, Len(s.left))
  /\ t.stopped = FALSE

\* What the device holds where one block was filled.
LEMMA FilledBlockFacts ==
  ASSUME NEW s, NEW n, NEW a, NEW at, at = s.at,
         NEW t, t = FilledBlock(s, n, a), NEW x, x = [next_block |-> a.ret, cells |-> FilledCells(s, n)],
         a.ret \in Blocks
  PROVE  IsFilled(t, x, s, n, a, at)
<1> PICK c : c = FilledCells(s, n)
  OBVIOUS
<1>1. x = [next_block |-> a.ret, cells |-> c]
  OBVIOUS
<1>2. c = [i \in 0..(BlockCells - 1) |-> c[i]]
  BY DEF FilledCells
<1>3. IsBlock(x) /\ x.next_block = a.ret /\ x.cells = FilledCells(s, n)
  BY <1>1, <1>2 DEF IsBlock
<1> PICK v, l, r : /\ v = Write(a, SetBlock(a.device, at, x)) /\ l = SubSeq(s.left, n + 1, Len(s.left))
                   /\ r = a.ret
  OBVIOUS
<1>4. t = [v |-> v, at |-> r, offset |-> 0, left |-> l, stopped |-> FALSE]
  BY DEF FilledBlock
<1>5. /\ t = [v |-> t.v, at |-> t.at, offset |-> t.offset, left |-> t.left, stopped |-> t.stopped]
      /\ t.v = v /\ t.at = r /\ t.offset = 0 /\ t.left = l /\ t.stopped = FALSE
  BY ONLY <1>4
<1> QED BY <1>3, <1>5 DEF IsFilled

\* Where in the file the write goes on.
LEMMA PlaceNumbers ==
  ASSUME NEW s, IsFill(s), NEW L, Heads(L), NEW h \in DOMAIN L, NEW k, NEW total \in Nat,
         AtPlace(s, L, h, total, k), NEW n \in 0..Len(s.left),
         NEW from, from = (k - 1) * BlockCells + s.offset, NEW l, l = Len(s.left)
  PROVE  from \in Nat /\ l \in Nat /\ from + l = total /\ n \in Nat /\ n <= l
<1>1. /\ k \in 1..Len(L[h].line) /\ s.offset \in 0..(BlockCells - 1) /\ Len(L[h].line) \in Nat
      /\ from + l = total
  BY HeadFacts DEF AtPlace
<1>2. l \in Nat
  BY DEF IsFill
<1>3. k - 1 \in Nat /\ s.offset \in Nat
  BY <1>1, Sizes
<1>4. (k - 1) * BlockCells \in Nat
  BY <1>3, Sizes
<1> QED BY <1>1, <1>2, <1>3, <1>4

\* Where the lines of the files go on as before.
LinesKept(L, N) ==
  \A g \in DOMAIN L : \A i \in 1..Len(L[g].line) :
    i \in 1..Len(N[g].line) /\ N[g].line[i] = L[g].line[i]

\* Of the blocks of the files, only the k-th of h differs: n cells of it are new.
OneFilled(e, d, L, h, k, s, n) ==
  /\ e.block[L[h].line[k]].cells = FilledCells(s, n)
  /\ \A g \in DOMAIN L : \A i \in 1..Len(L[g].line) :
       (g = h /\ i = k) \/ e.block[L[g].line[i]] = d.block[L[g].line[i]]

\* One block of the file h is filled with n of the cells that are left, from its place on.
IsFilling(s, d, L, h, k, total, n, e, N) ==
  /\ d = s.v.device /\ Heads(L) /\ h \in DOMAIN L /\ total \in Nat
  /\ AtPlace(s, L, h, total, k) /\ IsFill(s)
  /\ n \in 0..Len(s.left) /\ s.offset + n <= BlockCells
  /\ OneFilled(e, d, L, h, k, s, n)
  /\ LinesKept(L, N) /\ SameFiles(L, N) /\ Heads(N)

\* The other files hold what they held.
LEMMA FilledElsewhere ==
  ASSUME NEW s, NEW d, NEW L, Heads(L), NEW h, NEW k, NEW n, NEW e, OneFilled(e, d, L, h, k, s, n),
         NEW N, LinesKept(L, N), NEW g \in DOMAIN L, g # h
  PROVE  \A i \in 0..(L[g].size - 1) : At(e, N, g, i) = At(d, L, g, i)
<1> TAKE i \in 0..(L[g].size - 1)
<1> PICK j : j = i \div BlockCells + 1
  OBVIOUS
<1>1. j \in 1..Len(L[g].line)
  BY PlaceOfCell
<1>2. N[g].line[j] = L[g].line[j]
  BY <1>1 DEF LinesKept
<1>3. e.block[L[g].line[j]] = d.block[L[g].line[j]]
  BY <1>1 DEF OneFilled
<1> QED BY <1>2, <1>3 DEF At

\* The cells of the file that was written to.
LEMMA FilledHere ==
  ASSUME NEW s, NEW d, NEW L, NEW h, NEW k, NEW total, NEW n, NEW e, NEW N,
         IsFilling(s, d, L, h, k, total, n, e, N),
         NEW from, from = (k - 1) * BlockCells + s.offset,
         NEW i \in Nat, i \div BlockCells + 1 \in 1..Len(L[h].line)
  PROVE  At(e, N, h, i) = IF i \in from..(from + n - 1) THEN s.left[i - from + 1]
                          ELSE At(d, L, h, i)
<1> PICK q, r, o, t : /\ q = i \div BlockCells /\ r = i % BlockCells /\ o = s.offset
                      /\ t = (k - 1) * BlockCells
  OBVIOUS
<1>0. /\ d = s.v.device /\ Heads(L) /\ h \in DOMAIN L /\ total \in Nat
      /\ AtPlace(s, L, h, total, k) /\ IsFill(s)
      /\ n \in 0..Len(s.left) /\ s.offset + n <= BlockCells
      /\ OneFilled(e, d, L, h, k, s, n) /\ LinesKept(L, N)
  BY DEF IsFilling
<1>a. from \in Nat /\ n \in Nat
  BY <1>0, PlaceNumbers
<1>1. /\ q \in Nat /\ r \in 0..(BlockCells - 1) /\ i = q * BlockCells + r
      /\ o \in 0..(BlockCells - 1) /\ k \in 1..Len(L[h].line) /\ s.at = L[h].line[k]
      /\ Len(L[h].line) \in Nat /\ BlockCells \in Nat
  BY <1>0, Division, HeadFacts, Sizes DEF AtPlace
<1>2. k - 1 \in Nat /\ t \in Nat /\ from = t + o /\ o + n <= BlockCells /\ from \in Nat /\ n \in Nat
  <2>1. k - 1 \in Nat
    BY ONLY <1>1
  <2>2. t \in Nat
    BY <2>1, Sizes
  <2>3. from = t + o
    OBVIOUS
  <2>4. o + n <= BlockCells
    BY <1>0
  <2> QED BY <1>a, <2>1, <2>2, <2>3, <2>4
<1>3. N[h].line[q + 1] = L[h].line[q + 1]
  BY <1>0 DEF LinesKept
<1>4. CASE q = k - 1
  <2>1. i = t + r /\ q + 1 = k
    <3>1. q * BlockCells = t
      BY <1>4
    <3> QED BY ONLY <1>1, <1>4, <3>1
  <2>2. At(e, N, h, i) = FilledCells(s, n)[r] /\ At(d, L, h, i) = d.block[s.at].cells[r]
    BY <1>0, <1>1, <1>3, <2>1, Zenon DEF OneFilled, At
  <2>3. FilledCells(s, n)[r] = IF r \in o..(o + n - 1) THEN s.left[r - o + 1] ELSE d.block[s.at].cells[r]
    BY <1>0, <1>1, Zenon DEF FilledCells
  <2>4. (i \in from..(from + n - 1)) <=> (r \in o..(o + n - 1))
    BY ONLY <1>1, <1>2, <2>1
  <2>5. i - from + 1 = r - o + 1
    BY ONLY <1>1, <1>2, <2>1
  <2> QED BY <2>2, <2>3, <2>4, <2>5
<1>5. CASE q # k - 1
  <2>1. i \notin from..(from + n - 1)
    <3> SUFFICES ASSUME i \in from..(from + n - 1) PROVE FALSE
      OBVIOUS
    <3> PICK j, p : j = i - t /\ p = k - 1
      OBVIOUS
    <3>1. j \in 0..(BlockCells - 1) /\ i = t + j
      BY ONLY <1>1, <1>2, i \in from..(from + n - 1), i \in Nat, j = i - t
    <3>2. p \in Nat /\ t = p * BlockCells
      BY <1>2
    <3>3. (p * BlockCells + j) \div BlockCells = p
      BY ONLY <3>1, <3>2, DivisionUnique
    <3> QED BY <1>5, <3>1, <3>2, <3>3
  <2>2. e.block[L[h].line[q + 1]] = d.block[L[h].line[q + 1]]
    <3>1. q + 1 \in 1..Len(L[h].line) /\ q + 1 # k
      BY <1>1, <1>5
    <3> QED BY <1>0, <3>1 DEF OneFilled
  <2> QED BY <1>3, <2>1, <2>2 DEF At
<1> QED BY <1>4, <1>5

\* A write to a file keeps what was promised, as what it writes was promised too.
LEMMA FilledHonours ==
  ASSUME NEW s, NEW d, NEW L, NEW h, NEW k, NEW total, NEW n, NEW e, NEW N,
         IsFilling(s, d, L, h, k, total, n, e, N),
         NEW call, Supplied(s, call, L, h, total), Honours(d, L, call.promise)
  PROVE  Honours(e, N, call.promise)
<1> PICK P : P = call.promise
  OBVIOUS
<1>a. /\ d = s.v.device /\ Heads(L) /\ h \in DOMAIN L /\ total \in Nat
      /\ AtPlace(s, L, h, total, k) /\ IsFill(s) /\ n \in 0..Len(s.left)
      /\ OneFilled(e, d, L, h, k, s, n)
      /\ LinesKept(L, N) /\ SameFiles(L, N) /\ Heads(N)
  BY DEF IsFilling
<1>0. \A g \in DOMAIN L : g \in DOMAIN N /\ N[g].mode = L[g].mode /\ N[g].size = L[g].size /\ L[g].size \in Nat
  BY <1>a, HeadFacts DEF SameFiles
<1>1. ASSUME NEW g \in DOMAIN L, g # h PROVE KeepsFile(d, L, e, N, g)
  <2>1. \A i \in 0..(L[g].size - 1) : At(e, N, g, i) = At(d, L, g, i)
    BY <1>a, <1>1, FilledElsewhere
  <2> QED BY <1>0, <2>1 DEF KeepsFile
<1>2. CASE L[h].mode # "file"
  <2>1. KeepsFile(d, L, e, N, h)
    BY <1>0, <1>2, <1>a DEF KeepsFile
  <2>2. Keeps(d, L, e, N)
    BY <1>a, <1>1, <2>1 DEF Keeps, SameFiles
  <2> QED BY <1>a, <2>2, KeepsHonour
<1>3. CASE L[h].mode = "file"
  <2>1. ASSUME NEW i \in 0..(L[h].size - 1)
        PROVE  At(e, N, h, i) \in PromiseOf(P, h).cells[i]
    <3> PICK from, l : from = (k - 1) * BlockCells + s.offset /\ l = Len(s.left)
      OBVIOUS
    <3>1. from \in Nat /\ l \in Nat /\ from + l = total /\ n \in Nat /\ n <= l
      BY <1>a, PlaceNumbers
    <3>2. i \in Nat /\ i \div BlockCells + 1 \in 1..Len(L[h].line)
      BY <1>a, PlaceOfCell
    <3>3. At(e, N, h, i) = IF i \in from..(from + n - 1) THEN s.left[i - from + 1] ELSE At(d, L, h, i)
      <4>1. IsFilling(s, d, L, h, k, total, n, e, N)
        OBVIOUS
      <4> QED BY ONLY <3>2, <4>1, FilledHere, from = (k - 1) * BlockCells + s.offset
    <3>4. CASE i \in from..(from + n - 1)
      <4>1. /\ call.first \in Nat /\ call.first <= total - l
            /\ \A j \in 1..l : s.left[j] = call.value
            /\ \A j \in call.first..(total - 1) : call.value \in PromiseOf(P, h).cells[j]
        BY <1>3 DEF Supplied
      <4> PICK f, j : f = call.first /\ j = i - from + 1
        OBVIOUS
      <4>2. j \in 1..l /\ i \in f..(total - 1)
        <5>1. f \in Nat /\ f <= total - l /\ total \in Nat
          BY <1>a, <4>1
        <5> QED BY ONLY <3>1, <3>2, <3>4, <5>1, j = i - from + 1
      <4> QED BY <3>3, <3>4, <4>1, <4>2
    <3>5. CASE i \notin from..(from + n - 1)
      <4>1. At(d, L, h, i) \in PromiseOf(P, h).cells[i]
        BY <1>a, <1>3 DEF Honours, Truthful
      <4> QED BY <3>3, <3>5, <4>1
    <3> QED BY <3>4, <3>5
  <2>2. ASSUME NEW g \in DOMAIN N PROVE Truthful(e, N, P, g)
    <3>0. g \in DOMAIN L /\ Truthful(d, L, P, g)
      BY <1>a DEF SameFiles, Honours
    <3>1. CASE g = h
      BY <1>0, <2>1, <3>0, <3>1 DEF Truthful
    <3>2. CASE g # h
      BY <1>0, <1>1, <3>0, <3>2 DEF Truthful, KeepsFile
    <3> QED BY <3>1, <3>2
  <2>3. ASSUME NEW g \in DOMAIN P PROVE g \in DOMAIN N /\ P[g].size \in Nat /\ P[g].size <= N[g].size
    BY <1>0 DEF Honours
  <2> QED BY <2>2, <2>3 DEF Honours
<1> QED BY <1>2, <1>3

\* What was written so far is in the file.
LEMMA FilledSupplied ==
  ASSUME NEW s, NEW d, NEW L, NEW h, NEW k, NEW total, NEW n, NEW e, NEW N,
         IsFilling(s, d, L, h, k, total, n, e, N),
         NEW call, Supplied(s, call, L, h, total),
         NEW t, t.v.device = e, t.left = SubSeq(s.left, n + 1, Len(s.left))
  PROVE  Supplied(t, call, N, h, total)
<1>a. /\ d = s.v.device /\ Heads(L) /\ h \in DOMAIN L /\ total \in Nat
      /\ AtPlace(s, L, h, total, k) /\ IsFill(s)
      /\ n \in 0..Len(s.left) /\ s.offset + n <= BlockCells
      /\ LinesKept(L, N) /\ SameFiles(L, N)
  BY DEF IsFilling
<1>b. \A i : i \in 1..Len(L[h].line) => i \in 1..Len(N[h].line)
  BY <1>a DEF LinesKept
<1>0. CASE L[h].mode # "file"
  BY <1>0, <1>a DEF Supplied, SameFiles
<1>1. CASE L[h].mode = "file"
  <2> PICK from, l, m, f : /\ from = (k - 1) * BlockCells + s.offset /\ l = Len(s.left)
                           /\ m = Len(t.left) /\ f = call.first
    OBVIOUS
  <2>1. from \in Nat /\ l \in Nat /\ from + l = total /\ n \in Nat /\ n <= l
    BY <1>a, PlaceNumbers
  <2>2. /\ f \in Nat /\ f <= total - l
        /\ \A j \in 1..l : s.left[j] = call.value
        /\ \A j \in f..(total - 1) : call.value \in PromiseOf(call.promise, h).cells[j]
        /\ \A i \in f..(total - l - 1) : i \div BlockCells + 1 \in 1..Len(L[h].line) /\ At(d, L, h, i) = call.value
    BY <1>1, <1>a DEF Supplied
  <2>3. m = l - n /\ \A j \in 1..m : t.left[j] = s.left[n + j] /\ n + j \in 1..l
    <3> PICK X : s.left \in Seq(X)
      BY <1>a DEF IsFill
    <3> PICK u, w : u = s.left /\ w = t.left
      OBVIOUS
    <3>1. u \in Seq(X) /\ w = SubSeq(u, n + 1, l) /\ l = Len(u) /\ m = Len(w)
      OBVIOUS
    <3>2. m = l - n
      BY ONLY <2>1, <3>1
    <3>3. \A j \in 1..m : w[j] = u[n + j] /\ n + j \in 1..l
      BY ONLY <2>1, <3>1, <3>2
    <3> QED BY <3>2, <3>3
  <2>f. f \in Nat /\ f <= total - l /\ total \in Nat /\ m = l - n
    BY <1>a, <2>2, <2>3
  <2>4. f <= total - m
    BY ONLY <2>1, <2>f
  <2>5. \A j \in 1..m : t.left[j] = call.value
    BY <2>2, <2>3
  <2>6. ASSUME NEW i \in f..(total - m - 1)
        PROVE  i \div BlockCells + 1 \in 1..Len(N[h].line) /\ At(e, N, h, i) = call.value
    <3>0. i \in Nat /\ from = total - l
      BY ONLY <2>1, <2>f, i \in f..(total - m - 1)
    <3>a. ASSUME i \div BlockCells + 1 \in 1..Len(L[h].line)
          PROVE  At(e, N, h, i) = IF i \in from..(from + n - 1) THEN s.left[i - from + 1] ELSE At(d, L, h, i)
      <4>1. IsFilling(s, d, L, h, k, total, n, e, N)
        OBVIOUS
      <4> QED BY ONLY <3>0, <3>a, <4>1, FilledHere, from = (k - 1) * BlockCells + s.offset
    <3>1. CASE i \in f..(total - l - 1)
      <4>1. i \div BlockCells + 1 \in 1..Len(L[h].line) /\ At(d, L, h, i) = call.value
        BY <2>2, <3>1
      <4>2. i \notin from..(from + n - 1)
        BY ONLY <2>1, <3>0, <3>1
      <4>3. At(e, N, h, i) = At(d, L, h, i)
        BY <3>a, <4>1, <4>2
      <4> QED BY <1>b, <4>1, <4>3
    <3>2. CASE i \notin f..(total - l - 1)
      <4>1. i \in from..(from + n - 1) /\ i - from + 1 \in 1..l
        BY ONLY <2>1, <2>f, <3>0, <3>2, i \in f..(total - m - 1)
      <4>2. i \div BlockCells + 1 \in 1..Len(L[h].line)
        <5> PICK q, j : q = k - 1 /\ j = i - q * BlockCells
          OBVIOUS
        <5>1. /\ q \in Nat /\ q + 1 \in 1..Len(L[h].line) /\ s.offset \in 0..(BlockCells - 1)
              /\ q * BlockCells \in Nat /\ BlockCells \in Nat
          <6>1. k \in 1..Len(L[h].line) /\ Len(L[h].line) \in Nat /\ s.offset \in 0..(BlockCells - 1)
            BY <1>a, HeadFacts DEF AtPlace
          <6>2. q \in Nat /\ q + 1 = k
            BY <6>1
          <6> QED BY <6>1, <6>2, Sizes
        <5> PICK o, b : o = s.offset /\ b = q * BlockCells
          OBVIOUS
        <5>2. from = b + o /\ o + n <= BlockCells
          BY <1>a
        <5>3. j \in 0..(BlockCells - 1) /\ i = b + j
          <6>1. j = i - b
            OBVIOUS
          <6>2. b \in Nat /\ BlockCells \in Nat /\ o \in 0..(BlockCells - 1) /\ n \in Nat
            BY <2>1, <5>1
          <6>3. i \in (b + o)..(b + o + n - 1) /\ i \in Nat
            BY <3>0, <4>1, <5>2
          <6> QED BY ONLY <5>2, <6>1, <6>2, <6>3
        <5>4. (q * BlockCells + j) \div BlockCells = q
          BY ONLY <5>1, <5>3, DivisionUnique
        <5> QED BY <5>1, <5>3, <5>4
      <4>3. At(e, N, h, i) = s.left[i - from + 1]
        BY <3>a, <4>1, <4>2
      <4> PICK j : j = i - from + 1
        OBVIOUS
      <4>4. s.left[j] = call.value
        BY <2>2, <4>1
      <4> QED BY <1>b, <4>2, <4>3, <4>4
    <3> QED BY <3>1, <3>2
  <2> QED BY <2>2, <2>4, <2>5, <2>6 DEF Supplied
<1> QED BY <1>0, <1>1

\* One block is filled.
LEMMA FillStep ==
  ASSUME NEW s, NEW hs, NEW call, NEW L, NEW E, NEW h, NEW total \in Nat,
         Filling(s, hs, call, L, E, h, total), h \in DOMAIN L, NEW coin,
         s.left # << >>, ~ s.stopped
  PROVE  \E N : /\ SameFiles(L, N)
                /\ Filling(FillBlock(s, coin), hs, call, N, E, h, total)
                /\ Shrinks(s, FillBlock(s, coin))
<1> PICK v, d : v = s.v /\ d = v.device
  OBVIOUS
<1>1. /\ IsFill(s) /\ GoodView(v, call, L, E) /\ v.handles = hs /\ Layout(d, L) /\ Heads(L)
      /\ Honours(d, L, call.promise) /\ Supplied(s, call, L, h, total)
  BY DEF Filling, GoodView, Layout
<1> PICK k : AtPlace(s, L, h, total, k)
  BY DEF Filling
<1>2. /\ k \in 1..Len(L[h].line) /\ s.at = L[h].line[k] /\ s.offset \in 0..(BlockCells - 1)
  BY DEF AtPlace
<1> PICK next, at, n : next = d.block[at].next_block /\ at = L[h].line[k] /\ n = Fit(s)
  OBVIOUS
<1>3. /\ at \in Blocks /\ at > 1 /\ next \in Blocks
      /\ next = NULL => k = Len(L[h].line)
      /\ next # NULL => k + 1 \in 1..Len(L[h].line) /\ next = L[h].line[k + 1]
  BY <1>1, <1>2, NextOfPlace
<1>4. /\ n \in 1..Len(s.left) /\ Len(s.left) \in Nat
      /\ s.offset + n <= BlockCells
      /\ Len(SubSeq(s.left, n + 1, Len(s.left))) = Len(s.left) - n
      /\ \E X : SubSeq(s.left, n + 1, Len(s.left)) \in Seq(X)
  BY <1>1, <1>2, FitFacts DEF IsFill
<1> PICK more : more = (n < Len(s.left))
  OBVIOUS
<1> PICK a : a = FollowingBlock(v, at, more, coin)
  OBVIOUS
<1>5. /\ GoodView(a, call, L, E) /\ a.handles = hs
      /\ SameData(d, a.device, L)
      /\ IF more /\ next = NULL THEN a.ret = NULL \/ Spare(a.device, L, a.ret)
         ELSE a.ret = next /\ a.device = d
  BY <1>1, <1>3, FollowingBlockView
<1>6. FillBlock(s, coin) =
        IF (more /\ a.ret = NULL) \/ Fails(a) THEN [s EXCEPT !.v = a, !.stopped = TRUE]
        ELSE FilledBlock(s, n, a)
  BY <1>2, FillBlockValue DEF Fit
<1>7. CASE (more /\ a.ret = NULL) \/ Fails(a)
  <2>1. SameFiles(L, L)
    BY DEF SameFiles
  <2> PICK t : t = [s EXCEPT !.v = a, !.stopped = TRUE]
    OBVIOUS
  <2>2. t.stopped = TRUE /\ Filling(t, hs, call, L, E, h, total)
    BY <1>1, <1>5, FullFilling, Zenon
  <2> QED BY <1>6, <1>7, <2>1, <2>2 DEF Shrinks
<1>8. CASE ~ ((more /\ a.ret = NULL) \/ Fails(a))
  <2> PICK t, x : /\ t = FilledBlock(s, n, a)
                  /\ x = [next_block |-> a.ret, cells |-> FilledCells(s, n)]
    OBVIOUS
  <2>0. FillBlock(s, coin) = t
    BY <1>6, <1>8
  <2>1. a.ret \in Blocks
    BY <1>3, <1>5, Sizes, Zenon DEF Spare
  <2>a. IsFilled(t, x, s, n, a, at)
    BY <1>2, <2>1, FilledBlockFacts
  <2>2. /\ IsBlock(x) /\ x.next_block = a.ret
        /\ t.v = Write(a, SetBlock(a.device, at, x))
        /\ t.at = a.ret /\ t.offset = 0 /\ t.left = SubSeq(s.left, n + 1, Len(s.left))
        /\ t.stopped = FALSE
    BY <2>a DEF IsFilled
  <2>3. Layout(a.device, L) /\ IsView(a) /\ Past(a, call) /\ Handling(hs, L, E)
    BY <1>5 DEF GoodView
  <2>4. KeepsShown(a.device, L, h, k, x)
    <3>1. n \in Nat
      BY <1>4
    <3> QED BY <1>5, <2>3, <3>1, FilledKeepsShown
  <2>5. PICK N : /\ SameFiles(L, N) /\ Heads(N) /\ LinesKept(L, N) /\ Layout(SetBlock(a.device, at, x), N)
                 /\ more => k + 1 \in 1..Len(N[h].line) /\ a.ret = N[h].line[k + 1]
                 /\ Len(L[h].line) \in Nat /\ Len(N[h].line) \in Nat
                 /\ Len(L[h].line) <= Len(N[h].line)
    <3>0. Len(L[h].line) \in Nat
      BY <1>1, HeadFacts
    <3>1. CASE more /\ next = NULL
      <4>1. Spare(a.device, L, a.ret) /\ k = Len(L[h].line)
        BY <1>3, <1>5, <1>8, <3>1, Zenon
      <4> PICK N, c : N = Longer(L, h, c) /\ c = a.ret
        OBVIOUS
      <4>2. Layout(SetBlock(a.device, at, x), N)
        <5> PICK y : y = a.device
          OBVIOUS
        <5>1. Layout(y, L) /\ Spare(y, L, c) /\ KeepsShown(y, L, h, k, x) /\ IsBlock(x) /\ x.next_block = c
          BY <2>2, <2>3, <2>4, <4>1, Zenon
        <5>2. Layout(SetBlock(y, L[h].line[k], x), Longer(L, h, c))
          BY ONLY <4>1, <5>1, ExtendLayout, h \in DOMAIN L
        <5> QED BY <5>2
      <4>3. /\ SameFiles(L, N) /\ Heads(N) /\ Len(N[h].line) = k + 1 /\ N[h].line[k + 1] = c
            /\ \A g \in DOMAIN L \ {h} : N[g] = L[g]
            /\ \A i \in 1..k : N[h].line[i] = L[h].line[i]
        <5>1. Heads(L) /\ c \in Blocks \ {NULL, BitmapBlock} /\ InNoFile(L, c)
          BY <1>1, <4>1 DEF Spare
        <5>2. LET M == Longer(L, h, c)
                  l == Len(L[h].line)
              IN  /\ SameFiles(L, M) /\ Heads(M)
                  /\ \A g \in DOMAIN L \ {h} : M[g] = L[g]
                  /\ \A i \in 1..l : M[h].line[i] = L[h].line[i]
                  /\ Len(M[h].line) = l + 1
                  /\ M[h].line[l + 1] = c
          BY ONLY <5>1, LongerFacts, h \in DOMAIN L
        <5> QED BY <4>1, <5>2, Zenon
      <4>4. k + 1 \in 1..(k + 1) /\ k + 1 \in Nat /\ k <= k + 1
        BY <1>2
      <4>5. LinesKept(L, N)
        <5> SUFFICES ASSUME NEW g \in DOMAIN L, NEW i \in 1..Len(L[g].line)
                     PROVE  i \in 1..Len(N[g].line) /\ N[g].line[i] = L[g].line[i]
          BY DEF LinesKept
        <5>1. CASE g = h
          <6>1. i \in 1..(k + 1)
            BY <3>0, <4>1, <5>1
          <6> QED BY <4>1, <4>3, <5>1, <6>1, Zenon
        <5>2. CASE g # h
          BY <4>3, <5>2, Zenon
        <5> QED BY <5>1, <5>2
      <4> QED BY <3>0, <4>1, <4>2, <4>3, <4>4, <4>5, Zenon
    <3>2. CASE ~ (more /\ next = NULL)
      <4>1. a.ret = next /\ a.device = d
        BY <1>5, <3>2
      <4>2. Layout(SetBlock(a.device, at, x), L)
        <5>1. /\ Layout(d, L) /\ KeepsShown(d, L, h, k, x) /\ IsBlock(x) /\ k \in 1..Len(L[h].line)
              /\ x.next_block = d.block[L[h].line[k]].next_block
          BY <1>2, <2>2, <2>3, <2>4, <4>1, Zenon
        <5>2. Layout(SetBlock(d, L[h].line[k], x), L)
          BY ONLY <5>1, FillLayout, h \in DOMAIN L
        <5> QED BY <4>1, <5>2
      <4>3. SameFiles(L, L)
        BY DEF SameFiles
      <4>4. more => k + 1 \in 1..Len(L[h].line) /\ a.ret = L[h].line[k + 1]
        BY <1>3, <3>2, <4>1
      <4>5. Len(L[h].line) <= Len(L[h].line)
        BY <3>0
      <4>6. LinesKept(L, L)
        BY DEF LinesKept
      <4> QED BY <1>1, <3>0, <4>2, <4>3, <4>4, <4>5, <4>6
    <3> QED BY <3>1, <3>2
  <2>6. Handling(hs, N, E)
    BY <2>3, <2>5, SameHandling
  <2> PICK e : e = SetBlock(a.device, at, x)
    OBVIOUS
  <2>b. OneFilled(e, d, L, h, k, s, n)
    <3>1. IsDevice(a.device) /\ \A c \in Blocks : e.block[c] = IF c = at THEN x ELSE a.device.block[c]
      <4> PICK y : y = a.device
        OBVIOUS
      <4>1. IsDevice(y)
        BY <2>3 DEF Layout
      <4>2. \A c \in Blocks : SetBlock(y, at, x).block[c] = IF c = at THEN x ELSE y.block[c]
        BY ONLY <1>3, <2>2, <4>1, BlockSet
      <4> QED BY <4>1, <4>2
    <3>2. ASSUME NEW g \in DOMAIN L, NEW i \in 1..Len(L[g].line), ~ (g = h /\ i = k)
          PROVE  e.block[L[g].line[i]] = d.block[L[g].line[i]]
      <4>1. L[g].line[i] \in Blocks
        BY <1>1, HeadFacts
      <4>2. L[g].line[i] # at
        BY <1>1, <1>2, <3>2 DEF Heads, Apart
      <4>3. a.device.block[L[g].line[i]] = d.block[L[g].line[i]]
        BY <1>5 DEF SameData
      <4> QED BY <3>1, <4>1, <4>2, <4>3, Zenon
    <3>3. e.block[at] = x
      BY <1>3, <3>1, Zenon
    <3>4. e.block[L[h].line[k]].cells = FilledCells(s, n)
      BY <2>2, <3>3
    <3> QED BY <3>2, <3>4, Zenon DEF OneFilled
  <2>c. n \in 0..Len(s.left) /\ s.offset + n <= BlockCells
    BY <1>4
  <2>f. IsFilling(s, d, L, h, k, total, n, e, N)
    BY <1>1, <2>5, <2>b, <2>c DEF IsFilling
  <2>d. Honours(e, N, call.promise)
    BY ONLY <1>1, <2>f, FilledHonours
  <2>7. GoodView(t.v, call, N, E) /\ t.v.handles = hs /\ t.v.device = e
    <3>0. e.root_dir_size = a.device.root_dir_size
      <4> PICK y : y = a.device
        OBVIOUS
      <4>1. IsDevice(y)
        BY <2>3 DEF Layout
      <4>2. SetBlock(y, at, x).root_dir_size = y.root_dir_size
        BY ONLY <1>3, <2>2, <4>1, BlockSet
      <4> QED BY <4>2
    <3>1. ViewIs(Write(a, e), call, N, E, e, a.handles, a.ret)
      BY <1>5, <2>3, <2>5, <2>6, <2>d, <3>0, WriteView
    <3> QED BY <1>5, <2>2, <3>1, Zenon DEF ViewIs
  <2>e. Supplied(t, call, N, h, total)
    <3>1. t.v.device = e /\ t.left = SubSeq(s.left, n + 1, Len(s.left))
      BY <2>2, <2>7
    <3> QED BY ONLY <1>1, <2>f, <3>1, FilledSupplied
  <2>8. IsFill(t)
    BY <1>4, <2>a DEF IsFill, IsFilled
  <2>9. CASE more
    <3>1. AtPlace(t, N, h, total, k + 1)
      <4>1. /\ Fit(s) < Len(s.left)
            /\ k + 1 \in 1..Len(N[h].line) /\ t.at = N[h].line[k + 1] /\ t.offset = 0
            /\ t.left = SubSeq(s.left, Fit(s) + 1, Len(s.left))
            /\ SameFiles(L, N) /\ Heads(N)
        BY <2>2, <2>5, <2>9
      <4>2. AtPlace(s, L, h, total, k)
        OBVIOUS
      <4> QED BY ONLY <1>1, <4>1, <4>2, NextPlace, total \in Nat, h \in DOMAIN L, s.left # << >>
    <3>2. t.left # << >> /\ Len(t.left) < Len(s.left)
      <4> PICK l, m : l = Len(s.left) /\ m = Len(t.left)
        OBVIOUS
      <4>1. m = l - n /\ n \in 1..l /\ l \in Nat /\ n < l
        BY <1>4, <2>2, <2>9, Zenon
      <4>2. m > 0 /\ m < l
        BY ONLY <4>1
      <4> QED BY <4>2
    <3> QED BY <2>0, <2>5, <2>7, <2>8, <2>e, <3>1, <3>2 DEF Filling, Shrinks
  <2>10. CASE ~ more
    <3>1. t.left = << >> /\ n = Len(s.left)
      <4> PICK l : l = Len(s.left)
        OBVIOUS
      <4>1. n \in 1..l /\ l \in Nat /\ ~ (n < l)
        BY <1>4, <2>10
      <4>2. n = l
        BY ONLY <4>1
      <4>3. Len(t.left) = l - n /\ \E X : t.left \in Seq(X)
        BY <1>4, <2>2
      <4>4. Len(t.left) = 0
        BY <4>1, <4>2, <4>3
      <4>5. t.left = << >>
        BY ONLY <4>3, <4>4
      <4> QED BY <4>2, <4>5
    <3>2. total <= Len(N[h].line) * BlockCells
      <4> PICK l, o, m : l = Len(N[h].line) /\ o = s.offset /\ m = Len(L[h].line)
        OBVIOUS
      <4>1. (k - 1) * BlockCells + o + n = total
        BY <3>1 DEF AtPlace
      <4>2. k \in Nat /\ k > 0 /\ k <= l /\ l \in Nat
        BY <1>2, <2>5
      <4>3. o \in Nat /\ n \in Nat /\ o + n <= BlockCells
        BY <1>2, <1>4, Sizes
      <4>4. (k - 1) * BlockCells \in Nat /\ k * BlockCells = (k - 1) * BlockCells + BlockCells
            /\ k * BlockCells <= l * BlockCells
        BY ONLY <4>2, BlocksBefore
      <4>5. total <= k * BlockCells
        BY ONLY <4>1, <4>3, <4>4, Sizes, total \in Nat
      <4>6. k * BlockCells \in Nat /\ l * BlockCells \in Nat
        BY ONLY <4>2, Sizes
      <4> QED BY ONLY <4>4, <4>5, <4>6, total \in Nat, l = Len(N[h].line)
    <3> QED BY <2>0, <2>5, <2>7, <2>8, <2>e, <3>1, <3>2 DEF Filling, Shrinks
  <2> QED BY <2>9, <2>10
<1> QED BY <1>7, <1>8

Fills(f, s, coin, N) ==
  f = [i \in 0..N |-> IF i = 0 THEN s ELSE FillBlock(f[i - 1], coin)]

\* The rounds of the loop of tfsWriteFile, as the recursion spells them.
LEMMA FillsExist ==
  ASSUME NEW N \in Nat, NEW s, NEW coin
  PROVE  \E f : Fills(f, s, coin, N)
<1> DEFINE holds == {k \in 0..N : \E f : Fills(f, s, coin, k)}
<1>1. 0 \in holds
  <2> DEFINE f == [i \in 0..0 |-> s]
  <2>1. Fills(f, s, coin, 0)
    BY DEF Fills
  <2> HIDE DEF f
  <2> QED BY <2>1
<1>2. ASSUME NEW k \in 1..N, k - 1 \in holds PROVE k \in holds
  <2> PICK f : Fills(f, s, coin, k - 1)
    BY <1>2
  <2> PICK x : x = FillBlock(f[k - 1], coin)
    OBVIOUS
  <2> DEFINE g == [i \in 0..k |-> IF i = k THEN x ELSE f[i]]
  <2>1. ASSUME NEW i \in 0..k PROVE g[i] = IF i = 0 THEN s ELSE FillBlock(g[i - 1], coin)
    <3>1. CASE i = k
      BY <3>1
    <3>2. CASE i # k
      BY <3>2 DEF Fills
    <3> QED BY <3>1, <3>2
  <2>2. g = [i \in 0..k |-> g[i]]
    OBVIOUS
  <2> HIDE DEF g
  <2>3. Fills(g, s, coin, k)
    BY <2>1, <2>2 DEF Fills
  <2> QED BY <2>3
<1> HIDE DEF holds
<1>3. 0..N \subseteq holds
  BY <1>1, <1>2, UpTo
<1> QED BY <1>3 DEF holds

\* The loop of tfsWriteFile is its n rounds, one after the other.
LEMMA FillBlocksValue ==
  ASSUME NEW s, NEW n \in Nat, NEW coin
  PROVE  \E f : Fills(f, s, coin, n) /\ FillBlocks(s, n, coin) = f[n]
<1> DEFINE After == CHOOSE f : Fills(f, s, coin, n)
<1>1. FillBlocks(s, n, coin) = After[n]
  BY DEF FillBlocks, Fills
<1>2. Fills(After, s, coin, n)
  BY FillsExist
<1> HIDE DEF After
<1> QED BY <1>1, <1>2

SameButLines(L, N, s, hs, call, E, h, total) ==
  SameFiles(L, N) /\ Filling(s, hs, call, N, E, h, total)

\* Files that only got more blocks, twice.
LEMMA SameFilesOften ==
  ASSUME NEW L, NEW M, NEW N, SameFiles(L, M), SameFiles(M, N)
  PROVE  SameFiles(L, N)
BY DEF SameFiles

\* All the data are written, or the volume is full.
LEMMA FillBlocksDone ==
  ASSUME NEW s, NEW hs, NEW call, NEW L, NEW E, NEW h, NEW total \in Nat,
         Filling(s, hs, call, L, E, h, total), h \in DOMAIN L, NEW coin,
         NEW n \in Nat, Len(s.left) <= n
  PROVE  \E N : LET t == FillBlocks(s, n, coin)
                IN  SameButLines(L, N, t, hs, call, E, h, total) /\ (t.stopped \/ t.left = << >>)
<1> PICK f : Fills(f, s, coin, n) /\ FillBlocks(s, n, coin) = f[n]
  BY FillBlocksValue
<1> DEFINE Ok(t, m) == /\ \E N : SameButLines(L, N, t, hs, call, E, h, total)
                       /\ t.stopped \/ t.left = << >> \/ Len(t.left) <= n - m
           holds == {m \in 0..n : Ok(f[m], m)}
<1>0. f[0] = s /\ \A m \in 1..n : f[m] = FillBlock(f[m - 1], coin)
  <2>1. \A m \in 0..n : f[m] = IF m = 0 THEN s ELSE FillBlock(f[m - 1], coin)
    BY DEF Fills
  <2> QED BY <2>1
<1>1. 0 \in holds
  <2>1. SameFiles(L, L)
    BY DEF SameFiles
  <2>2. SameButLines(L, L, f[0], hs, call, E, h, total)
    BY <1>0, <2>1 DEF SameButLines
  <2>3. Len(f[0].left) <= n - 0
    BY <1>0
  <2> QED BY <2>2, <2>3
<1>2. ASSUME NEW m \in 1..n, m - 1 \in holds PROVE m \in holds
  <2> PICK t, u : t = f[m - 1] /\ u = f[m]
    OBVIOUS
  <2>1. u = FillBlock(t, coin)
    BY <1>0
  <2>2. Ok(t, m - 1)
    BY <1>2
  <2>3. PICK M : SameFiles(L, M) /\ Filling(t, hs, call, M, E, h, total)
    BY <2>2 DEF SameButLines
  <2>4. CASE t.left = << >> \/ t.stopped
    <3>1. u = t
      BY <2>1, <2>4, Zenon DEF FillBlock
    <3>2. Ok(u, m)
      BY <2>2, <2>4, <3>1
    <3> QED BY <3>2
  <2>5. CASE t.left # << >> /\ ~ t.stopped
    <3>1. h \in DOMAIN M
      BY <2>3 DEF SameFiles
    <3>2. PICK N : SameFiles(M, N) /\ Filling(u, hs, call, N, E, h, total) /\ Shrinks(t, u)
      BY <2>1, <2>3, <2>5, <3>1, FillStep
    <3>3. SameButLines(L, N, u, hs, call, E, h, total)
      BY <2>3, <3>2, SameFilesOften DEF SameButLines
    <3>4. Len(t.left) <= n - (m - 1) /\ Len(t.left) \in Nat
      BY <2>2, <2>3, <2>5 DEF Filling, IsFill
    <3>5. u.stopped \/ u.left = << >> \/ (Len(u.left) < Len(t.left) /\ Len(u.left) \in Nat)
      BY <3>2 DEF Shrinks, Filling, IsFill
    <3>6. u.stopped \/ u.left = << >> \/ Len(u.left) <= n - m
      BY <3>4, <3>5
    <3> QED BY <3>3, <3>6
  <2> QED BY <2>4, <2>5
<1>3. Ok(f[n], n)
  <2> HIDE DEF Ok
  <2>1. 0..n \subseteq holds
    <3> HIDE DEF holds
    <3> QED BY <1>1, <1>2, UpTo
  <2> QED BY <2>1
<1>4. PICK N : SameButLines(L, N, f[n], hs, call, E, h, total)
  BY <1>3
<1>5. f[n].stopped \/ f[n].left = << >>
  <2>1. \E X : f[n].left \in Seq(X)
    BY <1>4 DEF SameButLines, Filling, IsFill
  <2>2. f[n].stopped \/ f[n].left = << >> \/ Len(f[n].left) <= n - n
    BY <1>3
  <2> QED BY <2>1, <2>2
<1> QED BY <1>4, <1>5

\* The cell is in the file at this place, unless the device fails, and a spare block is so
\* still.
CellWritten(t, s, hs, call, L, E, h, total, cell) ==
  /\ Filling(t, hs, call, L, E, h, total)
  /\ t.v.failures = s.v.failures
  /\ IF Fails(s.v) THEN t.stopped
     ELSE ~ t.stopped /\ t.left = << >> /\ At(t.v.device, L, h, total - 1) = cell
  /\ \A b : Spare(s.v.device, L, b) => Spare(t.v.device, L, b)

\* A write of a single cell takes no block.
LEMMA OneCellWritten ==
  ASSUME NEW s, NEW hs, NEW call, NEW L, NEW E, NEW h, NEW total \in Nat,
         Filling(s, hs, call, L, E, h, total), h \in DOMAIN L, NEW coin,
         Len(s.left) = 1, s.left # << >>, ~ s.stopped, NEW cell, cell = s.left[1]
  PROVE  CellWritten(FillBlock(s, coin), s, hs, call, L, E, h, total, cell)
<1> PICK v, d : v = s.v /\ d = v.device
  OBVIOUS
<1>1. /\ IsFill(s) /\ GoodView(v, call, L, E) /\ v.handles = hs /\ Layout(d, L) /\ Heads(L)
      /\ IsDevice(d) /\ Honours(d, L, call.promise) /\ Supplied(s, call, L, h, total)
  BY DEF Filling, GoodView, Layout
<1> PICK k : AtPlace(s, L, h, total, k)
  BY DEF Filling
<1>2. /\ k \in 1..Len(L[h].line) /\ s.at = L[h].line[k] /\ s.offset \in 0..(BlockCells - 1)
  BY DEF AtPlace
<1> PICK next, at, o : next = d.block[at].next_block /\ at = L[h].line[k] /\ o = s.offset
  OBVIOUS
<1>3. at \in Blocks /\ at > 1 /\ next \in Blocks
  BY <1>1, <1>2, NextOfPlace
<1>4. Fit(s) = 1
  <2> PICK n : n = Fit(s)
    OBVIOUS
  <2>1. n \in 1..1
    BY <1>1, <1>2, FitFacts DEF IsFill
  <2> QED BY <2>1
<1> PICK a : a = FollowingBlock(v, at, FALSE, coin)
  OBVIOUS
<1>5. /\ GoodView(a, call, L, E) /\ a.handles = hs /\ a.ret = next /\ a.device = d
      /\ a.failures = v.failures /\ Fails(a) = Fails(v)
  <2>1. a = Return(v, next)
    BY DEF FollowingBlock
  <2>2. /\ ViewIs(Return(v, next), call, L, E, v.device, v.handles, next)
        /\ Return(v, next).failures = v.failures /\ Return(v, next).writes = v.writes
    BY ONLY <1>1, ReturnView
  <2>3. a.failures = v.failures /\ a.writes = v.writes
    BY <2>1, <2>2
  <2>4. Fails(a) = Fails(v)
    BY <2>3 DEF Fails
  <2> QED BY <1>1, <2>1, <2>2, <2>3, <2>4 DEF ViewIs
<1>22. ASSUME Fails(v) PROVE CellWritten(FillBlock(s, coin), s, hs, call, L, E, h, total, cell)
  <2> PICK t : t = [s EXCEPT !.v = a, !.stopped = TRUE]
    OBVIOUS
  <2>1. FillBlock(s, coin) = t
    <3>1. (1 < Len(s.left)) = FALSE
      OBVIOUS
    <3>2. FillBlock(s, coin) = IF (1 < Len(s.left) /\ a.ret = NULL) \/ Fails(a)
                               THEN [s EXCEPT !.v = a, !.stopped = TRUE]
                               ELSE FilledBlock(s, 1, a)
      BY <1>2, <1>4, <3>1, FillBlockValue DEF Fit
    <3> QED BY <1>5, <1>22, <3>2
  <2>2. t.stopped = TRUE /\ Filling(t, hs, call, L, E, h, total)
    BY <1>1, <1>5, FullFilling, Zenon
  <2>3. t.v = a
    BY <1>1 DEF IsFill
  <2> QED BY <1>5, <1>22, <2>1, <2>2, <2>3 DEF CellWritten
<1> SUFFICES ASSUME ~ Fails(v)
             PROVE  CellWritten(FillBlock(s, coin), s, hs, call, L, E, h, total, cell)
  BY <1>22
<1> PICK t, x : /\ t = FilledBlock(s, 1, a)
                /\ x = [next_block |-> a.ret, cells |-> FilledCells(s, 1)]
  OBVIOUS
<1>6. FillBlock(s, coin) = t
  <2>1. (1 < Len(s.left)) = FALSE
    OBVIOUS
  <2>2. FillBlock(s, coin) = IF (1 < Len(s.left) /\ a.ret = NULL) \/ Fails(a)
                             THEN [s EXCEPT !.v = a, !.stopped = TRUE]
                             ELSE FilledBlock(s, 1, a)
    BY <1>2, <1>4, <2>1, FillBlockValue DEF Fit
  <2> QED BY <1>5, <2>1, <2>2
<1>a. IsFilled(t, x, s, 1, a, at)
  BY <1>2, <1>3, <1>5, FilledBlockFacts
<1> PICK e : e = SetBlock(d, at, x)
  OBVIOUS
<1>7. /\ IsBlock(x) /\ x.next_block = next /\ x.cells = FilledCells(s, 1)
      /\ t.v = Write(a, e)
      /\ t.left = SubSeq(s.left, 2, 1)
      /\ t.stopped = FALSE
  <2>1. /\ IsBlock(x) /\ x.next_block = a.ret /\ x.cells = FilledCells(s, 1)
        /\ t.v = Write(a, SetBlock(a.device, at, x))
        /\ t.left = SubSeq(s.left, 1 + 1, Len(s.left))
        /\ t.stopped = FALSE
    BY <1>a DEF IsFilled
  <2>2. 1 + 1 = 2
    OBVIOUS
  <2> QED BY <1>5, <2>1, <2>2
<1>8. SameData(d, d, L)
  BY DEF SameData
<1>9. KeepsShown(d, L, h, k, x)
  BY <1>1, <1>8, FilledKeepsShown
<1>10. Layout(e, L)
  BY <1>1, <1>2, <1>7, <1>9, FillLayout
<1>17. \A c \in Blocks : e.block[c] = IF c = at THEN x ELSE d.block[c]
  BY <1>1, <1>3, <1>7, BlockSet
<1>b. OneFilled(e, d, L, h, k, s, 1)
  <2>1. ASSUME NEW g \in DOMAIN L, NEW i \in 1..Len(L[g].line), ~ (g = h /\ i = k)
        PROVE  e.block[L[g].line[i]] = d.block[L[g].line[i]]
    <3>1. L[g].line[i] \in Blocks
      BY <1>1, HeadFacts
    <3>2. L[g].line[i] # at
      BY <1>1, <1>2, <2>1 DEF Heads, Apart
    <3> QED BY <1>17, <3>1, <3>2
  <2>2. e.block[L[h].line[k]].cells = FilledCells(s, 1)
    BY <1>3, <1>7, <1>17, Zenon
  <2> QED BY <2>1, <2>2 DEF OneFilled
<1>c. IsFilling(s, d, L, h, k, total, 1, e, L)
  <2>1. 1 \in 0..Len(s.left)
    OBVIOUS
  <2>2. s.offset + 1 <= BlockCells
    BY <1>2, Sizes
  <2>3. LinesKept(L, L) /\ SameFiles(L, L)
    BY DEF LinesKept, SameFiles
  <2> QED BY <1>1, <1>b, <2>1, <2>2, <2>3 DEF IsFilling
<1>d. Honours(e, L, call.promise)
  BY ONLY <1>1, <1>c, FilledHonours
<1>11. /\ GoodView(t.v, call, L, E) /\ t.v.handles = hs /\ t.v.device = e
       /\ t.v.failures = v.failures
  <2>0. e.root_dir_size = a.device.root_dir_size
    <3>1. SetBlock(d, at, x).root_dir_size = d.root_dir_size
      BY ONLY <1>1, <1>3, <1>7, BlockSet
    <3> QED BY <1>5, <3>1
  <2>1. IsView(a) /\ Past(a, call) /\ Handling(hs, L, E)
    BY <1>5 DEF GoodView
  <2>2. ViewIs(Write(a, e), call, L, E, e, a.handles, a.ret) /\ Write(a, e).failures = a.failures
    BY ONLY <1>5, <1>10, <1>d, <2>0, <2>1, WriteView
  <2>3. t.v = Write(a, e) /\ a.handles = hs /\ a.failures = v.failures
    BY <1>5, <1>7
  <2> QED BY ONLY <2>2, <2>3 DEF ViewIs
<1>12. t.left = << >>
  <2>1. \E X : s.left \in Seq(X)
    BY <1>1 DEF IsFill
  <2> PICK X : s.left \in Seq(X)
    BY <2>1
  <2>2. SubSeq(s.left, 2, 1) = << >>
    OBVIOUS
  <2> QED BY <1>7, <2>2
<1>13. IsFill(t)
  <2>1. << >> \in Seq({})
    OBVIOUS
  <2> QED BY <1>7, <1>12, <1>a, <2>1 DEF IsFill, IsFilled
<1>14. k \in Nat /\ k > 0 /\ o \in Nat /\ k - 1 \in Nat /\ (k - 1) * BlockCells + o + 1 = total
  <2>1. (k - 1) * BlockCells + o + 1 = total
    BY DEF AtPlace
  <2>2. o \in Nat
    BY <1>2, Sizes
  <2>3. Len(L[h].line) \in Nat
    BY <1>1, HeadFacts
  <2>4. k \in Nat /\ k > 0 /\ k - 1 \in Nat
    BY <1>2, <2>3
  <2> QED BY <2>1, <2>2, <2>4
<1> PICK l, p : l = Len(L[h].line) /\ p = (k - 1) * BlockCells
  OBVIOUS
<1>15. total <= l * BlockCells
  <2>0. l \in Nat /\ k <= l /\ o \in 0..(BlockCells - 1)
    BY <1>1, <1>2, HeadFacts
  <2>1. p \in Nat /\ k * BlockCells = p + BlockCells /\ k * BlockCells <= l * BlockCells
    BY ONLY <1>14, <2>0, BlocksBefore, p = (k - 1) * BlockCells
  <2>2. l * BlockCells \in Nat
    BY ONLY <2>0, Sizes
  <2>3. p + o + 1 = total
    BY <1>14
  <2> QED BY ONLY <2>0, <2>1, <2>2, <2>3, Sizes
<1>16. total - 1 \in Nat /\ (total - 1) \div BlockCells = k - 1 /\ (total - 1) % BlockCells = o
  <2>1. p + o + 1 = total /\ p \in Nat
    BY ONLY <1>14, p = (k - 1) * BlockCells, Sizes
  <2>2. total - 1 = p + o
    BY ONLY <1>14, <2>1
  <2>3. p + o \in Nat /\ (p + o) \div BlockCells = k - 1 /\ (p + o) % BlockCells = o
    <3> PICK j : j = k - 1
      OBVIOUS
    <3>1. j \in Nat /\ o \in 0..(BlockCells - 1)
      BY <1>2, <1>14
    <3>2. j * BlockCells + o \in Nat /\ (j * BlockCells + o) \div BlockCells = j /\ (j * BlockCells + o) % BlockCells = o
      BY ONLY <3>1, DivisionUnique
    <3>3. p = j * BlockCells
      OBVIOUS
    <3> QED BY <3>2, <3>3
  <2> QED BY <2>2, <2>3
<1>18. e.marked = d.marked
  BY <1>1, <1>3, <1>7, BlockSet
<1>19. At(e, L, h, total - 1) = cell
  <2>1. (total - 1) \div BlockCells + 1 = k
    BY <1>14, <1>16
  <2>2. At(e, L, h, total - 1) = x.cells[o]
    BY <1>3, <1>16, <1>17, <2>1 DEF At
  <2>3. o \in 0..(BlockCells - 1) /\ o \in o..(o + 1 - 1) /\ o - o + 1 = 1
    BY <1>2, <1>14
  <2>4. FilledCells(s, 1)[o] = s.left[1]
    BY <2>3, Zenon DEF FilledCells
  <2> QED BY <1>7, <2>2, <2>4
<1>20. ASSUME NEW b, Spare(d, L, b) PROVE Spare(e, L, b)
  <2>1. b \in Blocks /\ b # at
    BY <1>2, <1>20 DEF Spare, InNoFile
  <2> QED BY <1>17, <1>18, <1>20, <2>1 DEF Spare
<1>21. Filling(t, hs, call, L, E, h, total)
  <2>1. Supplied(t, call, L, h, total)
    <3>1. t.v.device = e /\ t.left = SubSeq(s.left, 1 + 1, Len(s.left))
      <4>1. t.left = SubSeq(s.left, 1 + 1, Len(s.left))
        BY <1>a DEF IsFilled
      <4>2. t.v.device = e
        BY <1>11
      <4> QED BY ONLY <4>1, <4>2
    <3> QED BY ONLY <1>1, <1>c, <3>1, FilledSupplied
  <2> QED BY <1>7, <1>11, <1>12, <1>13, <1>15, <2>1 DEF Filling
<1> QED BY <1>6, <1>7, <1>11, <1>12, <1>19, <1>20, <1>21 DEF CellWritten
==============================================================================
