--------------------------- MODULE TomFSWriteProofs ---------------------------
(****************************************************************************)
(* tfsWriteFile and what it calls: the search for the entry of a file, the  *)
(* new size in it and in the handles, the block a write starts in, and the  *)
(* whole write, which either fails part of the way or leaves the cells as   *)
(* asked for and a size that covers them.                                   *)
(****************************************************************************)
EXTENDS TomFSLayoutProofs

\* What the last write of a call does, with the handles and the header in memory.
Put(v, hs, e) ==
  [device |-> e, handles |-> hs, root_dir_size |-> e.root_dir_size,
   writes |-> Append(v.writes, e), ret |-> v.ret, failures |-> v.failures]

ViewOf(d, hs, m, y, r, f) ==
  [device |-> d, handles |-> hs, root_dir_size |-> m, writes |-> y, ret |-> r, failures |-> f]

\* What a write leaves, field by field.
LEMMA WrittenFields ==
  ASSUME NEW d, NEW hs, NEW m, NEW y, NEW r, NEW f, NEW e, NEW z, z = ViewOf(d, hs, m, y, r, f)
  PROVE  Write(z, e) = ViewOf(e, hs, m, Append(y, e), r, f)
<1>1. Write(z, e) = [z EXCEPT !.device = e, !.writes = Append(y, e)]
  BY DEF Write, ViewOf
<1>2. [z EXCEPT !.device = e] = ViewOf(e, hs, m, y, r, f)
  BY DEF ViewOf
<1>3. [z EXCEPT !.device = e, !.writes = Append(y, e)] =
        [[z EXCEPT !.device = e] EXCEPT !.writes = Append(y, e)]
  BY DEF ViewOf
<1> QED BY <1>1, <1>2, <1>3 DEF ViewOf

\* It leaves a good view where the device has a layout.
LEMMA PutView ==
  ASSUME NEW v, NEW call, IsView(v), Past(v, call), NEW L, NEW E, NEW e, Layout(e, L), NEW hs,
         Handling(hs, L, E), Honours(e, L, call.promise)
  PROVE  ViewIs(Put(v, hs, e), call, L, E, e, hs, v.ret)
<1> PICK w, x : w = Put(v, hs, e) /\ x = v.writes
  OBVIOUS
<1>1. /\ w = [device |-> w.device, handles |-> w.handles, root_dir_size |-> w.root_dir_size,
              writes |-> w.writes, ret |-> w.ret, failures |-> w.failures]
      /\ w.device = e /\ w.handles = hs /\ w.root_dir_size = e.root_dir_size
      /\ w.writes = Append(x, e) /\ w.ret = v.ret /\ w.failures = v.failures
  BY DEF Put
<1>2. IsView(w)
  BY <1>1 DEF IsView
<1>3. GoodDevice(e, call.promise)
  BY DEF GoodDevice
<1> PICK S : x \in Seq(S) /\ \A d \in S : GoodDevice(d, call.promise)
  BY DEF Past
<1>4. Past(w, call)
  <2> PICK y, T : y = Append(x, e) /\ T = S \cup {e}
    OBVIOUS
  <2>1. x \in Seq(T) /\ e \in T
    OBVIOUS
  <2>2. y \in Seq(T) /\ y # << >> /\ y[Len(y)] = e
    BY ONLY <2>1, y = Append(x, e)
  <2>3. \A d \in T : GoodDevice(d, call.promise)
    BY <1>3
  <2> QED BY <1>1, <2>2, <2>3 DEF Past
<1>5. ViewIs(w, call, L, E, e, hs, v.ret)
  BY <1>1, <1>2, <1>4 DEF ViewIs, GoodView
<1> QED BY <1>5

\* A handle learns that its file has grown.
LEMMA SizedHandling ==
  ASSUME NEW hs, NEW L, NEW E, Handling(hs, L, E), Heads(L), NEW x \in Slots, IsOpen(hs, x),
         NEW h, h = hs[x].block_index, NEW n \in Nat, L[h].size <= n,
         n <= Len(L[h].line) * BlockCells
  PROVE  Handling([hs EXCEPT ![x].current_size = n], Resized(L, h, n), E)
<1> DEFINE ns == [hs EXCEPT ![x].current_size = n]
           M == Resized(L, h, n)
<1>1. hs \in [Slots -> HandleRecords] /\ HandleKept(hs, L, E, x)
  BY DEF Handling
<1>2. /\ ns \in [Slots -> HandleRecords]
      /\ \A y \in Slots : /\ ns[y].block_index = hs[y].block_index
                          /\ ns[y].directory = hs[y].directory
                          /\ ns[y].ref_count = hs[y].ref_count
                          /\ ns[y].current_size = IF y = x THEN n ELSE hs[y].current_size
  BY <1>1 DEF HandleRecords
<1>3. h \in DOMAIN L
  BY <1>1 DEF HandleKept
<1>4. /\ DOMAIN M = DOMAIN L
      /\ \A g \in DOMAIN L \ {h} : M[g] = L[g]
      /\ M[h].size = n /\ M[h].parent = L[h].parent
  BY <1>3, ResizedFacts
<1> HIDE DEF ns, M
<1>5. \A y : OpenIn(ns, y) = OpenIn(hs, y)
  BY <1>2 DEF OpenIn, IsOpen
<1>6. ASSUME NEW y \in Slots, IsOpen(ns, y) PROVE HandleKept(ns, M, E, y)
  <2>1. IsOpen(hs, y) /\ HandleKept(hs, L, E, y)
    BY <1>2, <1>6 DEF Handling, IsOpen
  <2> PICK b : b = hs[y].block_index
    OBVIOUS
  <2>2. b \in DOMAIN L /\ M[b].parent = L[b].parent
    BY <1>4, <2>1 DEF HandleKept
  <2>3. ns[y].current_size = M[b].size
    <3>1. CASE y = x
      BY <1>2, <1>4, <3>1
    <3>2. CASE y # x
      <4>1. b # h
        BY <2>1, <3>2 DEF Handling, OneHandleEach
      <4> QED BY <1>2, <1>4, <2>1, <2>2, <3>2, <4>1 DEF HandleKept
    <3> QED BY <3>1, <3>2
  <2>4. hs[y].directory \in Slots => ns[hs[y].directory].block_index = hs[hs[y].directory].block_index
    BY <1>2
  <2>5. /\ ns[y].block_index = b /\ ns[y].directory = hs[y].directory
        /\ ns[y].ref_count = hs[y].ref_count
    BY <1>2
  <2> QED BY <1>4, <1>5, <2>1, <2>2, <2>3, <2>4, <2>5 DEF HandleKept
<1>7. OneHandleEach(ns) /\ References(ns, E)
  BY <1>2 DEF Handling, OneHandleEach, References, IsOpen
<1>8. Handling(ns, M, E)
  BY <1>2, <1>6, <1>7 DEF Handling
<1> QED BY <1>8 DEF ns, M

\* More files change nothing for the handles.
LEMMA KeptHandling ==
  ASSUME NEW hs, NEW L, NEW M, NEW E, Handling(hs, L, E),
         \A g \in DOMAIN L : g \in DOMAIN M /\ M[g].size = L[g].size /\ M[g].parent = L[g].parent
  PROVE  Handling(hs, M, E)
<1>1. ASSUME NEW x \in Slots, IsOpen(hs, x) PROVE HandleKept(hs, M, E, x)
  <2>1. HandleKept(hs, L, E, x)
    BY <1>1 DEF Handling
  <2> QED BY <2>1 DEF HandleKept
<1> QED BY <1>1 DEF Handling

-----------------------------------------------------------------------------
SameBlocks(d, e, L, g) ==
  \A i \in 1..Len(L[g].line) : e.block[L[g].line[i]] = d.block[L[g].line[i]]

SizeSet(d, L, h, n, e) ==
  /\ Regrown(d, L, h, n, e)
  /\ \A i \in 1..Len(L[h].line) : e.block[L[h].line[i]] = d.block[L[h].line[i]]
  /\ \A g \in DOMAIN L : L[g].mode = "file" => SameBlocks(d, e, L, g)
  /\ \A b : Spare(d, L, b) => Spare(e, L, b)

\* A directory holds no entry of its own.
LEMMA ParentIsAnother ==
  ASSUME NEW L, Heads(L), NEW h \in DOMAIN L \ {RootDirectory}
  PROVE  L[h].parent # h
BY DEF Heads, IsPlaced

IsRead(cells, d, L, h) == cells = [i \in 0..(L[h].size - 1) |-> At(d, L, h, i)]

\* A file read from its first cell to its last.
LEMMA FileRead ==
  ASSUME NEW d, NEW L, Layout(d, L), NEW h \in DOMAIN L, NEW size, size = L[h].size
  PROVE  IsRead(Cells(d, h, size), d, L, h)
BY CellsOfFile DEF IsRead

EntriesFor(cells, h) == {i \in DOMAIN cells : IsEntry(cells[i]) /\ cells[i].block_index = h}

\* The entry of a file is the one cell of its directory with its first block.
LEMMA EntryFound ==
  ASSUME NEW d, NEW L, Layout(d, L), NEW h \in DOMAIN L \ {RootDirectory},
         NEW p, p = L[h].parent, NEW cells, IsRead(cells, d, L, p)
  PROVE  EntriesFor(cells, h) = {L[h].slot}
<1>1. Heads(L) /\ p \in DOMAIN L /\ L[p].mode = "dir" /\ L[h].slot \in 0..(L[p].size - 1)
  BY PlaceInDirectory DEF Layout
<1>2. h # 0
  BY <1>1, HeadFacts, Sizes
<1>3. At(d, L, p, L[h].slot) = EntryOf(L, h)
  BY DEF Layout, Entered
<1>4. IsEntry(EntryOf(L, h)) /\ EntryOf(L, h).block_index = h
  <2>1. L[h].mode \in {"file", "dir"}
    BY DEF Layout, Heads, IsHead
  <2> QED BY <2>1 DEF EntryOf, FileEntry, IsEntry
<1>5. ASSUME NEW i \in 0..(L[p].size - 1), IsEntry(At(d, L, p, i)), At(d, L, p, i).block_index = h
      PROVE  i = L[h].slot
  <2> PICK c : c = At(d, L, p, i)
    OBVIOUS
  <2>1. Known(c, L, p, i)
    BY <1>1 DEF Layout, Seen
  <2>2. IsEntry(c) /\ c.block_index = h
    BY <1>5
  <2>3. ~ \E name : c = FilenameEntry(name)
    <3>1. \A name : FilenameEntry(name).mode = "name"
      BY DEF FilenameEntry
    <3>2. c.mode # "name"
      BY <2>2 DEF IsEntry
    <3> QED BY ONLY <3>1, <3>2
  <2>4. c \notin Dots
    BY <1>2, <2>2 DEF Dots, FileEntry
  <2>5. PICK e \in DOMAIN L \ {RootDirectory} : L[e].parent = p /\ L[e].slot = i /\ c = EntryOf(L, e)
    BY <2>1, <2>3, <2>4 DEF Known
  <2>6. e = h
    BY <2>2, <2>5 DEF EntryOf, FileEntry
  <2> QED BY <2>5, <2>6
<1> QED BY <1>1, <1>3, <1>4, <1>5 DEF IsRead, EntriesFor

\* The record of a file with another size.
LEMMA EntryResized ==
  ASSUME NEW L, Heads(L), NEW h \in DOMAIN L, NEW n \in Nat, L[h].size <= n,
         n <= Len(L[h].line) * BlockCells
  PROVE  [EntryOf(L, h) EXCEPT !.file_size = n] = EntryOf(Resized(L, h, n), h)
<1> PICK M : M = Resized(L, h, n)
  OBVIOUS
<1>1. M[h].size = n /\ M[h].mode = L[h].mode /\ M[h].name = L[h].name
  BY ResizedFacts
<1> QED BY <1>1 DEF EntryOf, FileEntry

\* What tfsUpdateEntry writes.
LEMMA EntryWritten ==
  ASSUME NEW d, NEW L, Layout(d, L), NEW h \in DOMAIN L \ {RootDirectory},
         NEW n \in Nat, L[h].size <= n, n <= Len(L[h].line) * BlockCells,
         NEW k, k = L[h].slot \div BlockCells + 1, NEW at, at = L[L[h].parent].line[k],
         NEW e, e = [d EXCEPT !.block[at].cells[L[h].slot % BlockCells].file_size = n]
  PROVE  SizeSet(d, L, h, n, e)
<1> PICK p, j, b : p = L[h].parent /\ j = L[h].slot % BlockCells /\ b = d.block[at]
  BY Zenon
<1>1. Heads(L) /\ p \in DOMAIN L /\ L[p].mode = "dir" /\ L[h].slot \in 0..(L[p].size - 1) /\ p # h
      /\ IsDevice(d)
  BY PlaceInDirectory, ParentIsAnother, Zenon DEF Layout
<1>2. k \in 1..Len(L[p].line) /\ at \in Blocks /\ j \in 0..(BlockCells - 1) /\ L[h].slot \in Nat
  BY <1>1, PlaceOfCell, Zenon
<1>3. IsBlock(b)
  BY <1>1, <1>2, Zenon DEF IsDevice
<1> PICK c : c = [b.cells EXCEPT ![j].file_size = n]
  BY Zenon
<1> PICK x : x = [next_block |-> b.next_block, cells |-> c]
  BY Zenon
<1> PICK M : M = Resized(L, h, n)
  BY Zenon
<1>4. b.cells[j] = EntryOf(L, h)
  <2>1. At(d, L, p, L[h].slot) = EntryOf(L, h)
    BY Zenon DEF Layout, Entered
  <2> QED BY <2>1, Zenon DEF At
<1>5. [EntryOf(L, h) EXCEPT !.file_size = n] = EntryOf(M, h)
  BY <1>1, EntryResized, Zenon
<1>6. c = [i \in 0..(BlockCells - 1) |-> IF i = j THEN EntryOf(M, h) ELSE b.cells[i]]
  <2> PICK y, z, w : y = b.cells /\ z = EntryOf(L, h) /\ w = EntryOf(M, h)
    BY Zenon
  <2>1. y = [i \in 0..(BlockCells - 1) |-> y[i]]
    BY <1>3, Zenon DEF IsBlock
  <2>2. y[j] = z /\ [z EXCEPT !.file_size = n] = w /\ c = [y EXCEPT ![j].file_size = n]
    BY <1>4, <1>5, Zenon
  <2> HIDE DEF EntryOf
  <2>3. c = [y EXCEPT ![j] = [y[j] EXCEPT !.file_size = n]]
    BY <2>2, Zenon
  <2>4. c = [y EXCEPT ![j] = w]
    BY <2>2, <2>3, Zenon
  <2> QED BY ONLY <2>1, <2>4, y = b.cells, w = EntryOf(M, h), Zenon
<1>7. IsBlock(x) /\ x.next_block = b.next_block /\ x.cells = c
  <2>1. c = [i \in 0..(BlockCells - 1) |-> c[i]]
    BY <1>6, Zenon
  <2> QED BY <1>3, <2>1, Zenon DEF IsBlock
<1>8. e = SetBlock(d, at, x)
  <2> PICK m, f, r : m = d.marked /\ f = d.block /\ r = d.root_dir_size
    BY Zenon
  <2>1. d = [marked |-> m, block |-> f, root_dir_size |-> r] /\ f = [a \in Blocks |-> f[a]] /\ f[at] = b
    BY <1>1, Zenon DEF IsDevice
  <2>2. b = [next_block |-> b.next_block, cells |-> b.cells]
    BY <1>3, Zenon DEF IsBlock
  <2>3. [b EXCEPT !.cells[j].file_size = n] = x
    <3> PICK g, y : g = b.next_block /\ y = b.cells
      BY Zenon
    <3>1. b = [next_block |-> g, cells |-> y]
      BY <2>2, Zenon
    <3>2. [b EXCEPT !.cells[j].file_size = n] = [next_block |-> g, cells |-> [y EXCEPT ![j].file_size = n]]
      BY ONLY <3>1
    <3> QED BY <3>2, Zenon
  <2>4. e = [marked |-> m, block |-> [f EXCEPT ![at] = [b EXCEPT !.cells[j].file_size = n]], root_dir_size |-> r]
    <3>1. e = [d EXCEPT !.block[at].cells[j].file_size = n]
      BY Zenon
    <3> QED BY ONLY <2>1, <3>1
  <2>5. SetBlock(d, at, x) = [marked |-> m, block |-> [f EXCEPT ![at] = x], root_dir_size |-> r]
    BY ONLY <2>1 DEF SetBlock
  <2> QED BY <2>3, <2>4, <2>5, Zenon
<1>9. /\ IsDevice(e) /\ Linked(e, L)
      /\ e.root_dir_size = d.root_dir_size /\ e.marked = d.marked
      /\ \A g \in DOMAIN L : \A i \in 0..(L[g].size - 1) :
           At(e, L, g, i) = IF g = p /\ i \div BlockCells + 1 = k
                            THEN x.cells[i % BlockCells] ELSE At(d, L, g, i)
  <2>1. /\ Layout(d, L) /\ p \in DOMAIN L /\ k \in 1..Len(L[p].line) /\ IsBlock(x)
        /\ x.next_block = d.block[L[p].line[k]].next_block
    BY <1>1, <1>2, <1>7, Zenon
  <2> PICK f : f = SetBlock(d, L[p].line[k], x)
    BY Zenon
  <2>2. /\ IsDevice(f) /\ Linked(f, L)
        /\ f.root_dir_size = d.root_dir_size /\ f.marked = d.marked
        /\ \A g \in DOMAIN L : \A i \in 0..(L[g].size - 1) :
             At(f, L, g, i) = IF g = p /\ i \div BlockCells + 1 = k
                              THEN x.cells[i % BlockCells] ELSE At(d, L, g, i)
    BY ONLY <2>1, BlockOfFileSet, f = SetBlock(d, L[p].line[k], x)
  <2>3. f = e
    BY <1>8, Zenon
  <2> QED BY ONLY <2>2, <2>3
<1>b. e.marked = d.marked
  BY <1>9, Zenon
<1>10. \A a \in Blocks : e.block[a] = IF a = at THEN x ELSE d.block[a]
  <2>1. IsDevice(d) /\ at \in Blocks /\ IsBlock(x)
    BY <1>1, <1>2, <1>7, Zenon
  <2> PICK f : f = SetBlock(d, at, x)
    BY Zenon
  <2>2. \A a \in Blocks : f.block[a] = IF a = at THEN x ELSE d.block[a]
    BY ONLY <2>1, BlockSet, f = SetBlock(d, at, x)
  <2>3. f = e
    BY <1>8, Zenon
  <2> QED BY ONLY <2>2, <2>3
<1>11. ASSUME NEW g \in DOMAIN L, NEW i \in 0..(L[g].size - 1)
       PROVE  At(e, L, g, i) = IF h # RootDirectory /\ g = p /\ i = L[h].slot
                               THEN EntryOf(M, h) ELSE At(d, L, g, i)
  <2>1. At(e, L, g, i) = IF g = p /\ i \div BlockCells + 1 = k
                         THEN x.cells[i % BlockCells] ELSE At(d, L, g, i)
    BY <1>9, Zenon
  <2>2. i \in Nat /\ i % BlockCells \in 0..(BlockCells - 1) /\ i \div BlockCells \in Nat
    BY <1>1, PlaceOfCell, Division, Zenon
  <2>3. CASE g = p /\ i \div BlockCells + 1 = k
    <3>1. i \div BlockCells = L[h].slot \div BlockCells
      <4>1. L[h].slot \div BlockCells \in Nat
        BY <1>2, Division, Zenon
      <4> PICK q, r : q = i \div BlockCells /\ r = L[h].slot \div BlockCells
        BY Zenon
      <4>2. q \in Nat /\ r \in Nat /\ q + 1 = k /\ k = r + 1
        BY <2>2, <2>3, <4>1, Zenon
      <4>3. q = r
        BY ONLY <4>2
      <4> QED BY <4>3, Zenon
    <3>2. (i = L[h].slot) <=> (i % BlockCells = j)
      <4> PICK q, t, u, r : /\ q = i \div BlockCells /\ r = i % BlockCells
                            /\ u = L[h].slot /\ t = q * BlockCells
        BY Zenon
      <4>1. i = q * BlockCells + r
        BY ONLY <2>2, Division, q = i \div BlockCells /\ r = i % BlockCells
      <4>2. u = q * BlockCells + j
        BY <1>2, <3>1, Division, Zenon
      <4>3. t \in Nat /\ r \in Nat /\ j \in Nat
        <5>1. q \in Nat /\ r \in 0..(BlockCells - 1) /\ j \in 0..(BlockCells - 1)
          BY <1>2, <2>2, Zenon
        <5>2. q * BlockCells \in Nat /\ r \in Nat /\ j \in Nat
          BY ONLY <5>1, Sizes
        <5> QED BY <5>2, Zenon
      <4>4. i = t + r /\ u = t + j
        BY <4>1, <4>2, Zenon
      <4>5. (i = u) <=> (r = j)
        BY ONLY <4>3, <4>4
      <4> QED BY <4>5, Zenon
    <3>3. x.cells[i % BlockCells] = IF i % BlockCells = j THEN EntryOf(M, h) ELSE b.cells[i % BlockCells]
      BY <1>6, <1>7, <2>2, Zenon
    <3>4. At(d, L, g, i) = b.cells[i % BlockCells]
      BY <2>3, Zenon DEF At
    <3> QED BY <2>1, <2>3, <3>2, <3>3, <3>4, Zenon
  <2>4. CASE ~ (g = p /\ i \div BlockCells + 1 = k)
    BY <2>1, <2>4, Zenon
  <2> QED BY <2>3, <2>4, Zenon
<1>12. M[RootDirectory].size = L[RootDirectory].size
  <2>1. \A g \in DOMAIN L \ {h} : M[g] = L[g]
    <3>1. /\ Heads(L) /\ h \in DOMAIN L /\ n \in Nat /\ L[h].size <= n
          /\ n <= Len(L[h].line) * BlockCells
      BY <1>1, Zenon
    <3>2. \A g \in DOMAIN L \ {h} : Resized(L, h, n)[g] = L[g]
      BY ONLY <3>1, ResizedFacts
    <3> QED BY <3>2, Zenon
  <2> QED BY <1>1, <2>1, Zenon DEF Heads
<1>13. Regrown(d, L, h, n, e)
  <2>1. e.root_dir_size = M[RootDirectory].size
    BY <1>9, <1>12, Zenon DEF Layout, Entered
  <2>2. IsDevice(e) /\ Linked(e, L)
    BY <1>9, Zenon
  <2>3. \A g \in DOMAIN L : \A i \in 0..(L[g].size - 1) :
          At(e, L, g, i) = IF h # RootDirectory /\ g = L[h].parent /\ i = L[h].slot
                           THEN EntryOf(Resized(L, h, n), h) ELSE At(d, L, g, i)
    BY <1>11, Zenon
  <2>4. M = Resized(L, h, n)
    BY Zenon
  <2> QED BY ONLY <2>1, <2>2, <2>3, <2>4 DEF Regrown
<1>14. ASSUME NEW i \in 1..Len(L[h].line) PROVE e.block[L[h].line[i]] = d.block[L[h].line[i]]
  <2>1. L[h].line[i] \in Blocks
    <3>1. \A g \in DOMAIN L : \A m \in 1..Len(L[g].line) : L[g].line[m] \in Blocks
      BY ONLY <1>1, HeadFacts
    <3> QED BY <3>1, Zenon
  <2>2. L[h].line[i] # at
    <3>1. \A a \in 1..Len(L[h].line), b2 \in 1..Len(L[p].line) : L[h].line[a] = L[p].line[b2] => h = p
      BY <1>1, Zenon DEF Heads, Apart
    <3>2. at = L[p].line[k]
      BY Zenon
    <3> QED BY <1>1, <1>2, <3>1, <3>2, Zenon
  <2> QED BY <1>10, <2>1, <2>2, Zenon
<1>15. ASSUME NEW a, Spare(d, L, a) PROVE Spare(e, L, a)
  <2>1. a \in Blocks /\ a # at
    <3>1. a \in Blocks /\ \A i \in 1..Len(L[p].line) : L[p].line[i] # a
      BY <1>1, <1>15, Zenon DEF Spare, InNoFile
    <3>2. at = L[p].line[k]
      BY Zenon
    <3> QED BY <1>2, <3>1, <3>2, Zenon
  <2>2. e.block[a] = d.block[a]
    BY <1>10, <2>1, Zenon
  <2> QED BY <1>b, <1>15, <2>2, Zenon DEF Spare
<1>16. ASSUME NEW g \in DOMAIN L, L[g].mode = "file", NEW i \in 1..Len(L[g].line)
       PROVE  e.block[L[g].line[i]] = d.block[L[g].line[i]]
  <2>1. L[g].line[i] \in Blocks
    <3>1. \A f \in DOMAIN L : \A m \in 1..Len(L[f].line) : L[f].line[m] \in Blocks
      BY ONLY <1>1, HeadFacts
    <3> QED BY <3>1, Zenon
  <2>2. L[g].line[i] # at
    <3>1. \A a \in 1..Len(L[g].line), b2 \in 1..Len(L[p].line) : L[g].line[a] = L[p].line[b2] => g = p
      BY <1>1, Zenon DEF Heads, Apart
    <3>2. at = L[p].line[k] /\ g # p
      BY <1>1, <1>16, Zenon
    <3> QED BY <1>1, <1>2, <3>1, <3>2, Zenon
  <2> QED BY <1>10, <2>1, <2>2, Zenon
<1> QED BY <1>13, <1>14, <1>15, <1>16, Zenon DEF SizeSet, SameBlocks

SameOpen(ns, hs) == \A y \in Slots : ns[y].block_index = hs[y].block_index

\* A write of the new size, with the handle's.
Sizing(w, v, L, E, h, n) ==
  \E e, ns : /\ w = Put(v, ns, e)
             /\ SizeSet(v.device, L, h, n, e)
             /\ Handling(ns, Resized(L, h, n), E)
             /\ SameOpen(ns, v.handles)

\* The size of the root directory is in the header.
LEMMA RootSizeWritten ==
  ASSUME NEW d, NEW L, Layout(d, L), NEW h, h = RootDirectory,
         NEW n \in Nat, L[h].size <= n, n <= Len(L[h].line) * BlockCells,
         NEW e, e = SetRootSize(d, n)
  PROVE  SizeSet(d, L, h, n, e)
<1>1. IsDevice(d) /\ Heads(L) /\ h \in DOMAIN L
  BY DEF Layout, Heads
<1>2. IsDevice(e) /\ e.block = d.block /\ e.marked = d.marked /\ e.root_dir_size = n
  BY ONLY <1>1, RootSizeSet, e = SetRootSize(d, n), n \in Nat
<1>3. Resized(L, h, n)[h].size = n
  <2>1. Heads(L) /\ h \in DOMAIN L /\ n \in Nat /\ L[h].size <= n /\ n <= Len(L[h].line) * BlockCells
    BY <1>1
  <2> QED BY ONLY <2>1, ResizedFacts
<1>4. Linked(e, L)
  BY <1>2 DEF Layout, Linked, IsLinked
<1>5. Regrown(d, L, h, n, e)
  BY <1>2, <1>3, <1>4 DEF Regrown, At
<1> QED BY <1>2, <1>5 DEF SizeSet, SameBlocks, Spare

\* tfsUpdateEntry, where the handle of the directory is open.
LEMMA UpdateEntryValue ==
  ASSUME NEW v, NEW L, Layout(v.device, L), NEW h \in DOMAIN L \ {RootDirectory},
         NEW x \in Slots, v.handles[x].block_index = L[h].parent,
         v.handles[x].current_size = L[L[h].parent].size,
         NEW n \in Nat, L[h].size <= n, n <= Len(L[h].line) * BlockCells
  PROVE  \E e : UpdateEntry(v, x, h, n) = Write(v, e) /\ SizeSet(v.device, L, h, n, e)
<1> PICK d, p, z, t : d = v.device /\ p = L[h].parent /\ z = L[p].size /\ t = L[h].slot
  OBVIOUS
<1> DEFINE cells == Cells(d, p, z)
           found == EntriesFor(cells, h)
           where == Chain(d, p)[Min(found) \div BlockCells + 1]
<1>1. UpdateEntry(v, x, h, n) =
        IF found = {} THEN v
        ELSE Write(v, [d EXCEPT !.block[where].cells[Min(found) % BlockCells].file_size = n])
  BY DEF UpdateEntry, EntriesFor
<1>2. p \in DOMAIN L /\ Heads(L) /\ t \in Nat
  BY HeadFacts DEF Layout
<1>3. IsRead(cells, d, L, p) /\ Chain(d, p) = L[p].line
  <2>1. Layout(d, L) /\ p \in DOMAIN L /\ z = L[p].size
    BY <1>2
  <2>2. IsRead(Cells(d, p, z), d, L, p)
    BY ONLY <2>1, FileRead
  <2>3. Chain(d, p) = L[p].line
    BY ONLY <2>1, LinesOfLayout
  <2> QED BY <2>2, <2>3
<1> HIDE DEF cells
<1>4. found = {t}
  <2>1. Layout(d, L) /\ h \in DOMAIN L \ {RootDirectory} /\ p = L[h].parent /\ t = L[h].slot
    OBVIOUS
  <2>2. EntriesFor(cells, h) = {L[h].slot}
    BY ONLY <1>3, <2>1, EntryFound
  <2> QED BY <2>1, <2>2
<1> HIDE DEF found
<1>5. Min(found) = t
  <2>1. {t} \in SUBSET Nat /\ {t} # {}
    BY <1>2
  <2>2. Min({t}) \in {t}
    BY ONLY <2>1, LeastInSet
  <2> QED BY <1>4, <2>2
<1> PICK at, e : /\ at = L[p].line[t \div BlockCells + 1]
                 /\ e = [d EXCEPT !.block[at].cells[t % BlockCells].file_size = n]
  BY Zenon
<1>6. where = at
  BY <1>3, <1>5, Zenon
<1> HIDE DEF where
<1>7. UpdateEntry(v, x, h, n) = Write(v, e)
  BY <1>1, <1>4, <1>5, <1>6, Zenon
<1>8. SizeSet(d, L, h, n, e)
  <2> PICK k : k = L[h].slot \div BlockCells + 1
    BY Zenon
  <2>1. /\ Layout(d, L) /\ at = L[L[h].parent].line[k]
        /\ e = [d EXCEPT !.block[at].cells[L[h].slot % BlockCells].file_size = n]
        /\ h \in DOMAIN L \ {RootDirectory} /\ n \in Nat
        /\ L[h].size <= n /\ n <= Len(L[h].line) * BlockCells
    BY Zenon
  <2> QED BY ONLY <2>1, EntryWritten, k = L[h].slot \div BlockCells + 1, Zenon
<1> QED BY <1>7, <1>8, Zenon

\* A file's new size is written, wherever its entry is: what the device and the handles
\* have then.
LEMMA SetSizeValue ==
  ASSUME NEW v, NEW call, NEW L, NEW E, GoodView(v, call, L, E), NEW x \in Slots,
         IsOpen(v.handles, x), NEW h, h = v.handles[x].block_index, NEW n \in Nat,
         L[h].size < n, n <= Len(L[h].line) * BlockCells
  PROVE  Sizing(SetSize(v, x, n), v, L, E, h, n)
<1> PICK d, hs, ns, w : /\ d = v.device /\ hs = v.handles
                        /\ ns = [hs EXCEPT ![x].current_size = n]
                        /\ w = [v EXCEPT !.handles = ns]
  OBVIOUS
<1>1. /\ IsView(v) /\ Past(v, call) /\ Layout(d, L) /\ Heads(L) /\ Handling(hs, L, E)
      /\ hs \in [Slots -> HandleRecords]
  BY DEF GoodView, Layout, Handling
<1>2. HandleKept(hs, L, E, x)
  BY <1>1 DEF Handling
<1>3. h \in DOMAIN L /\ hs[x].current_size = L[h].size /\ L[h].size \in Nat /\ L[h].size <= n
  <2>1. h \in DOMAIN L /\ hs[x].current_size = L[h].size
    BY <1>2 DEF HandleKept
  <2>2. L[h].size \in Nat
    BY <1>1, <2>1, HeadFacts
  <2> QED BY <2>1, <2>2
<1>4. /\ w = [device |-> d, handles |-> ns, root_dir_size |-> v.root_dir_size,
              writes |-> v.writes, ret |-> v.ret, failures |-> v.failures]
      /\ w = [v EXCEPT !.handles[x].current_size = n]
      /\ v.root_dir_size = d.root_dir_size /\ ~ FailsUnnoticed(v)
  <2> PICK y, m, r, f : y = v.writes /\ m = v.root_dir_size /\ r = v.ret /\ f = v.failures
    OBVIOUS
  <2>1. /\ v = [device |-> d, handles |-> hs, root_dir_size |-> m, writes |-> y, ret |-> r, failures |-> f]
        /\ m = d.root_dir_size /\ f.ignored = {}
    BY <1>1 DEF IsView
  <2>2. w = [device |-> d, handles |-> ns, root_dir_size |-> m, writes |-> y, ret |-> r, failures |-> f]
    BY ONLY <2>1, w = [v EXCEPT !.handles = ns]
  <2>3. [v EXCEPT !.handles[x].current_size = n] =
          [device |-> d, handles |-> [hs EXCEPT ![x].current_size = n], root_dir_size |-> m,
           writes |-> y, ret |-> r, failures |-> f]
    BY ONLY <2>1
  <2> QED BY <2>1, <2>2, <2>3 DEF FailsUnnoticed
<1>6. w.device = d /\ w.handles = ns
  BY <1>4
<1>7. Handling(ns, Resized(L, h, n), E)
  <2>1. /\ Handling(hs, L, E) /\ Heads(L) /\ x \in Slots /\ IsOpen(hs, x)
        /\ h = hs[x].block_index /\ n \in Nat /\ L[h].size <= n /\ n <= Len(L[h].line) * BlockCells
    BY <1>1, <1>3
  <2> QED BY ONLY <2>1, SizedHandling, ns = [hs EXCEPT ![x].current_size = n]
<1>8. /\ SameOpen(ns, hs)
      /\ \A y \in Slots \ {x} : ns[y] = hs[y]
      /\ ns[x].directory = hs[x].directory
  BY <1>1 DEF SameOpen, HandleRecords
<1> PICK dir : dir = hs[x].directory
  OBVIOUS
<1>9. SetSize(v, x, n) = IF dir # NULL THEN UpdateEntry(w, dir, h, n)
                         ELSE WriteHeader([w EXCEPT !.root_dir_size = n])
  <2>1. ~ (n <= hs[x].current_size)
    BY <1>3
  <2>2. w = [v EXCEPT !.handles[x].current_size = n] /\ ~ FailsUnnoticed(v)
    BY <1>4
  <2> QED BY <2>1, <2>2 DEF SetSize
<1>10. CASE h = RootDirectory
  <2>1. dir = NULL
    BY <1>2, <1>10 DEF HandleKept
  <2> PICK e : e = SetRootSize(d, n)
    OBVIOUS
  <2>2. SizeSet(d, L, h, n, e)
    BY <1>1, <1>3, <1>10, RootSizeWritten
  <2>3. SetSize(v, x, n) = Put(v, ns, e)
    <3> PICK y, m, r, f : y = v.writes /\ m = v.root_dir_size /\ r = v.ret /\ f = v.failures
      OBVIOUS
    <3>1. m # n /\ IsDevice(d)
      BY <1>1, <1>3, <1>4, <1>10 DEF Layout, Entered
    <3>2. w = [device |-> d, handles |-> ns, root_dir_size |-> m, writes |-> y, ret |-> r, failures |-> f]
      BY <1>4
    <3> PICK z : z = [w EXCEPT !.root_dir_size = n]
      OBVIOUS
    <3>3. z = [device |-> d, handles |-> ns, root_dir_size |-> n, writes |-> y, ret |-> r, failures |-> f]
      BY ONLY <3>2, z = [w EXCEPT !.root_dir_size = n]
    <3>4. e = [d EXCEPT !.root_dir_size = n] /\ e.root_dir_size = n
      <4>1. e.root_dir_size = n
        BY ONLY <3>1, RootSizeSet, e = SetRootSize(d, n), n \in Nat
      <4> QED BY <4>1 DEF SetRootSize
    <3>5. WriteHeader(z) = Write(z, e)
      BY <1>4, <3>1, <3>3, <3>4 DEF WriteHeader
    <3>a. z = ViewOf(d, ns, n, y, r, f)
      BY <3>3 DEF ViewOf
    <3>6. Write(z, e) = ViewOf(e, ns, n, Append(y, e), r, f)
      BY ONLY <3>a, WrittenFields
    <3>7. SetSize(v, x, n) = WriteHeader(z)
      BY <1>9, <2>1
    <3> QED BY <3>4, <3>5, <3>6, <3>7 DEF Put, ViewOf
  <2> QED BY <1>7, <1>8, <2>2, <2>3 DEF Sizing
<1>11. CASE h # RootDirectory
  <2>1. dir \in Slots /\ hs[dir].block_index = L[h].parent /\ dir # NULL
    BY <1>2, <1>11, Sizes DEF HandleKept
  <2> PICK p : p = L[h].parent
    OBVIOUS
  <2>2. p # h /\ p \in DOMAIN L /\ p # 0
    <3>1. h \in DOMAIN L \ {RootDirectory}
      BY <1>3, <1>11
    <3>2. p # h
      BY <1>1, <3>1, ParentIsAnother
    <3>3. p \in DOMAIN L
      BY <1>1, <3>1, HeadFacts
    <3>4. p # 0
      BY <1>1, <3>3, HeadFacts, Sizes
    <3> QED BY <3>2, <3>3, <3>4
  <2>3. dir # x /\ IsOpen(hs, dir)
    BY <2>1, <2>2 DEF IsOpen
  <2>4. hs[dir].current_size = L[p].size
    <3>1. HandleKept(hs, L, E, dir)
      BY <1>1, <2>1, <2>3 DEF Handling
    <3> QED BY <2>1, <3>1 DEF HandleKept
  <2>5. w.handles[dir].block_index = p /\ w.handles[dir].current_size = L[p].size
    BY <1>6, <1>8, <2>1, <2>3, <2>4
  <2>6. PICK e : UpdateEntry(w, dir, h, n) = Write(w, e) /\ SizeSet(w.device, L, h, n, e)
    <3>1. /\ Layout(w.device, L) /\ h \in DOMAIN L \ {RootDirectory} /\ dir \in Slots
          /\ w.handles[dir].block_index = L[h].parent
          /\ w.handles[dir].current_size = L[L[h].parent].size
          /\ n \in Nat /\ L[h].size <= n /\ n <= Len(L[h].line) * BlockCells
      BY <1>1, <1>3, <1>6, <1>11, <2>1, <2>5
    <3> QED BY ONLY <3>1, UpdateEntryValue
  <2>7. SetSize(v, x, n) = Put(v, ns, e) /\ SizeSet(d, L, h, n, e)
    <3>1. SetSize(v, x, n) = Write(w, e) /\ SizeSet(d, L, h, n, e)
      BY <1>6, <1>9, <2>1, <2>6
    <3> PICK y, m, r, f : y = v.writes /\ m = v.root_dir_size /\ r = v.ret /\ f = v.failures
      OBVIOUS
    <3>2. e.root_dir_size = m
      <4>1. e.root_dir_size = Resized(L, h, n)[RootDirectory].size
        BY <3>1 DEF SizeSet, Regrown
      <4>2. Resized(L, h, n)[RootDirectory] = L[RootDirectory]
        BY <1>1, <1>3, <1>11, ResizedFacts DEF Heads
      <4> QED BY <1>1, <1>4, <4>1, <4>2 DEF Layout, Entered
    <3>3. w = [device |-> d, handles |-> ns, root_dir_size |-> m, writes |-> y, ret |-> r, failures |-> f]
      BY <1>4
    <3>a. w = ViewOf(d, ns, m, y, r, f)
      BY <3>3 DEF ViewOf
    <3>4. Write(w, e) = ViewOf(e, ns, m, Append(y, e), r, f)
      BY ONLY <3>a, WrittenFields
    <3> QED BY <3>1, <3>2, <3>4 DEF Put, ViewOf
  <2> QED BY <1>7, <1>8, <2>7 DEF Sizing
<1> QED BY <1>10, <1>11

\* Spare blocks are so still, while a file may have got a block more.
StaysSpare(d, L, e, N) == \A b : Spare(d, L, b) => Spare(e, N, b)

\* The block a write starts in.
Started(g, v, call, L, E, h, k, N) ==
  /\ SameFiles(L, N) /\ GoodView(g, call, N, E) /\ g.handles = v.handles
  /\ StaysSpare(v.device, L, g.device, N)
  /\ g.ret # NULL => k \in 1..Len(N[h].line) /\ g.ret = N[h].line[k]

\* A file's last block is linked to a spare one.
LEMMA LinkWritten ==
  ASSUME NEW d, NEW L, Layout(d, L), NEW h \in DOMAIN L, NEW c, Spare(d, L, c),
         NEW m, m = Len(L[h].line), NEW last, last = L[h].line[m],
         NEW e, e = [d EXCEPT !.block[last].next_block = c]
  PROVE  /\ Layout(e, Longer(L, h, c))
         /\ \A b : Spare(d, L, b) /\ b # c => Spare(e, Longer(L, h, c), b)
         /\ \A b \in Blocks : e.block[b].cells = d.block[b].cells
<1> PICK b, x, N : /\ b = d.block[last] /\ x = [next_block |-> c, cells |-> b.cells]
                   /\ N = Longer(L, h, c)
  OBVIOUS
<1>1. Heads(L) /\ IsDevice(d) /\ last \in Blocks /\ m \in Nat /\ m \in 1..m
  BY HeadFacts DEF Layout
<1>2. IsBlock(b) /\ c \in Blocks \ {NULL, BitmapBlock} /\ InNoFile(L, c)
  BY <1>1 DEF IsDevice, Spare
<1>3. IsBlock(x) /\ x.next_block = c /\ x.cells = b.cells
  <2>1. b.cells = [i \in 0..(BlockCells - 1) |-> b.cells[i]]
    BY <1>2, Zenon DEF IsBlock
  <2> QED BY <1>2, <2>1, Zenon DEF IsBlock
<1>4. e = SetBlock(d, last, x)
  <2> PICK r, f, s : r = d.marked /\ f = d.block /\ s = d.root_dir_size
    OBVIOUS
  <2>1. d = [marked |-> r, block |-> f, root_dir_size |-> s] /\ f = [a \in Blocks |-> f[a]] /\ f[last] = b
    BY <1>1 DEF IsDevice
  <2>2. [b EXCEPT !.next_block = c] = x
    <3> PICK g, y : g = b.next_block /\ y = b.cells
      BY Zenon
    <3>1. b = [next_block |-> g, cells |-> y] /\ x = [next_block |-> c, cells |-> y]
      BY <1>2, Zenon DEF IsBlock
    <3> QED BY ONLY <3>1
  <2>3. e = [marked |-> r, block |-> [f EXCEPT ![last] = [b EXCEPT !.next_block = c]], root_dir_size |-> s]
    <3>1. e = [d EXCEPT !.block[last].next_block = c]
      OBVIOUS
    <3> QED BY ONLY <2>1, <3>1
  <2>4. SetBlock(d, last, x) = [marked |-> r, block |-> [f EXCEPT ![last] = x], root_dir_size |-> s]
    BY ONLY <2>1 DEF SetBlock
  <2> QED BY ONLY <2>2, <2>3, <2>4
<1>5. KeepsShown(d, L, h, m, x)
  BY <1>3 DEF KeepsShown, At
<1>6. Layout(e, N)
  <2>1. /\ Layout(d, L) /\ h \in DOMAIN L /\ Spare(d, L, c) /\ m = Len(L[h].line)
        /\ IsBlock(x) /\ x.next_block = c /\ KeepsShown(d, L, h, m, x)
    BY <1>3, <1>5
  <2>2. Layout(SetBlock(d, L[h].line[m], x), Longer(L, h, c))
    BY ONLY <2>1, ExtendLayout
  <2> QED BY <1>4, <2>2
<1>7. ASSUME NEW a, Spare(d, L, a), a # c PROVE Spare(e, N, a)
  <2>1. /\ a \in Blocks \ {NULL, BitmapBlock} /\ InNoFile(L, a) /\ a \in d.marked
        /\ d.block[a].next_block = NULL
    BY <1>7 DEF Spare
  <2>2. a # last
    BY <1>1, <2>1 DEF InNoFile
  <2>3. e.block[a] = d.block[a] /\ e.marked = d.marked
    <3> PICK f : f = SetBlock(d, last, x)
      OBVIOUS
    <3>1. IsDevice(d) /\ last \in Blocks /\ IsBlock(x)
      BY <1>1, <1>3
    <3>2. /\ \A u \in Blocks : f.block[u] = IF u = last THEN x ELSE d.block[u]
          /\ f.marked = d.marked
      BY ONLY <3>1, BlockSet, f = SetBlock(d, last, x)
    <3> QED BY <1>4, <2>1, <2>2, <3>2, Zenon
  <2>4. InNoFile(N, a)
    <3> PICK n : n = Len(L[h].line)
      OBVIOUS
    <3>1. /\ SameFiles(L, N)
          /\ \A g \in DOMAIN L \ {h} : N[g] = L[g]
          /\ Len(N[h].line) = n + 1
          /\ \A i \in 1..n : N[h].line[i] = L[h].line[i]
          /\ N[h].line[n + 1] = c
      BY ONLY <1>1, <1>2, LongerFacts, h \in DOMAIN L, n = Len(L[h].line), N = Longer(L, h, c)
    <3> SUFFICES ASSUME NEW g \in DOMAIN N, NEW i \in 1..Len(N[g].line) PROVE N[g].line[i] # a
      BY DEF InNoFile
    <3>2. g \in DOMAIN L
      BY <3>1 DEF SameFiles
    <3>3. CASE g # h
      BY <2>1, <3>1, <3>2, <3>3 DEF InNoFile
    <3>4. CASE g = h
      <4>1. n \in Nat
        BY <1>1
      <4>2. i \in 1..n \/ i = n + 1
        BY <3>1, <3>4, <4>1
      <4> QED BY <1>7, <2>1, <3>1, <3>4, <4>2 DEF InNoFile
    <3> QED BY <3>3, <3>4
  <2> QED BY <2>1, <2>3, <2>4 DEF Spare
<1>8. ASSUME NEW a \in Blocks PROVE e.block[a].cells = d.block[a].cells
  <2> PICK f : f = SetBlock(d, last, x)
    OBVIOUS
  <2>1. IsDevice(d) /\ last \in Blocks /\ IsBlock(x)
    BY <1>1, <1>3
  <2>2. \A u \in Blocks : f.block[u] = IF u = last THEN x ELSE d.block[u]
    BY ONLY <2>1, BlockSet, f = SetBlock(d, last, x)
  <2>3. e = f /\ x.cells = d.block[last].cells
    BY <1>3, <1>4, Zenon
  <2>4. CASE a = last
    BY ONLY <2>2, <2>3, <2>4, a \in Blocks
  <2>5. CASE a # last
    BY ONLY <2>2, <2>3, <2>5, a \in Blocks
  <2> QED BY <2>4, <2>5
<1> QED BY <1>6, <1>7, <1>8

\* Where cells and sizes are the same, and the files only have more blocks, they hold what
\* was promised as before.
LEMMA SameCellsHonours ==
  ASSUME NEW d, NEW L, Heads(L), NEW e, NEW N, Heads(N), SameFiles(L, N), LinesKept(L, N),
         \A b \in Blocks : e.block[b].cells = d.block[b].cells, NEW P, Honours(d, L, P)
  PROVE  Honours(e, N, P)
<1>1. ASSUME NEW g \in DOMAIN L PROVE KeepsFile(d, L, e, N, g)
  <2>1. g \in DOMAIN N /\ N[g].mode = L[g].mode /\ N[g].size = L[g].size /\ L[g].size \in Nat
    BY HeadFacts DEF SameFiles
  <2>2. ASSUME NEW i \in 0..(L[g].size - 1) PROVE At(e, N, g, i) = At(d, L, g, i)
    <3> PICK j : j = i \div BlockCells + 1
      OBVIOUS
    <3>1. j \in 1..Len(L[g].line) /\ L[g].line[j] \in Blocks
      BY PlaceOfCell
    <3>2. N[g].line[j] = L[g].line[j]
      BY <3>1 DEF LinesKept
    <3>3. e.block[L[g].line[j]].cells = d.block[L[g].line[j]].cells
      BY <3>1
    <3> QED BY <3>2, <3>3 DEF At
  <2> QED BY <2>1, <2>2 DEF KeepsFile
<1>2. Keeps(d, L, e, N)
  BY <1>1 DEF Keeps, SameFiles
<1> QED BY <1>2, KeepsHonour

\* A longer file begins with the blocks it had.
LEMMA LongerKept ==
  ASSUME NEW L, Heads(L), NEW h \in DOMAIN L,
         NEW c \in Blocks \ {NULL, BitmapBlock}, InNoFile(L, c), NEW N, N = Longer(L, h, c)
  PROVE  Heads(N) /\ LinesKept(L, N)
<1> PICK n : n = Len(L[h].line)
  OBVIOUS
<1>1. /\ Heads(N)
      /\ \A g \in DOMAIN L \ {h} : N[g] = L[g]
      /\ Len(N[h].line) = n + 1
      /\ \A i \in 1..n : N[h].line[i] = L[h].line[i]
  BY LongerFacts
<1>2. n \in Nat
  BY HeadFacts
<1>3. ASSUME NEW g \in DOMAIN L, NEW i \in 1..Len(L[g].line)
      PROVE  i \in 1..Len(N[g].line) /\ N[g].line[i] = L[g].line[i]
  <2>1. CASE g = h
    <3>1. i \in 1..(n + 1) /\ i \in 1..n
      BY <1>2, <2>1
    <3> QED BY <1>1, <2>1, <3>1
  <2>2. CASE g # h
    BY <1>1, <2>2
  <2> QED BY <2>1, <2>2
<1> QED BY <1>1, <1>3 DEF LinesKept

\* The block behind a file's last one: a spare one that is taken, or none.
LEMMA ExtendView ==
  ASSUME NEW v, NEW call, NEW L, NEW E, GoodView(v, call, L, E), NEW h \in DOMAIN L, NEW coin,
         NEW m, m = Len(L[h].line), NEW last, last = L[h].line[m]
  PROVE  \E N : Started(Extend(v, last, coin), v, call, L, E, h, m + 1, N)
<1> PICK a, b : b = last + 1 /\ a = AllocateBlock(v, b, coin)
  OBVIOUS
<1>1. /\ Layout(v.device, L) /\ Heads(L) /\ last \in Blocks /\ m \in Nat
      /\ last \in Blocks \ {NULL, BitmapBlock}
  <2>1. Heads(L) /\ L[h].line \in Seq(Blocks \ {NULL, BitmapBlock}) /\ m \in 1..m
    BY HeadFacts DEF GoodView, Layout
  <2> QED BY <2>1 DEF GoodView
<1>2. b \in Nat /\ b > 1
  BY <1>1, Sizes
<1>3. Allocated(a, v, call, L, E)
  BY <1>2, AllocateBlockView
<1>4. Extend(v, last, coin) = IF a.ret = NULL \/ Fails(a) THEN Return(a, NULL)
                              ELSE Write(a, [a.device EXCEPT !.block[last].next_block = a.ret])
  BY DEF Extend
<1>5. CASE a.ret = NULL \/ Fails(a)
  <2>1. SameFiles(L, L)
    BY DEF SameFiles
  <2>2. StaysSpare(v.device, L, a.device, L)
    BY <1>3 DEF Allocated, SpareStill, StaysSpare
  <2> PICK w : w = Return(a, NULL)
    OBVIOUS
  <2>3. GoodView(a, call, L, E) /\ a.handles = v.handles
    BY <1>3 DEF Allocated
  <2>4. ViewIs(w, call, L, E, a.device, a.handles, NULL)
    BY ONLY <2>3, ReturnView, w = Return(a, NULL)
  <2>5. Started(w, v, call, L, E, h, m + 1, L)
    BY <2>1, <2>2, <2>3, <2>4 DEF ViewIs, Started
  <2> QED BY <1>4, <1>5, <2>5
<1>6. CASE ~ (a.ret = NULL \/ Fails(a))
  <2> PICK d, c, e, N : /\ d = a.device /\ c = a.ret /\ e = [d EXCEPT !.block[last].next_block = c]
                        /\ N = Longer(L, h, c)
    BY Zenon
  <2>1. /\ GoodView(a, call, L, E) /\ a.handles = v.handles /\ Spare(d, L, c)
        /\ SpareStill(v.device, d, L, c) /\ Layout(d, L) /\ Honours(d, L, call.promise)
    BY <1>3, <1>6, Zenon DEF Allocated, GoodView
  <2>2. /\ Layout(e, N) /\ \A x : Spare(d, L, x) /\ x # c => Spare(e, N, x)
        /\ \A b2 \in Blocks : e.block[b2].cells = d.block[b2].cells
    <3>1. Layout(d, L) /\ h \in DOMAIN L /\ Spare(d, L, c) /\ m = Len(L[h].line)
          /\ last = L[h].line[m] /\ e = [d EXCEPT !.block[last].next_block = c]
      BY <2>1, Zenon
    <3> QED BY ONLY <3>1, LinkWritten, N = Longer(L, h, c)
  <2>3. SameFiles(L, N) /\ Len(N[h].line) = m + 1 /\ N[h].line[m + 1] = c
    <3>1. Heads(L) /\ h \in DOMAIN L /\ c \in Blocks \ {NULL, BitmapBlock} /\ InNoFile(L, c)
      BY <1>1, <2>1, Zenon DEF Spare
    <3> QED BY ONLY <3>1, LongerFacts, N = Longer(L, h, c), m = Len(L[h].line)
  <2>7. Honours(e, N, call.promise)
    <3>1. Heads(L) /\ h \in DOMAIN L /\ c \in Blocks \ {NULL, BitmapBlock} /\ InNoFile(L, c)
      BY <1>1, <2>1 DEF Spare
    <3>2. Heads(N) /\ LinesKept(L, N)
      BY ONLY <3>1, LongerKept, N = Longer(L, h, c)
    <3> QED BY ONLY <2>1, <2>2, <2>3, <3>1, <3>2, SameCellsHonours
  <2> PICK w : w = Write(a, e)
    BY Zenon
  <2>4. ViewIs(w, call, N, E, e, a.handles, c)
    <3>1. IsView(a) /\ Past(a, call) /\ Handling(a.handles, N, E)
      BY <2>1, <2>3, SameHandling, Zenon DEF GoodView
    <3>2. e.root_dir_size = a.device.root_dir_size
      BY <2>1 DEF Layout, IsDevice
    <3>3. ViewIs(Write(a, e), call, N, E, e, a.handles, a.ret)
      BY ONLY <2>2, <2>7, <3>1, <3>2, WriteView
    <3> QED BY <3>3
  <2>5. StaysSpare(v.device, L, e, N)
    BY <2>1, <2>2, Zenon DEF SpareStill, StaysSpare
  <2>6. Started(w, v, call, L, E, h, m + 1, N)
    <3>1. m + 1 \in 1..(m + 1)
      <4>1. m \in Nat
        BY <1>1, Zenon
      <4> QED BY ONLY <4>1
    <3> QED BY <2>1, <2>3, <2>4, <2>5, <3>1, Zenon DEF Started, ViewIs
  <2> QED BY <1>4, <1>6, <2>6, Zenon
<1> QED BY <1>5, <1>6

\* Where a write that starts within the file or at its end begins.
LEMMA OffsetPlace ==
  ASSUME NEW o \in Nat, NEW m \in Nat, o <= m * BlockCells, NEW k, k = o \div BlockCells + 1,
         k \notin 1..m
  PROVE  k = m + 1 /\ o = m * BlockCells
<1> PICK q, r, t : q = o \div BlockCells /\ r = o % BlockCells /\ t = m * BlockCells
  OBVIOUS
<1>1. q \in Nat /\ r \in Nat /\ o = q * BlockCells + r
  BY Division, Sizes
<1>2. ~ (o < t)
  BY InsideBlocks
<1>3. t \in Nat
  BY Sizes
<1>4. o = t
  BY ONLY <1>2, <1>3, o \in Nat, o <= m * BlockCells, t = m * BlockCells
<1>5. o \div BlockCells = m
  <2>1. 0 \in 0..(BlockCells - 1)
    BY Sizes
  <2>2. (m * BlockCells + 0) \div BlockCells = m
    BY ONLY <2>1, DivisionUnique, m \in Nat
  <2>3. m * BlockCells + 0 = o
    BY ONLY <1>3, <1>4, t = m * BlockCells
  <2> QED BY <2>2, <2>3
<1> QED BY <1>4, <1>5

StartOf(v, first, offset, coin) ==
  LET chain == Chain(v.device, first)
      k     == offset \div BlockCells + 1
  IN  IF k \in DOMAIN chain THEN Return(v, chain[k])
      ELSE IF offset = Len(chain) * BlockCells THEN Extend(v, Last(chain), coin)
      ELSE Return(v, NULL)

\* The block a write starts in is the file's, or is taken for it, or there is none.
LEMMA StartView ==
  ASSUME NEW v, NEW call, NEW L, NEW E, GoodView(v, call, L, E), NEW h \in DOMAIN L, NEW coin,
         NEW o \in Nat, o <= L[h].size, NEW k, k = o \div BlockCells + 1
  PROVE  \E N : Started(StartOf(v, h, o, coin), v, call, L, E, h, k, N)
<1> PICK chain, m : chain = L[h].line /\ m = Len(chain)
  OBVIOUS
<1>1. /\ Layout(v.device, L) /\ Heads(L) /\ Chain(v.device, h) = chain
      /\ chain \in Seq(Blocks) /\ m \in Nat /\ m \in 1..m
      /\ L[h].size \in Nat /\ L[h].size <= m * BlockCells
  <2>1. Layout(v.device, L) /\ Heads(L) /\ h \in DOMAIN L
    BY DEF GoodView, Layout
  <2>2. Chain(v.device, h) = chain
    BY <2>1, LinesOfLayout
  <2>3. /\ chain \in Seq(Blocks) /\ m \in Nat /\ m \in 1..m
        /\ L[h].size \in Nat /\ L[h].size <= m * BlockCells
    BY <2>1, HeadFacts
  <2> QED BY <2>1, <2>2, <2>3
<1>2. DOMAIN chain = 1..m
  BY <1>1
<1>3. StartOf(v, h, o, coin) = IF k \in 1..m THEN Return(v, chain[k])
                               ELSE IF o = m * BlockCells THEN Extend(v, Last(chain), coin)
                               ELSE Return(v, NULL)
  BY <1>1, <1>2 DEF StartOf
<1>4. SameFiles(L, L)
  BY DEF SameFiles
<1>5. CASE k \in 1..m
  <2> PICK r, w : r = chain[k] /\ w = Return(v, r)
    OBVIOUS
  <2>1. ViewIs(w, call, L, E, v.device, v.handles, r)
    BY ReturnView
  <2>2. Started(w, v, call, L, E, h, k, L)
    BY <1>4, <1>5, <2>1 DEF Started, ViewIs, StaysSpare
  <2> QED BY <1>3, <1>5, <2>2
<1>6. CASE k \notin 1..m
  <2>1. k = m + 1 /\ o = m * BlockCells
    <3>1. o <= m * BlockCells
      <4>1. m * BlockCells \in Nat
        BY <1>1, Sizes
      <4> PICK t, z : t = m * BlockCells /\ z = L[h].size
        OBVIOUS
      <4>2. o \in Nat /\ z \in Nat /\ t \in Nat /\ o <= z /\ z <= t
        BY <1>1, <4>1
      <4>3. o <= t
        BY ONLY <4>2
      <4> QED BY <4>3
    <3> QED BY ONLY <1>1, <1>6, <3>1, OffsetPlace, o \in Nat, k = o \div BlockCells + 1
  <2> PICK last : last = chain[m]
    OBVIOUS
  <2>2. Last(chain) = last
    BY DEF Last
  <2>3. \E N : Started(Extend(v, last, coin), v, call, L, E, h, m + 1, N)
    BY ExtendView
  <2> QED BY <1>3, <1>6, <2>1, <2>2, <2>3
<1> QED BY <1>5, <1>6

-----------------------------------------------------------------------------
FillOf(start, offset, cells) ==
  [v |-> start, at |-> start.ret, offset |-> offset % BlockCells, left |-> cells, stopped |-> FALSE]

EndOf(filled, handle, offset, cells) ==
  IF filled.stopped THEN Return(filled.v, FAILED)
  ELSE Return(SetSize(filled.v, handle, offset + Len(cells)), Len(cells))

\* tfsWriteFile: the tests, the first block, the loop and the new size.
LEMMA WriteFileForm ==
  ASSUME NEW v, NEW x, NEW cells, NEW offset, NEW coin, NEW h, h = v.handles[x].block_index,
         NEW g, g = StartOf(v, h, offset, coin)
  PROVE  WriteFile(v, x, cells, offset, coin) =
           IF h = 0 \/ offset > v.handles[x].current_size THEN Return(v, FAILED)
           ELSE IF g.ret = NULL THEN Return(g, FAILED)
           ELSE EndOf(FillBlocks(FillOf(g, offset, cells), Len(cells), coin), x, offset, cells)
BY DEF WriteFile, StartOf, EndOf, FillOf

\* What is written to a file is one value, and is promised to be there.
Supplying(call, L, h, offset, cells) ==
  L[h].mode = "file" =>
    /\ call.first = offset
    /\ \A j \in 1..Len(cells) : cells[j] = call.value
    /\ \A i \in offset..(offset + Len(cells) - 1) :
         call.value \in PromiseOf(call.promise, h).cells[i]

\* The first block of the write is not filled yet.
LEMMA StartFilling ==
  ASSUME NEW v, NEW call, NEW L, NEW E, NEW g, NEW h \in DOMAIN L, NEW k, NEW N,
         Started(g, v, call, L, E, h, k, N), g.ret # NULL,
         NEW offset \in Nat, k = offset \div BlockCells + 1,
         L[h].mode = "dir" => L[h].size <= offset,
         NEW cells, \E X : cells \in Seq(X), cells # << >>, NEW total, total = offset + Len(cells),
         Supplying(call, L, h, offset, cells)
  PROVE  Filling(FillOf(g, offset, cells), v.handles, call, N, E, h, total)
<1> PICK s, r, n : s = FillOf(g, offset, cells) /\ r = offset % BlockCells /\ n = Len(cells)
  OBVIOUS
<1>1. s = [v |-> g, at |-> g.ret, offset |-> r, left |-> cells, stopped |-> FALSE]
  BY DEF FillOf
<1>2. s.v = g /\ s.at = g.ret /\ s.offset = r /\ s.left = cells /\ s.stopped = FALSE
  BY ONLY <1>1
<1>3. IsFill(s)
  BY <1>1, <1>2 DEF IsFill
<1>4. /\ SameFiles(L, N) /\ GoodView(g, call, N, E) /\ g.handles = v.handles
      /\ k \in 1..Len(N[h].line) /\ g.ret = N[h].line[k]
  BY DEF Started
<1>5. /\ r \in 0..(BlockCells - 1) /\ (k - 1) * BlockCells + r = offset /\ n \in Nat
      /\ (k - 1) * BlockCells + r + n = total
  <2> PICK q : q = offset \div BlockCells
    OBVIOUS
  <2>1. q \in Nat /\ r \in 0..(BlockCells - 1) /\ offset = q * BlockCells + r
    BY ONLY Division, offset \in Nat, q = offset \div BlockCells /\ TRUE, r = offset % BlockCells
  <2>2. k - 1 = q
    <3>1. k = q + 1
      OBVIOUS
    <3> QED BY ONLY <2>1, <3>1
  <2>3. (k - 1) * BlockCells + r = offset
    BY ONLY <2>1, <2>2
  <2>4. n \in Nat /\ total = offset + n
    OBVIOUS
  <2> QED BY ONLY <2>1, <2>3, <2>4
<1>6. N[h].mode = "dir" => N[h].size <= (k - 1) * BlockCells + r
  <2>1. N[h].mode = L[h].mode /\ N[h].size = L[h].size
    BY <1>4 DEF SameFiles
  <2> QED BY <1>5, <2>1
<1>7. AtPlace(s, N, h, total, k)
  <2>1. /\ k \in 1..Len(N[h].line) /\ s.at = N[h].line[k] /\ s.offset \in 0..(BlockCells - 1)
        /\ (k - 1) * BlockCells + s.offset + Len(s.left) = total
        /\ N[h].mode = "dir" => N[h].size <= (k - 1) * BlockCells + s.offset
    BY <1>2, <1>4, <1>5, <1>6
  <2> QED BY ONLY <2>1, PlaceSaid
<1>9. Supplied(s, call, N, h, total)
  <2> SUFFICES ASSUME N[h].mode = "file"
               PROVE  /\ call.first \in Nat /\ call.first <= total - n
                      /\ \A j \in 1..n : cells[j] = call.value
                      /\ \A i \in call.first..(total - 1) : call.value \in PromiseOf(call.promise, h).cells[i]
                      /\ \A i \in call.first..(total - n - 1) :
                           i \div BlockCells + 1 \in 1..Len(N[h].line) /\ At(s.v.device, N, h, i) = call.value
    BY <1>2 DEF Supplied
  <2>1. L[h].mode = "file"
    BY <1>4 DEF SameFiles
  <2>2. /\ call.first = offset
        /\ \A j \in 1..n : cells[j] = call.value
        /\ \A i \in offset..(offset + n - 1) : call.value \in PromiseOf(call.promise, h).cells[i]
    BY <2>1 DEF Supplying
  <2>3. total = offset + n /\ n \in Nat /\ total - n = offset
    BY <1>5
  <2>4. \A i : i \notin offset..(offset - 1)
    OBVIOUS
  <2>5. total - n - 1 = offset - 1
    BY <2>3
  <2> QED BY <2>2, <2>3, <2>4, <2>5
<1>8. Filling(s, v.handles, call, N, E, h, total)
  BY <1>2, <1>3, <1>4, <1>7, <1>9 DEF Filling
<1> QED BY <1>8

\* A write that succeeds has put its value in each of its cells.
Wrote(w, call, M, h, offset, n) ==
  w.ret = FAILED \/ (/\ h \in DOMAIN M /\ offset + n <= M[h].size
                     /\ \A i \in offset..(offset + n - 1) : At(w.device, M, h, i) = call.value)

\* Cells first up to last of a file are among those it is promised to hold.
InPromise(d, L, h, first, n, P) ==
  \A i \in first..(n - 1) : At(d, L, h, i) \in PromiseOf(P, h).cells[i]

\* Cells first up to last of a file are what they were.
StaysAt(d, L, e, M, h, first, n) ==
  \A i \in first..(n - 1) : At(e, M, h, i) = At(d, L, h, i)

\* What was written to a file, from cell first on, is promised, and its size is being set.
Growing(d, M, h, n, e, P, first) ==
  /\ Heads(M) /\ h \in DOMAIN M /\ M[h].mode = "file"
  /\ n \in Nat /\ M[h].size <= n /\ n <= Len(M[h].line) * BlockCells /\ n <= MaxFileCells
  /\ SizeSet(d, M, h, n, e) /\ Honours(d, M, P)
  /\ first \in Nat /\ first <= M[h].size /\ InPromise(d, M, h, first, n, P)

\* A file that has grown by what was written to it holds what was promised.
LEMMA GrownHonours ==
  ASSUME NEW d, NEW M, NEW h, NEW n, NEW e, NEW P, NEW first, Growing(d, M, h, n, e, P, first)
  PROVE  LET K == Resized(M, h, n)
         IN  /\ Honours(e, K, P) /\ h \in DOMAIN K /\ K[h].size = n
             /\ StaysAt(d, M, e, K, h, first, n)
<1> PICK K : K = Resized(M, h, n)
  OBVIOUS
<1>0. /\ Heads(M) /\ h \in DOMAIN M /\ M[h].mode = "file"
      /\ n \in Nat /\ M[h].size <= n /\ n <= Len(M[h].line) * BlockCells /\ n <= MaxFileCells
      /\ SizeSet(d, M, h, n, e) /\ Honours(d, M, P)
      /\ first \in Nat /\ first <= M[h].size /\ InPromise(d, M, h, first, n, P)
  BY DEF Growing
<1>1. /\ Heads(K) /\ DOMAIN K = DOMAIN M /\ \A g \in DOMAIN M \ {h} : K[g] = M[g]
      /\ K[h].line = M[h].line /\ K[h].size = n /\ K[h].mode = M[h].mode
  BY ONLY <1>0, ResizedFacts, K = Resized(M, h, n)
<1>2. \A g \in DOMAIN M : M[g].size \in Nat /\ Len(M[g].line) \in Nat
  BY <1>0, HeadFacts
<1>3. \A g \in DOMAIN M : M[g].mode = "file" => SameBlocks(d, e, M, g)
  BY <1>0 DEF SizeSet
<1>4. ASSUME NEW i \in 0..(n - 1) PROVE At(e, K, h, i) = At(d, M, h, i)
  <2> PICK j, l : j = i \div BlockCells + 1 /\ l = Len(M[h].line)
    OBVIOUS
  <2>1. i \in Nat /\ i < l * BlockCells /\ l \in Nat
    <3>1. l \in Nat /\ i \in Nat /\ n \in Nat /\ i < n /\ n <= l * BlockCells
      BY <1>0, <1>2
    <3>2. l * BlockCells \in Nat
      BY ONLY <3>1, Sizes
    <3> QED BY <3>1, <3>2
  <2>2. j \in 1..l
    BY ONLY <2>1, InsideBlocks, j = i \div BlockCells + 1 /\ TRUE
  <2>3. e.block[M[h].line[j]] = d.block[M[h].line[j]]
    BY <1>0, <1>3, <2>2 DEF SameBlocks
  <2> QED BY <1>1, <2>3 DEF At
<1>5. ASSUME NEW g \in DOMAIN M, g # h, M[g].mode = "file", NEW i \in 0..(M[g].size - 1)
      PROVE  At(e, K, g, i) = At(d, M, g, i)
  <2> PICK j : j = i \div BlockCells + 1
    OBVIOUS
  <2>1. j \in 1..Len(M[g].line)
    BY <1>0, PlaceOfCell
  <2>2. e.block[M[g].line[j]] = d.block[M[g].line[j]]
    BY <1>3, <1>5, <2>1 DEF SameBlocks
  <2> QED BY <1>1, <1>5, <2>2 DEF At
<1>6. Truthful(e, K, P, h)
  <2>1. ASSUME NEW i \in 0..(n - 1) PROVE At(d, M, h, i) \in PromiseOf(P, h).cells[i]
    <3> PICK z : z = M[h].size
      OBVIOUS
    <3>1. z \in Nat /\ first <= z /\ first \in Nat /\ n \in Nat
      BY <1>0, <1>2
    <3>2. i \in 0..(z - 1) \/ i \in first..(n - 1)
      BY ONLY <3>1, i \in 0..(n - 1)
    <3>3. \A k \in 0..(z - 1) : At(d, M, h, k) \in PromiseOf(P, h).cells[k]
      BY <1>0 DEF Honours, Truthful
    <3> QED BY <1>0, <3>2, <3>3 DEF InPromise
  <2> QED BY <1>0, <1>1, <1>4, <2>1 DEF Truthful
<1>7. ASSUME NEW g \in DOMAIN K PROVE Truthful(e, K, P, g)
  <2>1. CASE g = h
    BY <1>6, <2>1
  <2>2. CASE g # h
    <3>1. Truthful(d, M, P, g) /\ K[g] = M[g] /\ g \in DOMAIN M
      BY <1>0, <1>1, <2>2 DEF Honours
    <3> QED BY <1>5, <2>2, <3>1 DEF Truthful
  <2> QED BY <2>1, <2>2
<1>8. ASSUME NEW g \in DOMAIN P PROVE g \in DOMAIN K /\ P[g].size \in Nat /\ P[g].size <= K[g].size
  <2>1. g \in DOMAIN M /\ P[g].size \in Nat /\ P[g].size <= M[g].size
    BY <1>0 DEF Honours
  <2>2. M[g].size <= K[g].size /\ M[g].size \in Nat /\ K[g].size \in Nat
    BY <1>0, <1>1, <1>2, <2>1
  <2> QED BY <1>1, <2>1, <2>2
<1>9. \A i \in first..(n - 1) : i \in 0..(n - 1)
  BY ONLY <1>0
<1>10. StaysAt(d, M, e, K, h, first, n)
  BY <1>4, <1>9 DEF StaysAt
<1>11. Honours(e, K, P)
  BY <1>7, <1>8 DEF Honours
<1> QED BY <1>0, <1>1, <1>10, <1>11

\* A write to a file, of one value.
LEMMA WriteFileView ==
  ASSUME NEW v, NEW call, NEW L, NEW E, GoodView(v, call, L, E), NEW x \in Slots,
         IsOpen(v.handles, x), NEW h, h = v.handles[x].block_index, L[h].mode = "file",
         NEW offset \in Nat, NEW cells, \E X : cells \in Seq(X), cells # << >>, NEW coin,
         Supplying(call, L, h, offset, cells), NEW n, n = Len(cells), offset + n <= MaxFileCells
  PROVE  \E M : LET w == WriteFile(v, x, cells, offset, coin)
                IN  GoodView(w, call, M, E) /\ Wrote(w, call, M, h, offset, n)
<1> PICK hs, g, s, t : /\ hs = v.handles /\ g = StartOf(v, h, offset, coin)
                       /\ s = FillOf(g, offset, cells)
                       /\ t = FillBlocks(s, n, coin)
  OBVIOUS
<1>1. /\ Heads(L) /\ Handling(hs, L, E) /\ hs \in [Slots -> HandleRecords] /\ h # 0
  BY DEF GoodView, Layout, Handling, IsOpen
<1>2. h \in DOMAIN L /\ hs[x].current_size = L[h].size /\ L[h].size \in Nat
  <2>1. HandleKept(hs, L, E, x)
    BY <1>1 DEF Handling
  <2>2. h \in DOMAIN L /\ hs[x].current_size = L[h].size
    BY <2>1 DEF HandleKept
  <2> QED BY <1>1, <2>2, HeadFacts
<1>3. WriteFile(v, x, cells, offset, coin) =
        IF h = 0 \/ offset > hs[x].current_size THEN Return(v, FAILED)
        ELSE IF g.ret = NULL THEN Return(g, FAILED)
        ELSE EndOf(t, x, offset, cells)
  BY WriteFileForm
<1>4. CASE offset > L[h].size
  <2>1. ViewIs(Return(v, FAILED), call, L, E, v.device, v.handles, FAILED)
    BY ReturnView
  <2> QED BY <1>2, <1>3, <1>4, <2>1 DEF ViewIs, Wrote
<1>5. CASE ~ (offset > L[h].size)
  <2>0. offset <= L[h].size
    BY <1>2, <1>5
  <2> PICK k : k = offset \div BlockCells + 1
    OBVIOUS
  <2>1. PICK N : Started(g, v, call, L, E, h, k, N)
    BY <1>2, <2>0, StartView
  <2>2. CASE g.ret = NULL
    <3>1. GoodView(g, call, N, E)
      BY <2>1 DEF Started
    <3>2. ViewIs(Return(g, FAILED), call, N, E, g.device, g.handles, FAILED)
      BY <3>1, ReturnView
    <3> QED BY <1>1, <1>2, <1>3, <1>5, <2>2, <3>2 DEF ViewIs, Wrote
  <2>3. CASE g.ret # NULL
    <3> PICK total : total = offset + n
      OBVIOUS
    <3>0. total \in Nat /\ n \in Nat
      OBVIOUS
    <3>1. Filling(s, hs, call, N, E, h, total)
      <4>1. L[h].mode # "dir"
        OBVIOUS
      <4> QED BY <1>2, <2>1, <2>3, <4>1, StartFilling
    <3>2. s.left = cells /\ h \in DOMAIN N
      BY <1>2, <2>1 DEF FillOf, Started, SameFiles
    <3>a. Len(s.left) <= n
      BY <3>0, <3>2
    <3>3. PICK M : SameButLines(N, M, t, hs, call, E, h, total) /\ (t.stopped \/ t.left = << >>)
      BY <3>0, <3>1, <3>2, <3>a, FillBlocksDone
    <3>4. /\ SameFiles(L, M) /\ GoodView(t.v, call, M, E) /\ t.v.handles = hs
          /\ ~ t.stopped => total <= Len(M[h].line) * BlockCells /\ Supplied(t, call, M, h, total)
      BY <2>1, <3>3, SameFilesOften DEF Started, SameButLines, Filling
    <3>5. WriteFile(v, x, cells, offset, coin) = EndOf(t, x, offset, cells)
      BY <1>1, <1>2, <1>3, <1>5, <2>3
    <3>6. CASE t.stopped
      <4>1. ViewIs(Return(t.v, FAILED), call, M, E, t.v.device, t.v.handles, FAILED)
        BY <3>4, ReturnView
      <4> QED BY <3>5, <3>6, <4>1, Zenon DEF EndOf, ViewIs, Wrote
    <3>7. CASE ~ t.stopped
      <4> PICK u, w : u = t.v /\ w = SetSize(u, x, total)
        OBVIOUS
      <4>1. EndOf(t, x, offset, cells) = Return(w, n)
        BY <3>7 DEF EndOf
      <4>a. /\ \A i \in offset..(total - 1) : At(u.device, M, h, i) = call.value
            /\ \A i \in offset..(total - 1) : call.value \in PromiseOf(call.promise, h).cells[i]
        <5>1. M[h].mode = "file" /\ t.left = << >> /\ call.first = offset
          BY <1>2, <3>3, <3>4, <3>7 DEF SameFiles, Supplying
        <5>2. total - 0 - 1 = total - 1 /\ Len(t.left) = 0
          BY <3>0, <5>1
        <5>3. Supplied(t, call, M, h, total)
          BY <3>4, <3>7
        <5>4. /\ \A i \in offset..(total - 1) : call.value \in PromiseOf(call.promise, h).cells[i]
              /\ \A i \in offset..(total - 0 - 1) : At(u.device, M, h, i) = call.value
          BY <5>1, <5>2, <5>3 DEF Supplied
        <5> QED BY <5>2, <5>4
      <4>2. \E K : /\ GoodView(w, call, K, E) /\ h \in DOMAIN K /\ total <= K[h].size
                   /\ \A i \in offset..(total - 1) : At(w.device, K, h, i) = call.value
        <5>1. M[h].size = L[h].size /\ M[h].mode = "file" /\ h \in DOMAIN M
          BY <1>2, <3>4 DEF SameFiles
        <5>2. CASE total <= L[h].size
          <6>1. w = u
            BY <1>2, <3>4, <5>2 DEF SetSize
          <6> QED BY <3>4, <4>a, <5>1, <5>2, <6>1
        <5>3. CASE ~ (total <= L[h].size)
          <6>1. /\ GoodView(u, call, M, E) /\ x \in Slots /\ IsOpen(u.handles, x)
                /\ h = u.handles[x].block_index /\ total \in Nat
                /\ total <= Len(M[h].line) * BlockCells
            BY <3>0, <3>4, <3>7
          <6>2. M[h].size < total /\ M[h].size <= total
            BY <1>2, <3>0, <5>1, <5>3
          <6>3. Sizing(w, u, M, E, h, total)
            BY ONLY <6>1, <6>2, SetSizeValue, w = SetSize(u, x, total)
          <6>4. PICK e, ns : /\ w = Put(u, ns, e)
                             /\ SizeSet(u.device, M, h, total, e)
                             /\ Handling(ns, Resized(M, h, total), E)
            BY <6>3 DEF Sizing
          <6> PICK d, K : d = u.device /\ K = Resized(M, h, total)
            OBVIOUS
          <6>5. /\ Layout(d, M) /\ IsView(u) /\ Past(u, call) /\ Regrown(d, M, h, total, e)
                /\ Honours(d, M, call.promise)
            BY <6>1, <6>4, Zenon DEF GoodView, SizeSet
          <6>6. Layout(e, K)
            BY ONLY <5>1, <6>1, <6>2, <6>5, GrownFile, K = Resized(M, h, total)
          <6>a. /\ Honours(e, K, call.promise) /\ h \in DOMAIN K /\ K[h].size = total
                /\ StaysAt(d, M, e, K, h, offset, total)
            <7>1. InPromise(d, M, h, offset, total, call.promise)
              BY <4>a DEF InPromise
            <7>2. /\ Heads(M) /\ SizeSet(d, M, h, total, e) /\ offset <= M[h].size
                  /\ total <= MaxFileCells /\ offset \in Nat
              BY <2>0, <5>1, <6>4, <6>5, Zenon DEF Layout
            <7> PICK P : P = call.promise
              OBVIOUS
            <7>3. /\ h \in DOMAIN M /\ M[h].mode = "file" /\ M[h].size <= total
                  /\ total <= Len(M[h].line) * BlockCells /\ total \in Nat
                  /\ Honours(d, M, P) /\ InPromise(d, M, h, offset, total, P)
              BY <5>1, <6>1, <6>2, <6>5, <7>1, Zenon
            <7>4. Growing(d, M, h, total, e, P, offset)
              BY <7>2, <7>3, Zenon DEF Growing
            <7>5. /\ Honours(e, K, P) /\ h \in DOMAIN K /\ K[h].size = total
                  /\ StaysAt(d, M, e, K, h, offset, total)
              BY ONLY <7>4, GrownHonours, K = Resized(M, h, total)
            <7> QED BY <7>5
          <6>8. ViewIs(Put(u, ns, e), call, K, E, e, ns, u.ret)
            <7>1. Handling(ns, K, E)
              BY <6>4, Zenon
            <7> QED BY <6>5, <6>6, <6>a, <7>1, PutView, Zenon
          <6>b. GoodView(w, call, K, E) /\ w.device = e
            BY <6>4, <6>8 DEF ViewIs
          <6>c. total <= K[h].size
            BY <3>0, <6>a
          <6>d. \A i \in offset..(total - 1) : At(w.device, K, h, i) = call.value
            BY <4>a, <6>a, <6>b DEF StaysAt
          <6> QED BY <6>a, <6>b, <6>c, <6>d
        <5> QED BY <5>2, <5>3
      <4>3. PICK K : /\ GoodView(w, call, K, E) /\ h \in DOMAIN K /\ total <= K[h].size
                     /\ \A i \in offset..(total - 1) : At(w.device, K, h, i) = call.value
        BY <4>2
      <4>4. ViewIs(Return(w, n), call, K, E, w.device, w.handles, n)
        BY <4>3, ReturnView
      <4> PICK z, y : z = Return(w, n) /\ y = WriteFile(v, x, cells, offset, coin)
        OBVIOUS
      <4>5. GoodView(z, call, K, E) /\ z.device = w.device
        BY <4>4 DEF ViewIs
      <4>6. Wrote(z, call, K, h, offset, n)
        <5>1. offset + n = total
          OBVIOUS
        <5>2. h \in DOMAIN K /\ offset + n <= K[h].size
          BY <4>3, <5>1, Zenon
        <5>3. ASSUME NEW i \in offset..(offset + n - 1)
              PROVE  At(z.device, K, h, i) = call.value
          <6>1. i \in offset..(total - 1)
            BY ONLY <3>0, offset \in Nat, <5>1, <5>3
          <6>2. At(w.device, K, h, i) = call.value
            BY <4>3, <6>1, Zenon
          <6>3. z.device = w.device
            BY <4>5, Zenon
          <6> QED BY <6>2, <6>3, Zenon
        <5> QED BY ONLY <5>2, <5>3 DEF Wrote
      <4>7. y = z
        BY <3>5, <4>1
      <4>8. GoodView(y, call, K, E) /\ Wrote(y, call, K, h, offset, n)
        BY ONLY <4>5, <4>6, <4>7
      <4> QED BY <4>8
    <3> QED BY <3>6, <3>7
  <2> QED BY <2>2, <2>3
<1> QED BY <1>4, <1>5

\* A view in which the directory has the cell but not its new size, and what the write of
\* the size makes of it.
Sized(w, v, u, call, E, h, N, e, ns, cell) ==
  /\ GoodView(u, call, N, E) /\ u.handles = v.handles /\ h \in DOMAIN N /\ N[h].mode = "dir"
  /\ N[h].size + 1 <= Len(N[h].line) * BlockCells
  /\ At(e, N, h, N[h].size) = cell
  /\ w = Return(Put(u, ns, e), 1)
  /\ Regrown(u.device, N, h, N[h].size + 1, e)
  /\ \A g \in DOMAIN N : N[g].mode = "file" => SameBlocks(u.device, e, N, g)
  /\ Handling(ns, Resized(N, h, N[h].size + 1), E)
  /\ SameOpen(ns, v.handles)

CellAppended(w, v, call, L, E, h, cell, N) ==
  /\ SameFiles(L, N)
  /\ \/ /\ w.ret = FAILED /\ GoodView(w, call, N, E) /\ w.handles = v.handles
        /\ StaysSpare(v.device, L, w.device, N)
     \/ \E u, e, ns : /\ Sized(w, v, u, call, E, h, N, e, ns, cell)
                      /\ StaysSpare(v.device, L, e, N)

\* A single cell takes a single round.
LEMMA OneFill ==
  ASSUME NEW s, NEW coin
  PROVE  FillBlocks(s, 1, coin) = FillBlock(s, coin)
<1> PICK f : Fills(f, s, coin, 1) /\ FillBlocks(s, 1, coin) = f[1]
  BY FillBlocksValue
<1>1. \A i \in 0..1 : f[i] = IF i = 0 THEN s ELSE FillBlock(f[i - 1], coin)
  BY DEF Fills
<1>2. f[0] = s /\ f[1] = FillBlock(f[0], coin)
  BY <1>1
<1> QED BY <1>2

\* A cell is written behind the last of a directory: either it is not, or the block has it
\* and the new size is still to be written.
LEMMA AppendCellView ==
  ASSUME NEW v, NEW call, NEW L, NEW E, GoodView(v, call, L, E), NEW x \in Slots,
         IsOpen(v.handles, x), NEW h, h = v.handles[x].block_index, L[h].mode = "dir",
         NEW offset, offset = v.handles[x].current_size, NEW cell, NEW coin
  PROVE  \E N : CellAppended(WriteFile(v, x, << cell >>, offset, coin), v, call, L, E, h, cell, N)
<1> PICK cells : cells = << cell >>
  OBVIOUS
<1>0. /\ cells # << >> /\ Len(cells) = 1 /\ cells[1] = cell /\ \E X : cells \in Seq(X)
  <2>1. cells \in Seq({cell})
    OBVIOUS
  <2> QED BY <2>1
<1> PICK hs, g, s, t : /\ hs = v.handles /\ g = StartOf(v, h, offset, coin)
                       /\ s = FillOf(g, offset, cells) /\ t = FillBlock(s, coin)
  OBVIOUS
<1>1. /\ Heads(L) /\ Handling(hs, L, E) /\ hs \in [Slots -> HandleRecords] /\ h # 0
  BY DEF GoodView, Layout, Handling, IsOpen
<1>2. h \in DOMAIN L /\ offset = L[h].size /\ L[h].size \in Nat /\ offset \in Nat
  <2>1. HandleKept(hs, L, E, x)
    BY <1>1 DEF Handling
  <2>2. h \in DOMAIN L /\ hs[x].current_size = L[h].size
    BY <2>1 DEF HandleKept
  <2>3. L[h].size \in Nat
    BY <1>1, <2>2, HeadFacts
  <2> QED BY <2>2, <2>3
<1>3. WriteFile(v, x, cells, offset, coin) = IF g.ret = NULL THEN Return(g, FAILED)
                                             ELSE EndOf(t, x, offset, cells)
  <2>1. WriteFile(v, x, cells, offset, coin) =
          IF h = 0 \/ offset > hs[x].current_size THEN Return(v, FAILED)
          ELSE IF g.ret = NULL THEN Return(g, FAILED)
          ELSE EndOf(FillBlocks(s, Len(cells), coin), x, offset, cells)
    <3>1. h = v.handles[x].block_index /\ g = StartOf(v, h, offset, coin)
      OBVIOUS
    <3>2. WriteFile(v, x, cells, offset, coin) =
            IF h = 0 \/ offset > v.handles[x].current_size THEN Return(v, FAILED)
            ELSE IF g.ret = NULL THEN Return(g, FAILED)
            ELSE EndOf(FillBlocks(FillOf(g, offset, cells), Len(cells), coin), x, offset, cells)
      BY ONLY <3>1, WriteFileForm
    <3> QED BY <3>2
  <2>2. ~ (h = 0 \/ offset > hs[x].current_size)
    BY <1>1, <1>2
  <2>3. FillBlocks(s, Len(cells), coin) = t
    BY <1>0, OneFill
  <2> QED BY <2>1, <2>2, <2>3
<1> PICK k : k = offset \div BlockCells + 1
  OBVIOUS
<1>4. offset <= L[h].size
  BY <1>2
<1>5. PICK N : Started(g, v, call, L, E, h, k, N)
  BY <1>2, <1>4, StartView
<1>6. /\ SameFiles(L, N) /\ GoodView(g, call, N, E) /\ g.handles = hs
      /\ StaysSpare(v.device, L, g.device, N)
      /\ h \in DOMAIN N /\ N[h].size = offset /\ N[h].mode = "dir"
  BY <1>2, <1>5, Zenon DEF Started, SameFiles
<1> PICK w : w = WriteFile(v, x, cells, offset, coin)
  OBVIOUS
<1>7. CASE g.ret = NULL
  <2>1. ViewIs(Return(g, FAILED), call, N, E, g.device, g.handles, FAILED)
    BY <1>6, ReturnView
  <2>2. CellAppended(w, v, call, L, E, h, cell, N)
    BY <1>3, <1>6, <1>7, <2>1 DEF ViewIs, CellAppended
  <2> QED BY <2>2
<1>8. CASE g.ret # NULL
  <2> PICK total : total = offset + 1
    OBVIOUS
  <2>0. total \in Nat /\ total = offset + Len(cells) /\ total - 1 = offset
    BY <1>0, <1>2
  <2>1. Filling(s, hs, call, N, E, h, total)
    <3>1. (L[h].mode = "dir" => L[h].size <= offset) /\ Supplying(call, L, h, offset, cells)
      BY <1>2 DEF Supplying
    <3> QED BY <1>0, <1>2, <1>5, <1>8, <2>0, <3>1, StartFilling, Zenon
  <2>2. s.left = cells /\ s.stopped = FALSE /\ s.v = g
    BY DEF FillOf
  <2>3. CellWritten(t, s, hs, call, N, E, h, total, cell)
    BY <1>0, <1>6, <2>0, <2>1, <2>2, OneCellWritten, Zenon
  <2> PICK u, d : u = t.v /\ d = u.device
    OBVIOUS
  <2>a. /\ GoodView(u, call, N, E) /\ u.handles = hs
        /\ \A b : Spare(g.device, N, b) => Spare(d, N, b)
    BY <2>2, <2>3, Zenon DEF CellWritten, Filling
  <2>b. ASSUME t.stopped PROVE CellAppended(w, v, call, L, E, h, cell, N)
    <3>1. w = Return(u, FAILED)
      BY <1>3, <1>8, <2>b DEF EndOf
    <3>2. ViewIs(Return(u, FAILED), call, N, E, u.device, u.handles, FAILED)
      BY <2>a, ReturnView
    <3>3. StaysSpare(v.device, L, d, N)
      BY <1>6, <2>a, Zenon DEF StaysSpare
    <3> QED BY <1>6, <2>a, <3>1, <3>2, <3>3 DEF ViewIs, CellAppended
  <2> SUFFICES ASSUME ~ t.stopped PROVE CellAppended(w, v, call, L, E, h, cell, N)
    BY <2>b
  <2>4. /\ GoodView(u, call, N, E) /\ u.handles = hs /\ ~ t.stopped
        /\ total <= Len(N[h].line) * BlockCells
        /\ At(d, N, h, offset) = cell
        /\ \A b : Spare(g.device, N, b) => Spare(d, N, b)
    BY <2>0, <2>2, <2>3, Zenon DEF CellWritten, Filling
  <2> PICK z : z = SetSize(u, x, total)
    OBVIOUS
  <2>5. w = Return(z, 1)
    BY <1>0, <1>3, <1>8, <2>4, Zenon DEF EndOf
  <2>6. /\ x \in Slots /\ IsOpen(u.handles, x) /\ h = u.handles[x].block_index
        /\ N[h].size < total
    <3>1. N[h].size < total
      <4> PICK m : m = N[h].size
        OBVIOUS
      <4>1. m = offset /\ offset \in Nat /\ total = offset + 1
        BY <1>2, <1>6, Zenon
      <4>2. m < total
        BY ONLY <4>1
      <4> QED BY <4>2
    <3> QED BY <2>4, <3>1, Zenon
  <2>7. Sizing(z, u, N, E, h, total)
    BY ONLY <2>0, <2>4, <2>6, SetSizeValue, z = SetSize(u, x, total)
  <2>8. PICK e, ns : /\ z = Put(u, ns, e)
                     /\ SizeSet(d, N, h, total, e)
                     /\ Handling(ns, Resized(N, h, total), E)
                     /\ SameOpen(ns, hs)
    BY <2>4, <2>7, Zenon DEF Sizing
  <2>9. At(e, N, h, offset) = cell
    <3> PICK i, l : i = offset \div BlockCells + 1 /\ l = Len(N[h].line)
      OBVIOUS
    <3>1. i \in 1..l
      <4>1. l \in Nat
        BY <1>6, HeadFacts, Zenon DEF GoodView, Layout
      <4>2. offset < l * BlockCells
        <5>1. l * BlockCells \in Nat
          BY ONLY <4>1, Sizes
        <5>2. total <= l * BlockCells /\ total = offset + 1 /\ offset \in Nat
          BY <1>2, <2>4, Zenon
        <5> QED BY ONLY <5>1, <5>2
      <4>3. offset \in Nat
        BY <1>2, Zenon
      <4> QED BY ONLY <4>1, <4>2, <4>3, InsideBlocks, i = offset \div BlockCells + 1 /\ TRUE
    <3>2. e.block[N[h].line[i]] = d.block[N[h].line[i]]
      BY <2>8, <3>1, Zenon DEF SizeSet
    <3> QED BY <2>4, <3>2, Zenon DEF At
  <2>10. StaysSpare(v.device, L, e, N)
    BY <1>6, <2>4, <2>8, Zenon DEF StaysSpare, SizeSet
  <2>11. Sized(w, v, u, call, E, h, N, e, ns, cell)
    <3>1. N[h].size + 1 = total
      BY <1>6
    <3>2. /\ Regrown(d, N, h, total, e)
          /\ \A f \in DOMAIN N : N[f].mode = "file" => SameBlocks(d, e, N, f)
      BY <2>8, Zenon DEF SizeSet
    <3> QED BY <1>6, <2>4, <2>5, <2>8, <2>9, <3>1, <3>2, Zenon DEF Sized
  <2>12. CellAppended(w, v, call, L, E, h, cell, N)
    BY <1>6, <2>10, <2>11 DEF CellAppended
  <2> QED BY <2>12
<1> QED BY <1>7, <1>8
==============================================================================
