------------------------------ MODULE TomFSProofs ------------------------------
(****************************************************************************)
(* TomFS proved for every size of volume, block and handle table, and for   *)
(* every number of calls and of crashes among their writes.                 *)
(*                                                                          *)
(* The calls are followed through their views (TomFSWriteProofs).  IInv     *)
(* says that there is a layout of the device for now and one for after each *)
(* write still pending, which honour what is promised during the call, and  *)
(* that the last one also honours what is promised from its end on and fits *)
(* the handles, with those held by the program as the references.           *)
(*                                                                          *)
(* Neither SizesCovered nor PromisesKept is inductive alone: a write of a   *)
(* size is only safe as the file's blocks are linked to no other file and   *)
(* its entry is where the directory has it, and a write of a file's cells   *)
(* leaves the other files' cells alone only as their blocks are apart.      *)
(****************************************************************************)
EXTENDS TomFSWriteProofs

\* A directory has grown by a cell that is no file's entry, or the write has failed.
NameWritten(w, v, call, L, E, h, M) ==
  /\ GoodView(w, call, M, E) /\ SameOpen(w.handles, v.handles)
  /\ StaysSpare(v.device, L, w.device, M)
  /\ h \in DOMAIN M /\ M[h].mode = "dir"
  /\ w.ret # FAILED => M[h].size = L[h].size + 1

\* A directory has grown by the entry of a new file, or the write has failed.
EntryMade(w, v, call, E, h, mode, b, M) ==
  /\ GoodView(w, call, M, E) /\ SameOpen(w.handles, v.handles)
  /\ w.ret # FAILED => /\ b \in DOMAIN M /\ M[b].parent = h /\ M[b].size = 0
                       /\ M[b].mode = mode /\ b # RootDirectory

\* A block that is in no file is in none after one's size has changed.
LEMMA SpareInLines ==
  ASSUME NEW N, NEW M, DOMAIN M = DOMAIN N, \A g \in DOMAIN N : M[g].line = N[g].line
  PROVE  /\ \A b : InNoFile(N, b) => InNoFile(M, b)
         /\ \A e, b : Spare(e, N, b) => Spare(e, M, b)
<1>1. ASSUME NEW b, InNoFile(N, b)
      PROVE  InNoFile(M, b)
  <2>1. ASSUME NEW g \in DOMAIN M, NEW i \in 1..Len(M[g].line)
        PROVE  M[g].line[i] # b
    <3>1. g \in DOMAIN N /\ M[g].line = N[g].line
      OBVIOUS
    <3>2. i \in 1..Len(N[g].line)
      BY <3>1
    <3> QED BY <1>1, <3>1, <3>2 DEF InNoFile
  <2> QED BY <2>1 DEF InNoFile
<1> QED BY <1>1 DEF Spare

\* A directory that grows, and a new file, change nothing in the files there were.
LEMMA SizedHonours ==
  ASSUME NEW w, NEW v, NEW u, NEW call, NEW E, NEW h, NEW N, NEW e, NEW ns, NEW cell,
         Sized(w, v, u, call, E, h, N, e, ns, cell), NEW M, Heads(M),
         \A g \in DOMAIN N : /\ g \in DOMAIN M /\ M[g].mode = N[g].mode /\ N[g].size <= M[g].size
                             /\ g # h => M[g].size = N[g].size /\ M[g].line = N[g].line,
         \A g \in DOMAIN M \ DOMAIN N : M[g].size = 0
  PROVE  Honours(e, M, call.promise)
<1> PICK d : d = u.device
  OBVIOUS
<1>1. /\ Heads(N) /\ Honours(d, N, call.promise) /\ N[h].mode = "dir"
      /\ \A g \in DOMAIN N : N[g].mode = "file" => SameBlocks(d, e, N, g)
  BY DEF Sized, GoodView, Layout
<1>2. ASSUME NEW g \in DOMAIN N PROVE KeepsFile(d, N, e, M, g)
  <2>1. ASSUME N[g].mode = "file", NEW i \in 0..(N[g].size - 1)
        PROVE  M[g].size = N[g].size /\ At(e, M, g, i) = At(d, N, g, i)
    <3> PICK j : j = i \div BlockCells + 1
      OBVIOUS
    <3>1. j \in 1..Len(N[g].line)
      BY <1>1, PlaceOfCell
    <3>2. e.block[N[g].line[j]] = d.block[N[g].line[j]]
      BY <1>1, <2>1, <3>1 DEF SameBlocks
    <3>3. g # h
      BY <1>1, <2>1
    <3> QED BY <3>2, <3>3 DEF At
  <2>2. N[g].mode = "file" => M[g].size = N[g].size
    BY <1>1
  <2> QED BY <2>1, <2>2 DEF KeepsFile
<1>3. Keeps(d, N, e, M)
  BY <1>2 DEF Keeps
<1> QED BY <1>1, <1>3, KeepsHonour

\* The new size is written: the view is good for the files that have it.
LEMMA SizedView ==
  ASSUME NEW w, NEW v, NEW u, NEW call, NEW E, NEW h, NEW N, NEW e, NEW ns, NEW cell,
         Sized(w, v, u, call, E, h, N, e, ns, cell), NEW M, Layout(e, M), Handling(ns, M, E),
         Honours(e, M, call.promise)
  PROVE  /\ GoodView(w, call, M, E) /\ SameOpen(w.handles, v.handles)
         /\ w.device = e /\ w.ret = 1
<1> PICK z : z = Put(u, ns, e)
  OBVIOUS
<1>1. IsView(u) /\ Past(u, call) /\ w = Return(z, 1) /\ SameOpen(ns, v.handles)
  BY DEF Sized, GoodView
<1>2. ViewIs(z, call, M, E, e, ns, u.ret)
  BY <1>1, PutView
<1>3. GoodView(z, call, M, E) /\ z.handles = ns /\ z.device = e
  BY <1>2 DEF ViewIs
<1>4. ViewIs(Return(z, 1), call, M, E, z.device, z.handles, 1)
  BY <1>3, ReturnView
<1> QED BY <1>1, <1>3, <1>4 DEF ViewIs

\* A name or a dot behind the last cell of a directory makes no file.
LEMMA AppendNameView ==
  ASSUME NEW v, NEW call, NEW L, NEW E, GoodView(v, call, L, E), NEW x \in Slots,
         IsOpen(v.handles, x), NEW h, h = v.handles[x].block_index, L[h].mode = "dir",
         NEW offset, offset = v.handles[x].current_size, NEW cell, NEW coin,
         cell \in Dots \/ \E name : cell = FilenameEntry(name)
  PROVE  \E M : NameWritten(WriteFile(v, x, << cell >>, offset, coin), v, call, L, E, h, M)
<1> PICK w : w = WriteFile(v, x, << cell >>, offset, coin)
  OBVIOUS
<1>1. PICK N : CellAppended(w, v, call, L, E, h, cell, N)
  BY AppendCellView
<1>2. h \in DOMAIN L
  BY DEF GoodView, Handling, HandleKept
<1>3. h \in DOMAIN N /\ N[h].mode = "dir" /\ N[h].size = L[h].size
  BY <1>1, <1>2 DEF CellAppended, SameFiles
<1>4. CASE /\ w.ret = FAILED /\ GoodView(w, call, N, E) /\ w.handles = v.handles
           /\ StaysSpare(v.device, L, w.device, N)
  BY <1>3, <1>4 DEF NameWritten, SameOpen
<1>5. CASE \E u, e, ns : /\ Sized(w, v, u, call, E, h, N, e, ns, cell)
                         /\ StaysSpare(v.device, L, e, N)
  <2>1. PICK u, e, ns : /\ Sized(w, v, u, call, E, h, N, e, ns, cell)
                        /\ StaysSpare(v.device, L, e, N)
    BY <1>5
  <2> PICK n, M, d : n = N[h].size + 1 /\ M = Resized(N, h, n) /\ d = u.device
    OBVIOUS
  <2>2. /\ Layout(d, N) /\ h \in DOMAIN N /\ n = N[h].size + 1
        /\ n <= Len(N[h].line) * BlockCells /\ Regrown(d, N, h, n, e)
        /\ N[h].mode = "dir" /\ Handling(ns, M, E) /\ Heads(N)
    BY <2>1 DEF Sized, GoodView, Layout
  <2>3. At(e, N, h, N[h].size) = cell
    <3>1. \A i : At(e, N, h, i) = e.block[N[h].line[i \div BlockCells + 1]].cells[i % BlockCells]
      BY DEF At
    <3> QED BY <2>1 DEF Sized
  <2>4. Layout(e, M)
    <3>1. cell = At(e, N, h, N[h].size) /\ (cell \in Dots \/ \E name : cell = FilenameEntry(name))
      BY <2>3
    <3> QED BY ONLY <2>2, <3>1, GrownDirectory, M = Resized(N, h, n)
  <2>6. /\ DOMAIN M = DOMAIN N /\ M[h].size = n /\ M[h].mode = N[h].mode
        /\ \A g \in DOMAIN N : M[g].line = N[g].line
        /\ \A g \in DOMAIN N \ {h} : M[g] = N[g]
        /\ N[h].size \in Nat /\ N[h].size <= n
    <3>1. N[h].size \in Nat /\ n \in Nat /\ N[h].size <= n
      BY <2>2, HeadFacts
    <3>2. /\ DOMAIN M = DOMAIN N /\ M[h].size = n /\ M[h].mode = N[h].mode
          /\ M[h].line = N[h].line /\ \A g \in DOMAIN N \ {h} : M[g] = N[g]
      BY ONLY <2>2, <3>1, ResizedFacts, M = Resized(N, h, n)
    <3>3. ASSUME NEW g \in DOMAIN N PROVE M[g].line = N[g].line
      BY ONLY <3>2, g \in DOMAIN N
    <3> QED BY ONLY <3>1, <3>2, <3>3
  <2>a. Honours(e, M, call.promise)
    <3>1. ASSUME NEW g \in DOMAIN N
          PROVE  /\ g \in DOMAIN M /\ M[g].mode = N[g].mode /\ N[g].size <= M[g].size
                 /\ g # h => M[g].size = N[g].size /\ M[g].line = N[g].line
      <4>1. N[g].size \in Nat
        BY <2>2, HeadFacts
      <4>2. CASE g = h
        BY <2>6, <4>2, Zenon
      <4>3. CASE g # h
        <5>1. M[g] = N[g]
          BY <2>6, <4>3, Zenon
        <5>2. g \in DOMAIN M
          BY <2>6, Zenon
        <5> PICK s : s = N[g].size
          OBVIOUS
        <5>3. s \in Nat /\ M[g].size = s
          BY <4>1, <5>1
        <5> QED BY ONLY <4>3, <5>1, <5>2, <5>3, s = N[g].size
      <4> QED BY <4>2, <4>3, Zenon
    <3>2. Heads(M) /\ \A g \in DOMAIN M \ DOMAIN N : M[g].size = 0
      BY <2>4, <2>6, Zenon DEF Layout
    <3> QED BY ONLY <2>1, <3>1, <3>2, SizedHonours
  <2>5. GoodView(w, call, M, E) /\ SameOpen(w.handles, v.handles) /\ w.device = e /\ w.ret = 1
    BY ONLY <2>1, <2>2, <2>4, <2>a, SizedView
  <2>7. StaysSpare(v.device, L, e, M)
    <3>1. \A c : Spare(e, N, c) => Spare(e, M, c)
      BY ONLY <2>6, SpareInLines
    <3> QED BY <2>1, <3>1 DEF StaysSpare
  <2>8. M[h].size = L[h].size + 1
    BY <1>3, <2>6, Zenon
  <2> QED BY <2>2, <2>5, <2>6, <2>7, <2>8, Zenon DEF NameWritten
<1> QED BY <1>1, <1>4, <1>5 DEF CellAppended

\* The entry of a file behind the last cell of a directory makes the file.
LEMMA AppendEntryView ==
  ASSUME NEW v, NEW call, NEW L, NEW E, GoodView(v, call, L, E), NEW x \in Slots,
         IsOpen(v.handles, x), NEW h, h = v.handles[x].block_index, L[h].mode = "dir",
         NEW offset, offset = v.handles[x].current_size, NEW coin,
         NEW mode, NEW b, Spare(v.device, L, b), NEW name, Nameable(mode, h, name),
         NEW cell, cell = FileEntry(mode, b, 0, name)
  PROVE  \E M : EntryMade(WriteFile(v, x, << cell >>, offset, coin), v, call, E, h, mode, b, M)
<1> PICK w : w = WriteFile(v, x, << cell >>, offset, coin)
  OBVIOUS
<1>1. PICK N : CellAppended(w, v, call, L, E, h, cell, N)
  BY AppendCellView
<1>2. h \in DOMAIN L
  BY DEF GoodView, Handling, HandleKept
<1>3. h \in DOMAIN N /\ N[h].mode = "dir" /\ N[h].size = L[h].size
  BY <1>1, <1>2 DEF CellAppended, SameFiles
<1>4. CASE /\ w.ret = FAILED /\ GoodView(w, call, N, E) /\ w.handles = v.handles
           /\ StaysSpare(v.device, L, w.device, N)
  BY <1>3, <1>4 DEF EntryMade, SameOpen
<1>5. CASE \E u, e, ns : /\ Sized(w, v, u, call, E, h, N, e, ns, cell)
                         /\ StaysSpare(v.device, L, e, N)
  <2>1. PICK u, e, ns : /\ Sized(w, v, u, call, E, h, N, e, ns, cell)
                        /\ StaysSpare(v.device, L, e, N)
    BY <1>5
  <2> PICK n, K, d, slot : /\ n = N[h].size + 1 /\ K = Resized(N, h, n) /\ d = u.device
                           /\ slot = N[h].size
    OBVIOUS
  <2> PICK r, M : r = NewFile(b, mode, h, slot, name) /\ M = With(K, b, r)
    OBVIOUS
  <2>2. /\ Layout(d, N) /\ h \in DOMAIN N /\ n = N[h].size + 1
        /\ n <= Len(N[h].line) * BlockCells /\ Regrown(d, N, h, n, e)
        /\ N[h].mode = "dir" /\ Handling(ns, K, E) /\ Heads(N)
    BY <2>1 DEF Sized, GoodView, Layout
  <2>3. Spare(e, N, b)
    BY <2>1 DEF StaysSpare
  <2>4. At(e, N, h, N[h].size) = FileEntry(mode, b, 0, name)
    BY <2>1 DEF Sized
  <2>5. Layout(e, With(Resized(N, h, n), b, NewFile(b, mode, h, N[h].size, name)))
    BY ONLY <2>2, <2>3, <2>4, GrownEntry, Nameable(mode, h, name)
  <2>6. Layout(e, M)
    BY <2>5, Zenon
  <2>7. /\ Heads(K) /\ DOMAIN K = DOMAIN N /\ K[h].size = n /\ K[h].mode = N[h].mode
        /\ \A g \in DOMAIN N : K[g].line = N[g].line
        /\ \A g \in DOMAIN N \ {h} : K[g] = N[g]
        /\ N[h].size \in Nat /\ N[h].size <= n
    <3>1. N[h].size \in Nat /\ n \in Nat /\ N[h].size <= n
      BY <2>2, HeadFacts
    <3>2. /\ Heads(K) /\ DOMAIN K = DOMAIN N /\ K[h].size = n /\ K[h].mode = N[h].mode
          /\ K[h].line = N[h].line /\ \A g \in DOMAIN N \ {h} : K[g] = N[g]
      BY ONLY <2>2, <3>1, ResizedFacts, K = Resized(N, h, n)
    <3>3. ASSUME NEW g \in DOMAIN N PROVE K[g].line = N[g].line
      BY ONLY <3>2, g \in DOMAIN N
    <3> QED BY ONLY <3>1, <3>2, <3>3
  <2>8. Joined(K, b, r, M)
    <3>1. InNoFile(K, b)
      <4>1. \A c : InNoFile(N, c) => InNoFile(K, c)
        BY ONLY <2>7, SpareInLines
      <4>2. InNoFile(N, b)
        BY <2>3 DEF Spare
      <4> QED BY <4>1, <4>2
    <3>2. slot \in 0..(K[h].size - 1)
      <4>1. slot \in Nat /\ K[h].size = slot + 1
        BY <2>2, <2>7, HeadFacts, Zenon
      <4> QED BY ONLY <4>1
    <3>3. CanJoin(K, b, mode, h, slot, name)
      BY <2>2, <2>3, <2>7, <3>1, <3>2, Zenon DEF CanJoin, Spare
    <3> QED BY <3>3, WithFacts, Zenon
  <2>9. Handling(ns, M, E)
    <3>1. \A g \in DOMAIN K : g \in DOMAIN M /\ M[g].size = K[g].size /\ M[g].parent = K[g].parent
      BY <2>8, Zenon DEF Joined
    <3> QED BY ONLY <2>2, <3>1, KeptHandling
  <2>10. GoodView(w, call, M, E) /\ SameOpen(w.handles, v.handles) /\ w.device = e /\ w.ret = 1
    <3>1. ASSUME NEW g \in DOMAIN N
          PROVE  /\ g \in DOMAIN M /\ M[g].mode = N[g].mode /\ N[g].size <= M[g].size
                 /\ g # h => M[g].size = N[g].size /\ M[g].line = N[g].line
      <4>1. N[g].size \in Nat
        BY <2>2, HeadFacts
      <4>2. g \in DOMAIN M /\ M[g] = K[g]
        BY <2>7, <2>8, Zenon DEF Joined
      <4>3. CASE g = h
        BY <2>7, <4>2, <4>3, Zenon
      <4>4. CASE g # h
        <5>1. M[g] = N[g]
          BY <2>7, <4>2, <4>4, Zenon
        <5> PICK s : s = N[g].size
          OBVIOUS
        <5>2. s \in Nat /\ M[g].size = s
          BY <4>1, <5>1, Zenon
        <5> QED BY ONLY <4>2, <4>4, <5>1, <5>2, s = N[g].size
      <4> QED BY <4>3, <4>4, Zenon
    <3>2. Heads(M) /\ \A g \in DOMAIN M \ DOMAIN N : M[g].size = 0
      <4>1. Heads(M)
        BY <2>6, Zenon DEF Layout
      <4>2. r.size = 0
        BY DEF NewFile
      <4>3. \A g \in DOMAIN M \ DOMAIN N : M[g] = r
        BY <2>7, <2>8, Zenon DEF Joined
      <4> QED BY <4>1, <4>2, <4>3
    <3>3. Honours(e, M, call.promise)
      BY ONLY <2>1, <3>1, <3>2, SizedHonours
    <3> QED BY ONLY <2>1, <2>6, <2>9, <3>3, SizedView
  <2>11. /\ b \in DOMAIN M /\ M[b].parent = h /\ M[b].size = 0 /\ M[b].mode = mode
         /\ b # RootDirectory
    <3>1. b \in DOMAIN M /\ M[b] = r /\ b \notin DOMAIN K
      BY <2>8, Zenon DEF Joined
    <3>2. r.parent = h /\ r.size = 0 /\ r.mode = mode
      BY DEF NewFile
    <3>3. RootDirectory \in DOMAIN K
      BY <2>7, Zenon DEF Heads
    <3> QED BY <3>1, <3>2, <3>3, Zenon
  <2> QED BY <2>10, <2>11, Zenon DEF EntryMade
<1> QED BY <1>1, <1>4, <1>5 DEF CellAppended

\* The handle of a directory that is open.
IsDirectory(v, L, x, h) ==
  /\ x \in Slots /\ IsOpen(v.handles, x) /\ h = v.handles[x].block_index
  /\ L[h].mode = "dir"

\* An open handle knows the size of its file.
LEMMA DirectorySize ==
  ASSUME NEW v, NEW call, NEW L, NEW E, GoodView(v, call, L, E), NEW x \in Slots,
         IsOpen(v.handles, x), NEW h, h = v.handles[x].block_index
  PROVE  h \in DOMAIN L /\ v.handles[x].current_size = L[h].size /\ L[h].size \in Nat
<1>1. HandleKept(v.handles, L, E, x) /\ Heads(L)
  BY DEF GoodView, Handling, Layout
<1>2. h \in DOMAIN L /\ v.handles[x].current_size = L[h].size
  BY <1>1 DEF HandleKept
<1> QED BY <1>1, <1>2, HeadFacts

\* After the name the directory is as before, but longer by a cell.
LEMMA AfterName ==
  ASSUME NEW w, NEW v, NEW call, NEW L, NEW E, GoodView(v, call, L, E), NEW x, NEW h,
         IsDirectory(v, L, x, h), NEW M, NameWritten(w, v, call, L, E, h, M)
  PROVE  /\ IsDirectory(w, M, x, h)
         /\ w.ret # FAILED => w.handles[x].current_size = v.handles[x].current_size + 1
<1>1. IsDirectory(w, M, x, h)
  BY DEF IsDirectory, NameWritten, SameOpen, IsOpen
<1>2. GoodView(w, call, M, E) /\ (w.ret # FAILED => M[h].size = L[h].size + 1)
  BY DEF NameWritten
<1>3. x \in Slots /\ IsOpen(v.handles, x) /\ h = v.handles[x].block_index
  BY DEF IsDirectory
<1>4. x \in Slots /\ IsOpen(w.handles, x) /\ h = w.handles[x].block_index
  BY <1>1 DEF IsDirectory
<1>5. v.handles[x].current_size = L[h].size
  BY ONLY <1>3, GoodView(v, call, L, E), DirectorySize
<1>6. w.handles[x].current_size = M[h].size
  BY ONLY <1>4, <1>2, DirectorySize
<1> QED BY <1>1, <1>2, <1>5, <1>6

\* tfsAppendDirectoryEntry for a new file: both its cells, the name's alone, or none.
LEMMA DirectoryEntryView ==
  ASSUME NEW v, NEW call, NEW L, NEW E, GoodView(v, call, L, E), NEW x, NEW h,
         IsDirectory(v, L, x, h), NEW mode, NEW b, Spare(v.device, L, b),
         NEW name, Nameable(mode, h, name), NEW coin
  PROVE  \E M : EntryMade(AppendDirectoryEntry(v, x, mode, b, name, coin), v, call, E, h, mode, b, M)
<1> PICK cell, entry, offset, after :
         /\ cell = FilenameEntry(name) /\ entry = FileEntry(mode, b, 0, name)
         /\ offset = v.handles[x].current_size /\ after = offset + 1
  OBVIOUS
<1> PICK named, w : /\ named = WriteFile(v, x, << cell >>, offset, coin)
                    /\ w = AppendDirectoryEntry(v, x, mode, b, name, coin)
  OBVIOUS
<1>1. w = IF named.ret = FAILED THEN named ELSE WriteFile(named, x, << entry >>, after, coin)
  BY DEF AppendDirectoryEntry
<1>2. x \in Slots /\ IsOpen(v.handles, x) /\ h = v.handles[x].block_index /\ L[h].mode = "dir"
  BY DEF IsDirectory
<1>3. PICK M : NameWritten(named, v, call, L, E, h, M)
  <2>1. cell \in Dots \/ \E n : cell = FilenameEntry(n)
    OBVIOUS
  <2> QED BY ONLY <1>2, <2>1, GoodView(v, call, L, E), AppendNameView,
                  offset = v.handles[x].current_size,
                  named = WriteFile(v, x, << cell >>, offset, coin)
<1>4. CASE named.ret = FAILED
  BY <1>1, <1>3, <1>4 DEF NameWritten, EntryMade
<1>5. CASE named.ret # FAILED
  <2>1. IsDirectory(named, M, x, h) /\ after = named.handles[x].current_size
    BY ONLY <1>3, <1>5, AfterName, GoodView(v, call, L, E), IsDirectory(v, L, x, h),
            offset = v.handles[x].current_size, after = offset + 1
  <2>2. /\ x \in Slots /\ IsOpen(named.handles, x) /\ h = named.handles[x].block_index
        /\ M[h].mode = "dir" /\ GoodView(named, call, M, E)
    BY <1>3, <2>1, Zenon DEF IsDirectory, NameWritten
  <2>3. Spare(named.device, M, b)
    BY <1>3 DEF NameWritten, StaysSpare
  <2> PICK z : z = WriteFile(named, x, << entry >>, after, coin)
    OBVIOUS
  <2>4. PICK K : EntryMade(z, named, call, E, h, mode, b, K)
    BY ONLY <2>1, <2>2, <2>3, AppendEntryView, Nameable(mode, h, name),
            entry = FileEntry(mode, b, 0, name),
            z = WriteFile(named, x, << entry >>, after, coin), Zenon
  <2>5. w = z
    BY <1>1, <1>5
  <2>6. EntryMade(w, v, call, E, h, mode, b, K)
    BY <1>3, <2>4, <2>5, Zenon DEF EntryMade, NameWritten, SameOpen
  <2> QED BY <2>6
<1> QED BY <1>4, <1>5

\* A directory with one of its dots, or without it.
Dotted(w, v, call, E, x, h, M) ==
  GoodView(w, call, M, E) /\ SameOpen(w.handles, v.handles) /\ IsDirectory(w, M, x, h)

\* tfsAppendDirectoryEntry for "." or "..", which are no files of their own.
LEMMA DotView ==
  ASSUME NEW v, NEW call, NEW L, NEW E, GoodView(v, call, L, E), NEW x, NEW h,
         IsDirectory(v, L, x, h), NEW name \in {".", ".."}, NEW coin
  PROVE  \E M : Dotted(AppendDirectoryEntry(v, x, "dir", 0, name, coin), v, call, E, x, h, M)
<1> PICK cell, entry, offset, after :
         /\ cell = FilenameEntry(name) /\ entry = FileEntry("dir", 0, 0, name)
         /\ offset = v.handles[x].current_size /\ after = offset + 1
  OBVIOUS
<1> PICK named, w : /\ named = WriteFile(v, x, << cell >>, offset, coin)
                    /\ w = AppendDirectoryEntry(v, x, "dir", 0, name, coin)
  OBVIOUS
<1>1. w = IF named.ret = FAILED THEN named ELSE WriteFile(named, x, << entry >>, after, coin)
  BY DEF AppendDirectoryEntry
<1>2. x \in Slots /\ IsOpen(v.handles, x) /\ h = v.handles[x].block_index /\ L[h].mode = "dir"
  BY DEF IsDirectory
<1>3. PICK M : NameWritten(named, v, call, L, E, h, M)
  <2>1. cell \in Dots \/ \E n : cell = FilenameEntry(n)
    OBVIOUS
  <2> QED BY ONLY <1>2, <2>1, GoodView(v, call, L, E), AppendNameView,
                  offset = v.handles[x].current_size,
                  named = WriteFile(v, x, << cell >>, offset, coin)
<1>a. IsDirectory(named, M, x, h)
  BY ONLY <1>3, AfterName, GoodView(v, call, L, E), IsDirectory(v, L, x, h)
<1>4. CASE named.ret = FAILED
  <2>1. w = named
    BY <1>1, <1>4
  <2>2. Dotted(w, v, call, E, x, h, M)
    <3>1. GoodView(named, call, M, E) /\ SameOpen(named.handles, v.handles)
      BY <1>3 DEF NameWritten
    <3> QED BY ONLY <1>a, <2>1, <3>1 DEF Dotted
  <2> QED BY <2>2
<1>5. CASE named.ret # FAILED
  <2>1. IsDirectory(named, M, x, h) /\ after = named.handles[x].current_size
    BY ONLY <1>3, <1>5, AfterName, GoodView(v, call, L, E), IsDirectory(v, L, x, h),
            offset = v.handles[x].current_size, after = offset + 1
  <2>2. /\ x \in Slots /\ IsOpen(named.handles, x) /\ h = named.handles[x].block_index
        /\ M[h].mode = "dir" /\ GoodView(named, call, M, E)
    BY <1>3, <1>a, Zenon DEF IsDirectory, NameWritten
  <2>3. entry \in Dots \/ \E n : entry = FilenameEntry(n)
    BY DEF Dots
  <2> PICK z : z = WriteFile(named, x, << entry >>, after, coin)
    OBVIOUS
  <2>4. PICK K : NameWritten(z, named, call, M, E, h, K)
    BY ONLY <2>1, <2>2, <2>3, AppendNameView, z = WriteFile(named, x, << entry >>, after, coin)
  <2>5. IsDirectory(z, K, x, h)
    BY ONLY <1>a, <2>2, <2>4, AfterName
  <2>6. w = z
    BY <1>1, <1>5
  <2>7. Dotted(w, v, call, E, x, h, K)
    BY <1>3, <2>4, <2>5, <2>6, Zenon DEF Dotted, NameWritten, SameOpen
  <2> QED BY <2>7
<1> QED BY <1>4, <1>5

\* A new directory gets both its dots, or fewer when the volume is full.
LEMMA AppendDotsView ==
  ASSUME NEW v, NEW call, NEW L, NEW E, GoodView(v, call, L, E), NEW x, NEW h,
         IsDirectory(v, L, x, h), NEW coin
  PROVE  \E M : Dotted(AppendDots(v, x, coin), v, call, E, x, h, M) /\ AppendDots(v, x, coin).ret = x
<1> PICK a, b, w : /\ a = AppendDirectoryEntry(v, x, "dir", 0, ".", coin)
                   /\ b = AppendDirectoryEntry(a, x, "dir", 0, "..", coin)
                   /\ w = AppendDots(v, x, coin)
  OBVIOUS
<1>1. w = Return(b, x)
  BY DEF AppendDots
<1>2. PICK M : Dotted(a, v, call, E, x, h, M)
  BY ONLY DotView, GoodView(v, call, L, E), IsDirectory(v, L, x, h),
          a = AppendDirectoryEntry(v, x, "dir", 0, ".", coin)
<1>3. GoodView(a, call, M, E) /\ IsDirectory(a, M, x, h)
  BY <1>2 DEF Dotted
<1>4. PICK K : Dotted(b, a, call, E, x, h, K)
  BY ONLY <1>3, DotView, b = AppendDirectoryEntry(a, x, "dir", 0, "..", coin)
<1>5. GoodView(b, call, K, E)
  BY <1>4 DEF Dotted
<1>6. ViewIs(w, call, K, E, b.device, b.handles, x)
  BY <1>1, <1>5, ReturnView
<1>7. Dotted(w, v, call, E, x, h, K) /\ w.ret = x
  BY <1>2, <1>4, <1>6 DEF Dotted, ViewIs, SameOpen, IsDirectory
<1> QED BY <1>7

\* What tfsFindEntry finds: nothing, or the entry of a file of that name in the directory.
FoundEntry(entry, L, h, name) ==
  \/ entry = NoEntry
  \/ \E e \in DOMAIN L \ {RootDirectory} :
       L[e].parent = h /\ L[e].name = name /\ entry = EntryOf(L, e)

\* A name's cell is no entry; the entries of dots are called so, those of files otherwise.
LEMMA CellKinds ==
  /\ \A n : FilenameEntry(n).mode = "name"
  /\ \A cell \in Dots : cell.filename \in {".", ".."}
  /\ \A L, e : EntryOf(L, e).filename = L[e].name
<1>1. \A n : FilenameEntry(n).mode = "name"
  BY DEF FilenameEntry
<1>2. \A cell \in Dots : cell.filename \in {".", ".."}
  BY DEF Dots, FileEntry
<1>3. \A L, e : EntryOf(L, e).filename = L[e].name
  BY DEF EntryOf, FileEntry
<1> QED BY <1>1, <1>2, <1>3

\* tfsFindEntry finds the entry of a file of that name in the directory, or none.
LEMMA FindEntryValue ==
  ASSUME NEW v, NEW L, Layout(v.device, L), NEW x, NEW h \in DOMAIN L,
         h = v.handles[x].block_index, v.handles[x].current_size = L[h].size,
         L[h].mode = "dir", NEW name, name \notin {".", ".."}
  PROVE  FoundEntry(FindEntry(v, x, name), L, h, name)
<1> PICK d, size, cells : /\ d = v.device /\ size = L[h].size /\ cells = Cells(d, h, size)
  OBVIOUS
<1> DEFINE found == {i \in DOMAIN cells : IsEntry(cells[i]) /\ cells[i].filename = name}
<1>1. FindEntry(v, x, name) = IF Fails(v) \/ found = {} THEN NoEntry ELSE cells[Min(found)]
  BY DEF FindEntry
<1>2. IsRead(cells, d, L, h)
  BY FileRead
<1>3. size \in Nat
  BY HeadFacts DEF Layout
<1>4. DOMAIN cells = 0..(size - 1) /\ \A i \in 0..(size - 1) : cells[i] = At(d, L, h, i)
  <2>1. cells = [i \in 0..(size - 1) |-> At(d, L, h, i)]
    BY <1>2 DEF IsRead
  <2> QED BY ONLY <2>1
<1>5. CASE Fails(v) \/ found = {}
  BY <1>1, <1>5, Zenon DEF FoundEntry
<1>6. CASE ~ (Fails(v) \/ found = {})
  <2>1. found \in SUBSET Nat
    BY <1>3, <1>4
  <2>2. Min(found) \in found
    <3> HIDE DEF found
    <3> QED BY ONLY <1>6, <2>1, LeastInSet
  <2> PICK i : i = Min(found)
    BY Zenon
  <2>3. i \in 0..(size - 1) /\ IsEntry(cells[i]) /\ cells[i].filename = name
    BY <1>4, <2>2, Zenon
  <2> PICK cell : cell = cells[i]
    BY Zenon
  <2>4. Known(cell, L, h, i) /\ cell.mode \in {"file", "dir"} /\ cell.filename = name
    BY <1>4, <2>3, Zenon DEF Layout, Seen, IsEntry
  <2>5. ~ \E n : cell = FilenameEntry(n)
    BY ONLY <2>4, CellKinds
  <2>6. cell \notin Dots
    BY ONLY <2>4, CellKinds, name \notin {".", ".."}
  <2>7. PICK e \in DOMAIN L \ {RootDirectory} : L[e].parent = h /\ cell = EntryOf(L, e)
    BY <2>4, <2>5, <2>6, Zenon DEF Known
  <2>8. L[e].name = name
    BY ONLY <2>4, <2>7, CellKinds
  <2>9. FindEntry(v, x, name) = cell
    BY <1>1, <1>6, Zenon
  <2> QED BY <2>7, <2>8, <2>9 DEF FoundEntry
<1> QED BY <1>5, <1>6

-----------------------------------------------------------------------------
\* The call returns a handle, which is one more reference to the file that starts at b, or
\* none.
Given(w, call, L, E, b) ==
  IF w.ret = NULL THEN GoodView(w, call, L, E)
  ELSE /\ w.ret \in Slots /\ b \in DOMAIN L /\ b = w.handles[w.ret].block_index
       /\ GoodView(w, call, L, More(E, w.ret, b))

\* A handle the program has a reference to is open, for that file, with its size.
LEMMA Referred ==
  ASSUME NEW v, NEW call, NEW L, NEW E, GoodView(v, call, L, E), NEW x \in Slots,
         NEW b \in Blocks, E[<< x, b >>] > 0
  PROVE  /\ b = v.handles[x].block_index /\ b # 0 /\ IsOpen(v.handles, x) /\ b \in DOMAIN L
         /\ v.handles[x].current_size = L[b].size
<1>1. b = v.handles[x].block_index /\ b # 0
  BY DEF GoodView, Handling, References
<1>2. IsOpen(v.handles, x)
  BY <1>1 DEF IsOpen
<1>3. HandleKept(v.handles, L, E, x)
  BY <1>2 DEF GoodView, Handling
<1> QED BY <1>1, <1>2, <1>3 DEF HandleKept

\* A good view counts references, to files of a layout.
LEMMA CountOfGood ==
  ASSUME NEW v, NEW call, NEW L, NEW E, GoodView(v, call, L, E)
  PROVE  IsCount(E) /\ Heads(L)
BY DEF GoodView, Handling, Layout

\* A reference more is one at least.
LEMMA OneMoreThere ==
  ASSUME NEW E, IsCount(E), NEW x \in Slots, NEW b \in Blocks
  PROVE  More(E, x, b)[<< x, b >>] > 0
<1>1. OneMore(More(E, x, b), E, x, b)
  BY MoreCounts
<1> PICK p : p = << x, b >>
  OBVIOUS
<1>2. E[p] \in Nat
  BY DEF IsCount
<1>3. More(E, x, b)[p] = E[p] + 1
  BY <1>1 DEF OneMore
<1> QED BY <1>2, <1>3

\* One reference more and another one less.
LEMMA MoreAndLess ==
  ASSUME NEW E, IsCount(E), NEW x \in Slots, NEW b \in Blocks, NEW y \in Slots, NEW c \in Blocks
  PROVE  Less(More(More(E, x, b), y, c), x, b) = More(E, y, c)
<1> PICK p, q, S : p = << x, b >> /\ q = << y, c >> /\ S = Slots \X Blocks
  OBVIOUS
<1> DEFINE up(F, r) == [s \in S |-> IF s = r THEN F[s] + 1 ELSE F[s]]
           down(F) == [s \in S |-> IF s = p THEN F[s] - 1 ELSE F[s]]
<1>1. p \in S /\ q \in S /\ E \in [S -> Nat]
  BY DEF IsCount
<1>2. /\ \A F : More(F, x, b) = up(F, p)
      /\ \A F : More(F, y, c) = up(F, q)
      /\ \A F : Less(F, x, b) = down(F)
  BY DEF More, Less
<1>3. down(up(up(E, p), q)) = up(E, q)
  <2>1. \A s \in S : down(up(up(E, p), q))[s] = up(E, q)[s]
    BY <1>1
  <2> QED BY <2>1
<1> HIDE DEF up, down
<1> QED BY <1>2, <1>3

\* The handle of a directory is closed after one of a file in it has been given, or none.
LEMMA ClosedAfter ==
  ASSUME NEW g, NEW call, NEW L, NEW E, IsCount(E), NEW x \in Slots, NEW h \in Blocks, NEW b,
         Given(g, call, L, More(E, x, h), b), Heads(L)
  PROVE  Given(CloseHandle(g, x), call, L, E, b) /\ CloseHandle(g, x).device = g.device
<1> PICK F, w : F = More(E, x, h) /\ w = CloseHandle(g, x)
  OBVIOUS
<1>1. IsCount(F) /\ F[<< x, h >>] > 0 /\ Less(F, x, h) = E
  BY MoreCounts, OneMoreThere, MoreOrLess DEF OneMore
<1>2. CASE g.ret = NULL
  <2>1. GoodView(g, call, L, F)
    BY <1>2 DEF Given
  <2>2. h = g.handles[x].block_index
    BY <1>1, <2>1, Referred
  <2>3. Closed(w, g, call, L, Less(F, x, h))
    BY ONLY <1>1, <2>1, <2>2, CloseHandleView, w = CloseHandle(g, x), x \in Slots
  <2> QED BY <1>1, <1>2, <2>3 DEF Closed, Given
<1>3. CASE g.ret # NULL
  <2> PICK y, G : y = g.ret /\ G = More(F, y, b)
    OBVIOUS
  <2>1. y \in Slots /\ b \in DOMAIN L /\ b = g.handles[y].block_index /\ GoodView(g, call, L, G)
    BY <1>3 DEF Given
  <2>2. b \in Blocks
    BY <2>1, HeadFacts
  <2>3. IsCount(G) /\ G[<< x, h >>] > 0
    <3>1. OneMore(G, F, y, b)
      BY <1>1, <2>1, <2>2, MoreCounts
    <3> PICK p : p = << x, h >>
      OBVIOUS
    <3>2. F[p] \in Nat /\ F[p] > 0
      BY <1>1 DEF IsCount
    <3>3. IsCount(G) /\ G[p] = F[p] + (IF x = y /\ h = b THEN 1 ELSE 0)
      BY <3>1 DEF OneMore
    <3>4. G[p] > 0
      BY <3>2, <3>3
    <3> QED BY <3>3, <3>4
  <2>4. h = g.handles[x].block_index
    BY <2>1, <2>3, Referred
  <2>5. Closed(w, g, call, L, Less(G, x, h))
    BY ONLY <2>1, <2>3, <2>4, CloseHandleView, w = CloseHandle(g, x), x \in Slots
  <2>6. Less(G, x, h) = More(E, y, b)
    BY <2>1, <2>2, MoreAndLess
  <2>7. GoodView(w, call, L, More(E, y, b)) /\ w.ret = y /\ w.device = g.device
    BY <2>5, <2>6 DEF Closed
  <2>8. b = w.handles[y].block_index
    <3>1. More(E, y, b)[<< y, b >>] > 0
      BY <2>1, <2>2, OneMoreThere
    <3> QED BY <2>1, <2>2, <2>7, <3>1, Referred
  <2> QED BY <1>3, <2>1, <2>7, <2>8 DEF Given
<1> QED BY <1>2, <1>3

\* A handle that was given and is closed leaves the references as they were.
LEMMA ClosedAgain ==
  ASSUME NEW w, NEW call, NEW L, NEW E, IsCount(E), NEW x \in Slots, NEW h \in Blocks,
         GoodView(w, call, L, More(E, x, h))
  PROVE  Closed(CloseHandle(w, x), w, call, L, E)
<1> PICK F : F = More(E, x, h)
  OBVIOUS
<1>1. IsCount(F) /\ F[<< x, h >>] > 0 /\ Less(F, x, h) = E
  BY MoreCounts, OneMoreThere, MoreOrLess DEF OneMore
<1>2. GoodView(w, call, L, F)
  OBVIOUS
<1>3. h = w.handles[x].block_index
  BY <1>1, <1>2, Referred
<1>4. Closed(CloseHandle(w, x), w, call, L, Less(F, x, h))
  BY ONLY <1>1, <1>2, <1>3, CloseHandleView, x \in Slots
<1> QED BY <1>1, <1>4

\* tfsGetFileHandle, as what the caller is given.
LEMMA GivenHandle ==
  ASSUME NEW v, NEW call, NEW L, NEW E, GoodView(v, call, L, E),
         NEW b \in DOMAIN L, NEW dir, InDirectory(v.handles, L, b, dir),
         NEW size, size = L[b].size, NEW g, g = GetFileHandle(v, b, dir, size)
  PROVE  Given(g, call, L, E, b) /\ g.device = v.device
<1>1. Opened(g, v, call, L, E, b)
  BY GetFileHandleView
<1> QED BY <1>1, Sizes DEF Opened, Given

\* A directory on the way is open, or none is.
DirectoryGiven(w, d, call, L, E, b) ==
  /\ Given(w, call, L, E, b) /\ w.device = d
  /\ w.ret # NULL => L[b].mode = "dir"

\* What a call that has opened a directory has of it.
LEMMA GivenFacts ==
  ASSUME NEW w, NEW call, NEW L, NEW E, IsCount(E), NEW b, Given(w, call, L, E, b), w.ret # NULL
  PROVE  /\ w.ret \in Slots /\ b \in DOMAIN L /\ b \in Blocks
         /\ GoodView(w, call, L, More(E, w.ret, b)) /\ Heads(L) /\ Layout(w.device, L)
         /\ b = w.handles[w.ret].block_index
         /\ w.handles[w.ret].current_size = L[b].size
         /\ IsOpen(w.handles, w.ret)
<1> PICK x, F : x = w.ret /\ F = More(E, x, b)
  OBVIOUS
<1>1. x \in Slots /\ b \in DOMAIN L /\ b = w.handles[x].block_index /\ GoodView(w, call, L, F)
  BY DEF Given
<1>2. Heads(L) /\ Layout(w.device, L)
  BY <1>1 DEF GoodView, Layout
<1>3. b \in Blocks
  BY <1>1, <1>2, HeadFacts
<1>4. F[<< x, b >>] > 0
  BY <1>1, <1>3, OneMoreThere
<1>5. w.handles[x].current_size = L[b].size /\ IsOpen(w.handles, x)
  BY <1>1, <1>3, <1>4, Referred
<1> QED BY <1>1, <1>2, <1>3, <1>5

\* tfsOpenPath goes down one name: the directory there is open and the one above is
\* closed, or all is closed.
LEMMA DescendView ==
  ASSUME NEW w, NEW call, NEW L, NEW E, IsCount(E), NEW h, NEW d,
         DirectoryGiven(w, d, call, L, E, h), NEW name \in DirNames
  PROVE  \E b : DirectoryGiven(Descend(w, name), d, call, L, E, b)
<1> PICK x, entry, z : x = w.ret /\ entry = FindEntry(w, x, name) /\ z = Descend(w, name)
  OBVIOUS
<1>0. Given(w, call, L, E, h) /\ w.device = d /\ (w.ret # NULL => L[h].mode = "dir")
  BY DEF DirectoryGiven
<1>1. CASE x = NULL
  <2>1. z = w
    BY <1>1 DEF Descend
  <2> QED BY <2>1
<1>2. CASE x # NULL
  <2>1. /\ x \in Slots /\ h \in DOMAIN L /\ h \in Blocks
        /\ GoodView(w, call, L, More(E, x, h)) /\ Heads(L) /\ Layout(w.device, L)
        /\ h = w.handles[x].block_index /\ w.handles[x].current_size = L[h].size
        /\ IsOpen(w.handles, x)
    BY ONLY <1>0, <1>2, GivenFacts, IsCount(E), x = w.ret
  <2>2. L[h].mode = "dir" /\ name \notin {".", ".."} /\ name \notin FileNames
    BY <1>0, <1>2, TomFSAssumption
  <2>3. FoundEntry(entry, L, h, name)
    BY ONLY <2>1, <2>2, FindEntryValue, entry = FindEntry(w, x, name)
  <2>4. CASE entry = NoEntry
    <3> PICK c : c = CloseHandle(w, x)
      OBVIOUS
    <3>1. z = Return(c, NULL)
      BY <1>2, <2>4 DEF Descend
    <3>2. Closed(c, w, call, L, E)
      BY <2>1, ClosedAgain
    <3>3. GoodView(c, call, L, E) /\ c.device = d
      BY <1>0, <3>2 DEF Closed
    <3>4. ViewIs(z, call, L, E, c.device, c.handles, NULL)
      BY <3>1, <3>3, ReturnView
    <3>5. DirectoryGiven(z, d, call, L, E, h)
      BY <3>3, <3>4 DEF ViewIs, DirectoryGiven, Given
    <3> QED BY <3>5
  <2>5. CASE entry # NoEntry
    <3>1. PICK b \in DOMAIN L \ {RootDirectory} :
            L[b].parent = h /\ L[b].name = name /\ entry = EntryOf(L, b)
      BY <2>3, <2>5 DEF FoundEntry
    <3>2. entry.block_index = b /\ entry.file_size = L[b].size
      BY <3>1 DEF EntryOf, FileEntry
    <3> PICK g, size : g = GetFileHandle(w, b, x, size) /\ size = L[b].size
      OBVIOUS
    <3>3. z = CloseHandle(g, x)
      BY <1>2, <2>5, <3>2 DEF Descend
    <3>4. InDirectory(w.handles, L, b, x)
      BY <2>1, <3>1 DEF InDirectory
    <3> PICK F : F = More(E, x, h)
      OBVIOUS
    <3>5. Given(g, call, L, F, b) /\ g.device = w.device
      <4>1. b \in DOMAIN L /\ size = L[b].size /\ g = GetFileHandle(w, b, x, size)
        BY <3>1
      <4>2. GoodView(w, call, L, F)
        BY <2>1
      <4> QED BY ONLY <3>4, <4>1, <4>2, GivenHandle
    <3>6. Given(z, call, L, E, b) /\ z.device = g.device
      <4>1. Given(g, call, L, More(E, x, h), b)
        BY <3>5
      <4> QED BY ONLY <2>1, <3>3, <4>1, ClosedAfter, IsCount(E)
    <3>7. L[b].mode = "dir"
      <4>1. IsHead(L, b) /\ IsPlaced(L, b)
        BY <2>1, <3>1 DEF Heads
      <4> QED BY <2>2, <3>1, <4>1 DEF IsHead, IsPlaced
    <3>8. DirectoryGiven(z, d, call, L, E, b)
      BY <1>0, <3>5, <3>6, <3>7 DEF DirectoryGiven
    <3> QED BY <3>8
  <2> QED BY <2>4, <2>5
<1> QED BY <1>1, <1>2

\* tfsOpenPath starts at the root directory.
LEMMA RootGiven ==
  ASSUME NEW v, NEW call, NEW L, NEW E, GoodView(v, call, L, E), NEW d, d = v.device
  PROVE  DirectoryGiven(GetFileHandle(v, RootDirectory, NULL, d.root_dir_size),
                        d, call, L, E, RootDirectory)
<1> PICK size, g : size = d.root_dir_size /\ g = GetFileHandle(v, RootDirectory, NULL, size)
  OBVIOUS
<1>1. RootDirectory \in DOMAIN L /\ size = L[RootDirectory].size /\ L[RootDirectory].mode = "dir"
  BY DEF GoodView, Layout, Entered, Heads
<1>2. InDirectory(v.handles, L, RootDirectory, NULL)
  BY DEF InDirectory
<1>3. Given(g, call, L, E, RootDirectory) /\ g.device = v.device
  BY ONLY <1>1, <1>2, GivenHandle, GoodView(v, call, L, E),
          g = GetFileHandle(v, RootDirectory, NULL, size)
<1> QED BY <1>1, <1>3 DEF DirectoryGiven

\* A path of a program: the root directory, or a directory in it.
LEMMA OpenPathValue ==
  ASSUME NEW v, NEW path \in Paths, NEW g,
         g = GetFileHandle(v, RootDirectory, NULL, v.root_dir_size)
  PROVE  /\ path = << >> => OpenPath(v, path) = g
         /\ path # << >> => \E name \in DirNames : OpenPath(v, path) = Descend(g, name)
<1> DEFINE IsWay(f, n) == f = [i \in 0..n |-> IF i = 0 THEN g ELSE Descend(f[i - 1], path[i])]
           Way(n) == CHOOSE f : IsWay(f, n)
<1>1. OpenPath(v, path) = Way(Len(path))[Len(path)]
  BY DEF OpenPath
<1>2. CASE path = << >>
  <2>1. Len(path) = 0
    BY <1>2
  <2> DEFINE f0 == [i \in 0..0 |-> g]
  <2>2. IsWay(f0, 0)
    OBVIOUS
  <2> HIDE DEF f0
  <2> PICK f : f = Way(0)
    OBVIOUS
  <2>3. IsWay(f, 0)
    BY <2>2
  <2>4. f[0] = g
    BY <2>3
  <2> QED BY <1>1, <1>2, <2>1, <2>4
<1>3. CASE path # << >>
  <2>1. PICK name \in DirNames : path = << name >>
    BY <1>3 DEF Paths
  <2>2. Len(path) = 1 /\ path[1] = name
    BY <2>1
  <2> PICK e : e = Descend(g, name)
    OBVIOUS
  <2> DEFINE f0 == [i \in 0..1 |-> IF i = 0 THEN g ELSE e]
  <2>3. IsWay(f0, 1)
    BY <2>2
  <2> HIDE DEF f0
  <2> PICK f : f = Way(1)
    OBVIOUS
  <2>4. IsWay(f, 1)
    BY <2>3
  <2>5. f[0] = g /\ f[1] = Descend(f[0], path[1])
    BY ONLY <2>4
  <2> QED BY <1>1, <2>2, <2>5
<1> QED BY <1>2, <1>3

\* tfsOpenPath opens the directory at the end of the path, or leaves nothing open.
LEMMA OpenPathView ==
  ASSUME NEW v, NEW call, NEW L, NEW E, GoodView(v, call, L, E), NEW path \in Paths
  PROVE  \E b : /\ DirectoryGiven(OpenPath(v, path), v.device, call, L, E, b)
                /\ path = << >> => b = RootDirectory
<1> PICK d, g : d = v.device /\ g = GetFileHandle(v, RootDirectory, NULL, d.root_dir_size)
  OBVIOUS
<1>0. v.root_dir_size = d.root_dir_size
  BY DEF GoodView, IsView
<1>1. DirectoryGiven(g, d, call, L, E, RootDirectory)
  BY RootGiven
<1>2. IsCount(E)
  BY CountOfGood
<1>3. CASE path = << >>
  <2>1. OpenPath(v, path) = g
    <3>1. \A name : << name >> # << >>
      OBVIOUS
    <3> PICK w : w = OpenPath(v, path)
      OBVIOUS
    <3> QED BY <1>0, <1>3, OpenPathValue
  <2> QED BY <1>1, <2>1
<1>4. CASE path # << >>
  <2>1. PICK name \in DirNames : OpenPath(v, path) = Descend(g, name)
    <3> PICK w : w = OpenPath(v, path)
      OBVIOUS
    <3>1. \E name \in DirNames : w = Descend(g, name)
      BY <1>0, <1>4, OpenPathValue
    <3> QED BY <3>1
  <2>2. \E b : DirectoryGiven(Descend(g, name), d, call, L, E, b)
    BY <1>1, <1>2, DescendView
  <2> QED BY <1>4, <2>1, <2>2
<1> QED BY <1>3, <1>4

\* Fewer references need to be counted.
IsFewer(E, F) ==
  /\ IsCount(E) /\ IsCount(F)
  /\ \A x \in Slots, b \in Blocks : E[<< x, b >>] <= F[<< x, b >>]

\* The handles agree with their files whatever is counted twice.
LEMMA FewerHandling ==
  ASSUME NEW hs, NEW L, NEW E, NEW F, Handling(hs, L, F), IsFewer(E, F), Heads(L)
  PROVE  Handling(hs, L, E)
<1>1. \A x \in Slots, b \in Blocks : /\ E[<< x, b >>] \in Nat /\ F[<< x, b >>] \in Nat
                                     /\ E[<< x, b >>] <= F[<< x, b >>]
  BY DEF IsFewer, IsCount
<1>2. ASSUME NEW x \in Slots, IsOpen(hs, x)
      PROVE  HandleKept(hs, L, E, x)
  <2>1. HandleKept(hs, L, F, x) /\ hs[x].ref_count \in Nat
    BY <1>2 DEF Handling, HandleRecords
  <2> PICK b, n, r : b = hs[x].block_index /\ n = Cardinality(OpenIn(hs, x)) /\ r = hs[x].ref_count
    OBVIOUS
  <2>2. b \in Blocks /\ n \in Nat /\ r \in Nat
    BY <2>1, HeadFacts, OpenInFinite DEF HandleKept
  <2>3. r >= F[<< x, b >>] + n
    BY <2>1 DEF HandleKept
  <2> PICK i, j : i = E[<< x, b >>] /\ j = F[<< x, b >>]
    OBVIOUS
  <2>4. i \in Nat /\ j \in Nat /\ i <= j
    BY <1>1, <2>2
  <2>5. r >= i + n
    <3>1. r >= j + n
      BY <2>3
    <3> QED BY ONLY <2>2, <2>4, <3>1
  <2> QED BY <2>1, <2>5 DEF HandleKept
<1>3. References(hs, E)
  <2>1. ASSUME NEW x \in Slots, NEW b \in Blocks, E[<< x, b >>] > 0
        PROVE  b # 0 /\ hs[x].block_index = b
    <3>1. F[<< x, b >>] > 0
      BY <1>1, <2>1
    <3> QED BY <3>1 DEF Handling, References
  <2> QED BY <2>1 DEF References
<1>4. IsCount(E)
  BY DEF IsFewer
<1> QED BY <1>2, <1>3, <1>4 DEF Handling

\* A view is good for fewer references.
LEMMA FewerView ==
  ASSUME NEW v, NEW call, NEW L, NEW E, NEW F, GoodView(v, call, L, F), IsFewer(E, F)
  PROVE  GoodView(v, call, L, E)
<1>1. IsView(v) /\ Past(v, call) /\ Layout(v.device, L) /\ Handling(v.handles, L, F) /\ Heads(L)
  BY DEF GoodView, Layout
<1>2. Handling(v.handles, L, E)
  BY <1>1, FewerHandling
<1> QED BY <1>1, <1>2 DEF GoodView

\* Fewer references, one more of each.
LEMMA MoreIsMore ==
  ASSUME NEW E, IsCount(E), NEW x \in Slots, NEW b \in Blocks
  PROVE  /\ IsFewer(E, More(E, x, b))
         /\ \A F : IsFewer(F, E) => IsFewer(More(F, x, b), More(E, x, b))
<1>1. ASSUME NEW F, IsCount(F)
      PROVE  /\ IsCount(More(F, x, b))
             /\ \A y \in Slots, c \in Blocks :
                  /\ F[<< y, c >>] \in Nat
                  /\ More(F, x, b)[<< y, c >>] = F[<< y, c >>] + (IF y = x /\ c = b THEN 1 ELSE 0)
  <2>1. OneMore(More(F, x, b), F, x, b)
    BY <1>1, MoreCounts
  <2>2. \A y \in Slots, c \in Blocks : F[<< y, c >>] \in Nat
    BY <1>1 DEF IsCount
  <2> QED BY <2>1, <2>2 DEF OneMore
<1>2. IsFewer(E, More(E, x, b))
  <2> PICK G : G = More(E, x, b)
    OBVIOUS
  <2>1. ASSUME NEW y \in Slots, NEW c \in Blocks PROVE E[<< y, c >>] <= G[<< y, c >>]
    <3> PICK i, j : i = E[<< y, c >>] /\ j = G[<< y, c >>]
      OBVIOUS
    <3>1. i \in Nat /\ j = i + (IF y = x /\ c = b THEN 1 ELSE 0)
      BY <1>1
    <3> QED BY <3>1
  <2>2. IsCount(G)
    BY <1>1
  <2> QED BY <2>1, <2>2 DEF IsFewer
<1>3. ASSUME NEW F, IsFewer(F, E)
      PROVE  IsFewer(More(F, x, b), More(E, x, b))
  <2>0. IsCount(F) /\ \A y \in Slots, c \in Blocks : F[<< y, c >>] <= E[<< y, c >>]
    BY <1>3 DEF IsFewer
  <2> PICK G, H : G = More(E, x, b) /\ H = More(F, x, b)
    OBVIOUS
  <2>1. ASSUME NEW y \in Slots, NEW c \in Blocks PROVE H[<< y, c >>] <= G[<< y, c >>]
    <3> PICK i, j, k, l, one : /\ i = E[<< y, c >>] /\ j = G[<< y, c >>]
                               /\ k = F[<< y, c >>] /\ l = H[<< y, c >>]
                               /\ one = IF y = x /\ c = b THEN 1 ELSE 0
      OBVIOUS
    <3>1. i \in Nat /\ j = i + one /\ k \in Nat /\ l = k + one /\ k <= i /\ one \in {0, 1}
      BY <1>1, <2>0
    <3>2. l <= j
      BY ONLY <3>1
    <3> QED BY <3>2
  <2>2. IsCount(G) /\ IsCount(H)
    BY <1>1, <2>0
  <2> QED BY <2>1, <2>2 DEF IsFewer
<1> QED BY <1>2, <1>3

\* The handle of a directory may stay open.
LEMMA GivenFewer ==
  ASSUME NEW g, NEW call, NEW L, NEW E, NEW F, NEW b, Given(g, call, L, F, b), IsFewer(E, F)
  PROVE  Given(g, call, L, E, b)
<1>1. CASE g.ret = NULL
  BY <1>1, FewerView DEF Given
<1>2. CASE g.ret # NULL
  <2>0. IsCount(F)
    BY DEF IsFewer
  <2> PICK y : y = g.ret
    OBVIOUS
  <2>1. /\ y \in Slots /\ b \in DOMAIN L /\ b \in Blocks /\ b = g.handles[y].block_index
        /\ GoodView(g, call, L, More(F, y, b))
    <3>1. /\ y \in Slots /\ b \in DOMAIN L /\ b = g.handles[y].block_index
          /\ GoodView(g, call, L, More(F, y, b))
      BY <1>2 DEF Given
    <3>2. Heads(L)
      BY <3>1, CountOfGood
    <3>3. b \in Blocks
      BY <3>1, <3>2, HeadFacts
    <3> QED BY <3>1, <3>3
  <2>2. IsFewer(More(E, y, b), More(F, y, b))
    BY <2>0, <2>1, MoreIsMore
  <2>3. GoodView(g, call, L, More(E, y, b))
    BY <2>1, <2>2, FewerView
  <2> QED BY <1>2, <2>1, <2>3 DEF Given
<1> QED BY <1>1, <1>2

\* tfsOpenFile gives a handle of the file of that name, or none.
LEMMA OpenFileView ==
  ASSUME NEW v, NEW call, NEW L, NEW E, GoodView(v, call, L, E), NEW path \in Paths,
         NEW name \in FileNames
  PROVE  \E b : /\ Given(OpenFile(v, path, name), call, L, E, b)
                /\ OpenFile(v, path, name).device = v.device
<1> PICK w, d, z : w = OpenPath(v, path) /\ d = v.device /\ z = OpenFile(v, path, name)
  OBVIOUS
<1>1. PICK h : DirectoryGiven(w, d, call, L, E, h)
  BY OpenPathView
<1>2. /\ IsCount(E) /\ Given(w, call, L, E, h) /\ (w.ret # NULL => L[h].mode = "dir")
      /\ w.device = v.device
  BY <1>1, CountOfGood DEF DirectoryGiven
<1>3. CASE w.ret = NULL
  <2>1. z = w
    BY <1>3 DEF OpenFile
  <2> QED BY <1>2, <2>1
<1>4. CASE w.ret # NULL
  <2> PICK x, entry, F : x = w.ret /\ entry = FindEntry(w, x, name) /\ F = More(E, x, h)
    OBVIOUS
  <2>1. /\ x \in Slots /\ h \in DOMAIN L /\ h \in Blocks
        /\ GoodView(w, call, L, F) /\ Heads(L) /\ Layout(w.device, L)
        /\ h = w.handles[x].block_index /\ w.handles[x].current_size = L[h].size
    BY ONLY <1>2, <1>4, GivenFacts, x = w.ret, F = More(E, x, h)
  <2>2. L[h].mode = "dir" /\ name \notin {".", ".."}
    BY <1>2, <1>4, TomFSAssumption
  <2>3. FoundEntry(entry, L, h, name)
    BY ONLY <2>1, <2>2, FindEntryValue, entry = FindEntry(w, x, name)
  <2>4. IsFewer(E, F)
    BY <1>2, <2>1, MoreIsMore
  <2>5. CASE entry = NoEntry
    <3>1. z = Return(w, NULL)
      BY <1>4, <2>5 DEF OpenFile
    <3>2. ViewIs(z, call, L, F, w.device, w.handles, NULL)
      BY <2>1, <3>1, ReturnView
    <3>3. GoodView(z, call, L, F) /\ z.ret = NULL /\ z.device = v.device
      BY <1>2, <3>2 DEF ViewIs
    <3>4. Given(z, call, L, E, h)
      BY <2>4, <3>3, FewerView DEF Given
    <3> QED BY <3>3, <3>4
  <2>6. CASE entry # NoEntry
    <3>1. PICK b \in DOMAIN L \ {RootDirectory} :
            L[b].parent = h /\ L[b].name = name /\ entry = EntryOf(L, b)
      BY <2>3, <2>6 DEF FoundEntry
    <3>2. entry.block_index = b /\ entry.file_size = L[b].size
      BY <3>1 DEF EntryOf, FileEntry
    <3> PICK size : size = L[b].size
      OBVIOUS
    <3>3. z = GetFileHandle(w, b, x, size)
      BY <1>4, <2>6, <3>2 DEF OpenFile
    <3>4. InDirectory(w.handles, L, b, x)
      BY <2>1, <3>1 DEF InDirectory
    <3>5. Given(z, call, L, F, b) /\ z.device = w.device
      <4>1. b \in DOMAIN L /\ size = L[b].size
        BY <3>1
      <4> QED BY ONLY <2>1, <3>3, <3>4, <4>1, GivenHandle
    <3>6. Given(z, call, L, E, b)
      BY <2>4, <3>5, GivenFewer
    <3>7. z.device = v.device
      BY <1>2, <3>5
    <3> QED BY <3>6, <3>7
  <2> QED BY <2>5, <2>6
<1> QED BY <1>3, <1>4

\* A new file is given with its mode, or none is.
Created(w, call, M, E, b, mode) ==
  Given(w, call, M, E, b) /\ (w.ret # NULL => M[b].mode = mode)

\* The directory is closed, and no handle is given.
LEMMA NoneCreated ==
  ASSUME NEW w, NEW call, NEW L, NEW E, IsCount(E), NEW x \in Slots, NEW h \in Blocks,
         GoodView(w, call, L, More(E, x, h)), NEW mode
  PROVE  /\ Created(Return(CloseHandle(w, x), NULL), call, L, E, h, mode)
         /\ w.ret = NULL => Created(CloseHandle(w, x), call, L, E, h, mode)
<1> PICK c, z : c = CloseHandle(w, x) /\ z = Return(c, NULL)
  OBVIOUS
<1>1. Closed(c, w, call, L, E)
  BY ClosedAgain
<1>2. GoodView(c, call, L, E) /\ c.ret = w.ret
  BY <1>1 DEF Closed
<1>3. ViewIs(z, call, L, E, c.device, c.handles, NULL)
  BY <1>2, ReturnView
<1> QED BY <1>2, <1>3 DEF ViewIs, Created, Given

\* tfsCreateFile: a block is taken and its entry made, and a handle of it is given, or
\* what was made so far stays, and no handle.
LEMMA CreateFileView ==
  ASSUME NEW v, NEW call, NEW L, NEW E, GoodView(v, call, L, E), NEW path \in Paths,
         NEW mode, NEW name,
         \/ mode = "file" /\ name \in FileNames
         \/ mode = "dir" /\ name \in DirNames /\ path = << >>,
         NEW coin
  PROVE  \E M, b : Created(CreateFile(v, path, mode, name, coin), call, M, E, b, mode)
<1> PICK w, d, z : w = OpenPath(v, path) /\ d = v.device /\ z = CreateFile(v, path, mode, name, coin)
  OBVIOUS
<1>1. PICK h : DirectoryGiven(w, d, call, L, E, h) /\ (path = << >> => h = RootDirectory)
  BY OpenPathView
<1>2. IsCount(E) /\ Given(w, call, L, E, h) /\ (w.ret # NULL => L[h].mode = "dir")
  BY <1>1, CountOfGood DEF DirectoryGiven
<1>3. CASE w.ret = NULL
  <2>1. z = w
    BY <1>3 DEF CreateFile
  <2>2. Created(z, call, L, E, h, mode)
    BY <1>2, <1>3, <2>1 DEF Created
  <2> QED BY <2>2
<1>4. CASE w.ret # NULL
  <2> PICK x, F, taken, created : /\ x = w.ret /\ F = More(E, x, h)
                                  /\ taken = AllocateBlock(w, RootDirectory, coin)
                                  /\ created = Number(taken)
    OBVIOUS
  <2> PICK b, entered, g : /\ b = created.ret
                           /\ entered = AppendDirectoryEntry(created, x, mode, b, name, coin)
                           /\ g = GetFileHandle(entered, b, x, 0)
    OBVIOUS
  <2>0. z = IF b = NULL THEN CloseHandle(created, x)
            ELSE IF entered.ret = FAILED THEN Return(CloseHandle(entered, x), NULL)
            ELSE CloseHandle(g, x)
    BY <1>4 DEF CreateFile
  <2>1. /\ x \in Slots /\ h \in DOMAIN L /\ h \in Blocks
        /\ GoodView(w, call, L, F) /\ Heads(L)
        /\ h = w.handles[x].block_index /\ IsOpen(w.handles, x)
    BY ONLY <1>2, <1>4, GivenFacts, x = w.ret, F = More(E, x, h)
  <2>2. L[h].mode = "dir" /\ Nameable(mode, h, name)
    BY <1>1, <1>2, <1>4 DEF Nameable
  <2>3. Allocated(taken, w, call, L, F)
    <3>1. RootDirectory \in Nat /\ RootDirectory > 1
      BY DEF RootDirectory
    <3> QED BY <2>1, <3>1, AllocateBlockView
  <2>4. /\ GoodView(created, call, L, F) /\ created.handles = w.handles
        /\ b # NULL => created = taken
    <3>1. GoodView(taken, call, L, F) /\ taken.handles = w.handles
      BY <2>3 DEF Allocated
    <3>2. WriteHeader(taken) = taken
      BY <3>1 DEF WriteHeader, GoodView, IsView
    <3> PICK r : r = Return(taken, NULL)
      OBVIOUS
    <3>3. ViewIs(r, call, L, F, taken.device, taken.handles, NULL)
      BY ONLY <3>1, ReturnView, r = Return(taken, NULL)
    <3>4. created = r \/ created = taken
      BY <3>2 DEF Number
    <3> QED BY <3>1, <3>3, <3>4 DEF ViewIs
  <2>5. CASE b = NULL
    <3>1. GoodView(created, call, L, More(E, x, h)) /\ z = CloseHandle(created, x)
      BY <2>0, <2>4, <2>5
    <3>2. Created(z, call, L, E, h, mode)
      BY <1>2, <2>1, <2>5, <3>1, NoneCreated
    <3> QED BY <3>2
  <2>6. CASE b # NULL
    <3>1. Spare(created.device, L, b)
      BY <2>3, <2>4, <2>6 DEF Allocated
    <3>2. IsDirectory(created, L, x, h)
      BY <2>1, <2>2, <2>4 DEF IsDirectory
    <3>3. PICK M : EntryMade(entered, created, call, F, h, mode, b, M)
      BY ONLY <2>2, <2>4, <3>1, <3>2, DirectoryEntryView,
              entered = AppendDirectoryEntry(created, x, mode, b, name, coin)
    <3>4. GoodView(entered, call, M, F) /\ SameOpen(entered.handles, created.handles)
      BY <3>3 DEF EntryMade
    <3>5. CASE entered.ret = FAILED
      <4>1. GoodView(entered, call, M, More(E, x, h)) /\ z = Return(CloseHandle(entered, x), NULL)
        BY <2>0, <2>6, <3>4, <3>5
      <4>2. Created(z, call, M, E, h, mode)
        BY <1>2, <2>1, <4>1, NoneCreated
      <4> QED BY <4>2
    <3>6. CASE entered.ret # FAILED
      <4>1. /\ b \in DOMAIN M /\ M[b].parent = h /\ M[b].size = 0 /\ M[b].mode = mode
            /\ b # RootDirectory
        BY <3>3, <3>6 DEF EntryMade
      <4>2. InDirectory(entered.handles, M, b, x)
        BY <2>1, <2>4, <3>4, <4>1 DEF InDirectory, SameOpen
      <4> PICK size : size = 0
        OBVIOUS
      <4>3. Given(g, call, M, F, b) /\ g.device = entered.device
        <5>1. b \in DOMAIN M /\ size = M[b].size /\ g = GetFileHandle(entered, b, x, size)
          BY <4>1
        <5> QED BY ONLY <3>4, <4>2, <5>1, GivenHandle
      <4>4. z = CloseHandle(g, x)
        BY <2>0, <2>6, <3>6
      <4>5. Given(z, call, M, E, b) /\ z.device = g.device
        <5>1. Given(g, call, M, More(E, x, h), b)
          BY <4>3
        <5>2. Heads(M)
          BY <3>4, CountOfGood
        <5> QED BY ONLY <1>2, <2>1, <4>4, <5>1, <5>2, ClosedAfter
      <4>6. Created(z, call, M, E, b, mode)
        BY <4>1, <4>5 DEF Created
      <4> QED BY <4>6
    <3> QED BY <3>5, <3>6
  <2> QED BY <2>5, <2>6
<1> QED BY <1>3, <1>4

\* tfsCreateDirectory: a file whose first cells are the two dots.
LEMMA CreateDirectoryView ==
  ASSUME NEW v, NEW call, NEW L, NEW E, GoodView(v, call, L, E), NEW path, path = << >>,
         NEW name \in DirNames, NEW coin
  PROVE  \E M, b : Given(CreateDirectory(v, path, name, coin), call, M, E, b)
<1> PICK c, z : c = CreateFile(v, path, "dir", name, coin) /\ z = CreateDirectory(v, path, name, coin)
  OBVIOUS
<1>0. z = IF c.ret = NULL THEN c ELSE AppendDots(c, c.ret, coin)
  BY DEF CreateDirectory
<1>1. PICK L1, b : Created(c, call, L1, E, b, "dir")
  <2>1. path \in Paths
    BY DEF Paths
  <2> QED BY <2>1, CreateFileView
<1>2. IsCount(E) /\ Given(c, call, L1, E, b) /\ (c.ret # NULL => L1[b].mode = "dir")
  BY <1>1, CountOfGood DEF Created
<1>3. CASE c.ret = NULL
  BY <1>0, <1>2, <1>3
<1>4. CASE c.ret # NULL
  <2> PICK x, F : x = c.ret /\ F = More(E, x, b)
    OBVIOUS
  <2>1. /\ x \in Slots /\ b \in DOMAIN L1 /\ b \in Blocks
        /\ GoodView(c, call, L1, F) /\ b = c.handles[x].block_index /\ IsOpen(c.handles, x)
    BY ONLY <1>2, <1>4, GivenFacts, x = c.ret, F = More(E, x, b)
  <2>2. IsDirectory(c, L1, x, b)
    BY <1>2, <1>4, <2>1 DEF IsDirectory
  <2> PICK a : a = AppendDots(c, x, coin)
    OBVIOUS
  <2>3. PICK M : Dotted(a, c, call, F, x, b, M) /\ a.ret = x
    BY ONLY <2>1, <2>2, AppendDotsView, a = AppendDots(c, x, coin)
  <2>4. GoodView(a, call, M, F) /\ IsDirectory(a, M, x, b)
    BY <2>3 DEF Dotted
  <2>5. b \in DOMAIN M
    BY <2>4, DirectorySize DEF IsDirectory
  <2>6. z = a
    BY <1>0, <1>4
  <2>7. Given(z, call, M, E, b)
    BY <1>4, <2>1, <2>3, <2>4, <2>5, <2>6 DEF Given, IsDirectory
  <2> QED BY <2>7
<1> QED BY <1>3, <1>4

\* The one directory of a new volume.
NewRoot == NewFile(RootDirectory, "dir", RootDirectory, 0, ".")
NewFiles == [h \in {RootDirectory} |-> NewRoot]
NoReferences == [p \in Slots \X Blocks |-> 0]
FreeHandles == [h \in Slots |-> FreeHandle]

BareDevice(taken) ==
  [marked |-> taken, block |-> [b \in Blocks |-> EmptyBlock], root_dir_size |-> 0]

\* The root directory of a new volume, alone and empty.
LEMMA NewFilesAre ==
  /\ DOMAIN NewFiles = {RootDirectory} /\ NewFiles = [h \in DOMAIN NewFiles |-> NewFiles[h]]
  /\ NewFiles[RootDirectory].line = << RootDirectory >>
  /\ Len(NewFiles[RootDirectory].line) = 1 /\ NewFiles[RootDirectory].line[1] = RootDirectory
  /\ NewFiles[RootDirectory].size = 0
  /\ NewFiles[RootDirectory].mode = "dir" /\ NewFiles[RootDirectory].parent = RootDirectory
  /\ NewFiles[RootDirectory].slot = 0
  /\ RootDirectory \in Blocks \ {NULL, BitmapBlock} /\ BitmapBlock \in Blocks
BY TomFSAssumption DEF NewFiles, NewRoot, NewFile, RootDirectory, BitmapBlock, NULL, Blocks

\* The device as tfsInitFilesystem has it before the dots of the root directory.
LEMMA BareLayout == Layout(BareDevice({BitmapBlock, RootDirectory}), NewFiles)
<1> PICK L, r, d, line : /\ L = NewFiles /\ r = RootDirectory
                         /\ d = BareDevice({BitmapBlock, RootDirectory}) /\ line = << RootDirectory >>
  OBVIOUS
<1>1. /\ DOMAIN L = {r} /\ L[r].line = line /\ L[r].size = 0 /\ L[r].mode = "dir"
      /\ L[r].parent = r /\ L[r].slot = 0 /\ r \in Blocks \ {NULL, BitmapBlock}
      /\ Len(line) = 1 /\ line[1] = r /\ L = [h \in DOMAIN L |-> L[h]]
  BY NewFilesAre
<1>2. IsDevice(d) /\ d.root_dir_size = 0 /\ \A b \in Blocks : d.block[b] = EmptyBlock
  <2>1. /\ d.marked = {BitmapBlock, RootDirectory} /\ d.root_dir_size = 0
        /\ d.block = [b \in Blocks |-> EmptyBlock]
        /\ d = [marked |-> d.marked, block |-> d.block, root_dir_size |-> d.root_dir_size]
    BY DEF BareDevice
  <2>2. BitmapBlock \in Nat /\ RootDirectory \in Nat
    BY DEF BitmapBlock, RootDirectory
  <2>3. \A b \in Blocks : IsBlock(d.block[b])
    BY <2>1, EmptyBlockIsBlock
  <2> QED BY <2>1, <2>2, <2>3 DEF IsDevice
<1>3. Heads(L)
  <2>1. IsHead(L, r)
    <3>1. L[r] = [line |-> L[r].line, size |-> L[r].size, mode |-> L[r].mode,
                  parent |-> L[r].parent, slot |-> L[r].slot, name |-> L[r].name]
      BY DEF NewFiles, NewRoot, NewFile
    <3>2. line \in Seq(Blocks \ {NULL, BitmapBlock})
      BY NewFilesAre
    <3>3. 0 <= 1 * BlockCells
      BY Sizes
    <3> QED BY <1>1, <3>1, <3>2, <3>3 DEF IsHead
  <2>2. Apart(L)
    BY <1>1 DEF Apart
  <2> QED BY <1>1, <2>1, <2>2 DEF Heads
<1>4. Linked(d, L)
  <2>1. r \in d.marked
    BY DEF BareDevice
  <2>2. d.block[r].next_block = NULL
    BY <1>1, <1>2, EmptyBlockIsBlock
  <2>3. IsLinked(d, line)
    BY <1>1, <2>1, <2>2 DEF IsLinked
  <2> QED BY <1>1, <2>3 DEF Linked
<1>5. Entered(d, L)
  BY <1>1, <1>2 DEF Entered
<1>6. Seen(d, L)
  BY <1>1 DEF Seen
<1> QED BY <1>2, <1>3, <1>4, <1>5, <1>6 DEF Layout

\* With no handle open nothing is referred to.
LEMMA FreeHandling ==
  ASSUME NEW L
  PROVE  Handling(FreeHandles, L, NoReferences)
<1>1. FreeHandle \in HandleRecords /\ FreeHandle.block_index = 0
  BY Sizes DEF FreeHandle, HandleRecords, Blocks, NULL
<1>2. FreeHandles \in [Slots -> HandleRecords] /\ \A x \in Slots : ~ IsOpen(FreeHandles, x)
  BY <1>1 DEF FreeHandles, IsOpen
<1>3. IsCount(NoReferences)
  BY DEF IsCount, NoReferences
<1>4. \A x \in Slots, b \in Blocks : NoReferences[<< x, b >>] = 0
  BY DEF NoReferences
<1> QED BY <1>2, <1>3, <1>4 DEF Handling, OneHandleEach, References

\* Nothing is promised of a volume just formatted.
LEMMA BareHonours == \A d : Honours(d, NewFiles, << >>)
<1>1. DOMAIN << >> = {}
  OBVIOUS
<1>2. \A h \in DOMAIN NewFiles : NewFiles[h].mode = "dir"
  BY NewFilesAre
<1>3. ASSUME NEW d, NEW h \in DOMAIN NewFiles PROVE Truthful(d, NewFiles, << >>, h)
  BY <1>2 DEF Truthful
<1> QED BY <1>1, <1>3 DEF Honours

\* A volume just formatted has a layout.
LEMMA FormattedLayout == \E M : Layout(FormattedDevice, M) /\ Honours(FormattedDevice, M, << >>)
<1> PICK e, d, v, E : /\ e = BareDevice({BitmapBlock}) /\ E = NoReferences
                      /\ d = BareDevice({BitmapBlock, RootDirectory}) /\ v = NewView(e, FreeHandles, 0, NoFailures)
  OBVIOUS
<1> PICK root, g, a : /\ root = AllocateBlock(v, RootDirectory, "low")
                      /\ g = GetFileHandle(root, RootDirectory, NULL, 0)
                      /\ a = AppendDots(g, 1, "low")
  OBVIOUS
<1> PICK w, z : w = Write(v, d) /\ z = Write(w, d)
  OBVIOUS
<1> PICK call : call = [device |-> e, promise |-> << >>, first |-> 0, value |-> NULL]
  OBVIOUS
<1>0. call.device = e /\ call.promise = << >>
  OBVIOUS
<1>1. /\ v = [device |-> e, handles |-> FreeHandles, root_dir_size |-> 0,
              writes |-> << >>, ret |-> NULL, failures |-> NoFailures]
      /\ v.failures = NoFailures
  BY DEF NewView
<1>2. root = Return(z, RootDirectory)
  <2>1. RootDirectory \notin e.marked /\ RootDirectory # NULL /\ RootDirectory \in Blocks
    BY NewFilesAre DEF BareDevice, RootDirectory, BitmapBlock
  <2>2. [e EXCEPT !.marked = @ \cup {RootDirectory}] = d
    <3>1. {BitmapBlock} \cup {RootDirectory} = {BitmapBlock, RootDirectory}
      OBVIOUS
    <3> QED BY ONLY <3>1, e = BareDevice({BitmapBlock}),
                    d = BareDevice({BitmapBlock, RootDirectory}) DEF BareDevice
  <2>3. w.device = d
    BY <1>1 DEF Write
  <2>4. [d EXCEPT !.block[RootDirectory] = EmptyBlock] = d
    BY ONLY d = BareDevice({BitmapBlock, RootDirectory}) DEF BareDevice
  <2>5. v.device = e
    BY <1>1
  <2>a. ~ Fails(v) /\ ~ FailsUnnoticed(v) /\ ~ Fails(w)
    <3>1. w.failures = NoFailures
      BY <1>1 DEF Write
    <3>2. NoFailures.reported = {} /\ NoFailures.ignored = {}
      BY DEF NoFailures
    <3> QED BY <1>1, <3>1, <3>2 DEF Fails, FailsUnnoticed
  <2>6. root = Return(Write(w, [w.device EXCEPT !.block[RootDirectory] = EmptyBlock]), RootDirectory)
    BY <2>1, <2>2, <2>5, <2>a, Zenon DEF AllocateBlock
  <2> QED BY <2>3, <2>4, <2>6
<1> PICK L : L = NewFiles
  OBVIOUS
<1>3. Layout(d, L) /\ Handling(FreeHandles, L, E) /\ Honours(d, L, call.promise)
  BY <1>0, BareLayout, FreeHandling, BareHonours
<1>4. GoodView(root, call, L, E)
  <2>1. IsView(v) /\ v.handles = FreeHandles
    <3>1. /\ v.device = e /\ v.handles = FreeHandles /\ v.writes = << >> /\ v.ret = NULL
          /\ v.root_dir_size = 0 /\ v.failures = NoFailures
      BY ONLY <1>1
    <3>2. e.root_dir_size = 0 /\ NoFailures.ignored = {}
      BY DEF BareDevice, NoFailures
    <3> QED BY ONLY <1>1, <3>1, <3>2 DEF IsView
  <2>2. Past(v, call)
    <3>1. v.writes = << >> /\ v.device = e
      BY <1>1
    <3> PICK S : S = {}
      OBVIOUS
    <3>2. v.writes \in Seq(S)
      BY ONLY <3>1
    <3>3. \A x \in S : GoodDevice(x, call.promise)
      OBVIOUS
    <3> QED BY <1>0, <3>1, <3>2, <3>3 DEF Past
  <2>b. v.device.root_dir_size = d.root_dir_size
    <3>1. e.root_dir_size = 0 /\ d.root_dir_size = 0
      BY DEF BareDevice
    <3> QED BY <1>1, <3>1
  <2>3. ViewIs(w, call, L, E, d, v.handles, v.ret)
    BY <1>3, <2>1, <2>2, <2>b, WriteView
  <2>4. GoodView(w, call, L, E) /\ w.handles = FreeHandles /\ w.device = d
    BY <2>1, <2>3 DEF ViewIs
  <2>5. ViewIs(z, call, L, E, d, w.handles, w.ret)
    <3>1. IsView(w) /\ Past(w, call) /\ Handling(w.handles, L, E)
      BY <2>4 DEF GoodView
    <3> QED BY <1>3, <2>4, <3>1, WriteView
  <2>6. GoodView(z, call, L, E)
    BY <2>5 DEF ViewIs
  <2>7. ViewIs(root, call, L, E, z.device, z.handles, RootDirectory)
    BY <1>2, <2>6, ReturnView
  <2> QED BY <2>7 DEF ViewIs
<1>5. root.ret = RootDirectory /\ root.handles = FreeHandles
  <2>1. w.handles = FreeHandles /\ z.handles = FreeHandles
    BY <1>1 DEF Write
  <2> QED BY <1>1, <1>2, <2>1 DEF Return, Write
<1>6. Given(g, call, L, E, RootDirectory)
  <2>1. RootDirectory \in DOMAIN L /\ L[RootDirectory].size = 0
    BY NewFilesAre
  <2>2. InDirectory(root.handles, L, RootDirectory, NULL)
    BY DEF InDirectory
  <2> PICK size : size = 0
    OBVIOUS
  <2>3. Given(g, call, L, E, RootDirectory) /\ g.device = root.device
    <3>1. size = L[RootDirectory].size /\ g = GetFileHandle(root, RootDirectory, NULL, size)
      BY <2>1
    <3> QED BY ONLY <1>4, <2>1, <2>2, <3>1, GivenHandle
  <2> QED BY <2>3
<1>7. g.ret = 1 /\ 1 \in Slots
  <2>1. 1 \in Slots /\ Slots \subseteq Int /\ \A x \in Slots : 1 <= x
    BY TomFSAssumption DEF Slots
  <2>2. Min(Slots) = 1
    <3>1. \E m \in Slots : \A y \in Slots : m <= y
      BY <2>1
    <3> PICK m : m = Min(Slots)
      OBVIOUS
    <3>2. m \in Slots /\ \A y \in Slots : m <= y
      BY <3>1 DEF Min
    <3> QED BY ONLY <2>1, <3>2, m = Min(Slots)
  <2>3. {h \in Slots : root.handles[h].block_index = RootDirectory} = {}
    BY <1>5 DEF FreeHandles, FreeHandle, RootDirectory
  <2>4. {h \in Slots : root.handles[h].block_index = 0} = Slots
    BY <1>5 DEF FreeHandles, FreeHandle
  <2>5. \E v1 : g = Return(v1, Min(Slots))
    <3>1. Slots # {}
      BY <2>1
    <3> QED BY <2>3, <2>4, <3>1, Zenon DEF GetFileHandle
  <2>7. IsView(g)
    BY <1>6 DEF Given, GoodView
  <2>8. g.ret = Min(Slots)
    <3> PICK v1, r : g = Return(v1, r) /\ r = Min(Slots)
      BY <2>5
    <3>1. g = [v1 EXCEPT !.ret = r]
      BY DEF Return
    <3>2. "ret" \in DOMAIN v1
      BY <2>7, <3>1 DEF IsView
    <3> QED BY <3>1, <3>2
  <2> QED BY <2>1, <2>2, <2>8
<1> PICK F : F = More(E, 1, RootDirectory)
  OBVIOUS
<1>8. GoodView(g, call, L, F) /\ IsDirectory(g, L, 1, RootDirectory)
  <2>1. 1 # NULL
    BY DEF NULL
  <2>2. GoodView(g, call, L, F) /\ g.handles[1].block_index = RootDirectory
    BY <1>6, <1>7, <2>1 DEF Given
  <2>3. L[RootDirectory].mode = "dir" /\ RootDirectory # 0
    BY NewFilesAre DEF RootDirectory
  <2> QED BY <1>7, <2>2, <2>3 DEF IsDirectory, IsOpen
<1>9. \E M : Dotted(a, g, call, F, 1, RootDirectory, M) /\ a.ret = 1
  BY ONLY <1>8, AppendDotsView, a = AppendDots(g, 1, "low")
<1>10. FormattedDevice = a.device
  BY <1>5 DEF FormattedDevice, FreeHandles, BareDevice
<1> QED BY <1>0, <1>9, <1>10 DEF Dotted, GoodView

TimesHeld(t, hd) == IF t \in DOMAIN hd THEN hd[t] ELSE 0

\* How often the program holds each handle, with the file it was given for.
Copies(hd) ==
  [p \in Slots \X Blocks |-> TimesHeld([handle |-> p[1], block |-> p[2]], hd)]

IsToken(t) == \E x \in Slots, b \in Blocks : t = [handle |-> x, block |-> b]

IsHeld(hd) ==
  /\ hd = [t \in DOMAIN hd |-> hd[t]]
  /\ \A t \in DOMAIN hd : IsToken(t) /\ hd[t] \in Nat \ {0}

IsPromise(p) ==
  /\ p = [size |-> p.size, cells |-> p.cells]
  /\ p.size \in Nat /\ p.cells = [i \in 0..(MaxFileCells - 1) |-> p.cells[i]]
  /\ \A i \in 0..(MaxFileCells - 1) : p.cells[i] \subseteq Anything

IsPromises(P) == \A b \in DOMAIN P : IsPromise(P[b])

\* Every write still to come leaves a device that is good for the promise.
Arriving(pd, pr) == \E S : pd \in Seq(S) /\ \A d \in S : GoodDevice(d, pr)

\* What the device holds when the call in progress has returned.
Reached(dv, pd) == IF pd = << >> THEN dv ELSE pd[Len(pd)]

\* What a call leaves behind when all its writes are on the device.
Finished(d, hs, hd, pr, co, L) ==
  /\ Layout(d, L) /\ Handling(hs, L, Copies(hd))
  /\ Honours(d, L, pr) /\ Honours(d, L, co)

Sound(dv, hs, pd, hd, pr, co) ==
  /\ GoodDevice(dv, pr)
  /\ Arriving(pd, pr)
  /\ IsHeld(hd)
  /\ IsPromises(pr) /\ IsPromises(co)
  /\ \E L : Finished(Reached(dv, pd), hs, hd, pr, co, L)

\* The header in memory has the size that the device has then.
HeaderKnown(dv, pd, n) == n = Reached(dv, pd).root_dir_size

Good ==
  /\ Sound(device, handles, pending, held, promised, completed)
  /\ HeaderKnown(device, pending, root_dir_size)

\* The invariant, until the device fails where the code does not look.
IInv == size_lost \/ Good

-----------------------------------------------------------------------------
\* The handles the program holds, counted.
LEMMA CopiesAre ==
  ASSUME NEW hd, IsHeld(hd)
  PROVE  /\ IsCount(Copies(hd))
         /\ \A x \in Slots, b \in Blocks :
              Copies(hd)[<< x, b >>] = IF [handle |-> x, block |-> b] \in DOMAIN hd
                                       THEN hd[[handle |-> x, block |-> b]] ELSE 0
<1>1. ASSUME NEW t PROVE TimesHeld(t, hd) = IF t \in DOMAIN hd THEN hd[t] ELSE 0
  BY DEF TimesHeld
<1>2. \A t : TimesHeld(t, hd) \in Nat
  BY <1>1 DEF IsHeld
<1>3. ASSUME NEW x \in Slots, NEW b \in Blocks
      PROVE  Copies(hd)[<< x, b >>] = TimesHeld([handle |-> x, block |-> b], hd)
  BY DEF Copies
<1>4. IsCount(Copies(hd))
  BY <1>2 DEF IsCount, Copies
<1> QED BY <1>1, <1>3, <1>4

\* Counts that are the same everywhere are the same.
LEMMA CountsEqual ==
  ASSUME NEW E, NEW F, IsCount(E), IsCount(F),
         \A x \in Slots, b \in Blocks : E[<< x, b >>] = F[<< x, b >>]
  PROVE  E = F
<1>1. \A p \in Slots \X Blocks : E[p] = F[p]
  OBVIOUS
<1> QED BY <1>1 DEF IsCount

\* Handles the program holds differ in the handle or in the block.
LEMMA TokensDiffer ==
  ASSUME NEW x, NEW b, NEW y, NEW c
  PROVE  [handle |-> x, block |-> b] = [handle |-> y, block |-> c] <=> x = y /\ b = c
<1> PICK s, t : s = [handle |-> x, block |-> b] /\ t = [handle |-> y, block |-> c]
  OBVIOUS
<1>1. s.handle = x /\ s.block = b /\ t.handle = y /\ t.block = c
  OBVIOUS
<1> QED BY <1>1

\* The program gets a handle.
LEMMA HeldMore ==
  ASSUME NEW hd, IsHeld(hd), NEW x \in Slots, NEW b \in Blocks,
         NEW hd2, hd2 = hd (+) SetToBag({[handle |-> x, block |-> b]})
  PROVE  IsHeld(hd2) /\ Copies(hd2) = More(Copies(hd), x, b)
<1> PICK t, one : t = [handle |-> x, block |-> b] /\ one = SetToBag({t})
  OBVIOUS
<1>1. one = [s \in {t} |-> 1]
  BY DEF SetToBag
<1>2. DOMAIN one = {t} /\ one[t] = 1
  BY <1>1
<1>3. hd2 = [s \in DOMAIN hd \cup {t} |->
               (IF s \in DOMAIN hd THEN hd[s] ELSE 0) + (IF s \in {t} THEN one[s] ELSE 0)]
  BY <1>2 DEF (+)
<1>4. /\ DOMAIN hd2 = DOMAIN hd \cup {t} /\ hd2 = [s \in DOMAIN hd2 |-> hd2[s]]
      /\ \A s \in DOMAIN hd2 :
           hd2[s] = (IF s \in DOMAIN hd THEN hd[s] ELSE 0) + (IF s = t THEN 1 ELSE 0)
  BY <1>2, <1>3, Zenon
<1>5. IsToken(t)
  BY DEF IsToken
<1>6. \A s \in DOMAIN hd : IsToken(s) /\ hd[s] \in Nat \ {0}
  BY DEF IsHeld
<1>7. IsHeld(hd2)
  <2>1. ASSUME NEW s \in DOMAIN hd2 PROVE IsToken(s) /\ hd2[s] \in Nat \ {0}
    <3> PICK n, m, r : /\ n = IF s \in DOMAIN hd THEN hd[s] ELSE 0
                       /\ m = IF s = t THEN 1 ELSE 0
                       /\ r = hd2[s]
      OBVIOUS
    <3>1. r = n + m /\ (s \in DOMAIN hd \/ s = t)
      BY <1>4
    <3>2. n \in Nat /\ m \in {0, 1} /\ n + m # 0
      <4>1. CASE s \in DOMAIN hd
        <5>1. n \in Nat \ {0} /\ m \in {0, 1}
          BY <1>6, <4>1
        <5> QED BY ONLY <5>1
      <4>2. CASE s \notin DOMAIN hd
        BY <3>1, <4>2
      <4> QED BY <4>1, <4>2
    <3>3. r \in Nat \ {0}
      BY ONLY <3>1, <3>2
    <3>4. IsToken(s)
      BY <1>5, <1>6, <3>1
    <3> QED BY <3>3, <3>4
  <2> QED BY <1>4, <2>1 DEF IsHeld
<1> PICK E, F, G : E = Copies(hd) /\ F = Copies(hd2) /\ G = More(E, x, b)
  OBVIOUS
<1>8. IsCount(E) /\ IsCount(F) /\ OneMore(G, E, x, b)
  BY <1>7, CopiesAre, MoreCounts
<1>9. ASSUME NEW y \in Slots, NEW c \in Blocks PROVE F[<< y, c >>] = G[<< y, c >>]
  <2> PICK s : s = [handle |-> y, block |-> c]
    OBVIOUS
  <2>1. s = t <=> y = x /\ c = b
    BY TokensDiffer
  <2>2. E[<< y, c >>] = IF s \in DOMAIN hd THEN hd[s] ELSE 0
    BY CopiesAre
  <2>3. F[<< y, c >>] = IF s \in DOMAIN hd2 THEN hd2[s] ELSE 0
    BY <1>7, CopiesAre
  <2>4. G[<< y, c >>] = E[<< y, c >>] + (IF y = x /\ c = b THEN 1 ELSE 0)
    BY <1>8 DEF OneMore
  <2> PICK i, j, k : i = E[<< y, c >>] /\ j = F[<< y, c >>] /\ k = G[<< y, c >>]
    OBVIOUS
  <2>5. j = k
    <3> PICK n, m : /\ n = IF s \in DOMAIN hd THEN hd[s] ELSE 0
                    /\ m = IF s = t THEN 1 ELSE 0
      OBVIOUS
    <3>1. k = n + m
      BY <2>1, <2>2, <2>4
    <3>2. CASE s \in DOMAIN hd2
      BY <1>4, <2>3, <3>1, <3>2
    <3>3. CASE s \notin DOMAIN hd2
      <4>1. n = 0 /\ m = 0 /\ j = 0
        BY <1>4, <2>3, <3>3
      <4> QED BY <3>1, <4>1
    <3> QED BY <3>2, <3>3
  <2> QED BY <2>5
<1>10. F = G
  BY <1>8, <1>9, CountsEqual, Zenon DEF OneMore
<1> QED BY <1>7, <1>10

\* The program closes a handle.
LEMMA HeldLess ==
  ASSUME NEW hd, IsHeld(hd), NEW x \in Slots, NEW b \in Blocks,
         [handle |-> x, block |-> b] \in DOMAIN hd,
         NEW hd2, hd2 = hd (-) SetToBag({[handle |-> x, block |-> b]})
  PROVE  IsHeld(hd2) /\ Copies(hd2) = Less(Copies(hd), x, b)
<1> PICK t, one : t = [handle |-> x, block |-> b] /\ one = SetToBag({t})
  OBVIOUS
<1>1. one = [s \in {t} |-> 1]
  BY DEF SetToBag
<1>2. DOMAIN one = {t} /\ one[t] = 1
  BY <1>1
<1> DEFINE left == [s \in DOMAIN hd |-> IF s \in DOMAIN one THEN hd[s] - one[s] ELSE hd[s]]
<1>3. hd2 = [s \in {r \in DOMAIN left : left[r] > 0} |-> left[s]]
  BY DEF (-)
<1>4. DOMAIN left = DOMAIN hd /\ \A s \in DOMAIN hd : left[s] = hd[s] - (IF s = t THEN 1 ELSE 0)
  <2>1. \A s \in DOMAIN hd : hd[s] \in Nat
    BY DEF IsHeld
  <2> QED BY <1>2, <2>1
<1> HIDE DEF left
<1>5. /\ hd2 = [s \in DOMAIN hd2 |-> hd2[s]]
      /\ \A s : s \in DOMAIN hd2 <=> s \in DOMAIN hd /\ left[s] > 0
      /\ \A s \in DOMAIN hd2 : hd2[s] = left[s]
  BY <1>3, <1>4
<1>6. \A s \in DOMAIN hd : IsToken(s) /\ hd[s] \in Nat \ {0}
  BY DEF IsHeld
<1>7. IsHeld(hd2)
  <2>1. \A s \in DOMAIN hd2 : IsToken(s) /\ hd2[s] \in Nat \ {0}
    BY <1>4, <1>5, <1>6
  <2> QED BY <1>5, <2>1 DEF IsHeld
<1> PICK E, F, G : E = Copies(hd) /\ F = Copies(hd2) /\ G = Less(E, x, b)
  OBVIOUS
<1>8. IsCount(E) /\ IsCount(F)
  BY <1>7, CopiesAre
<1>9. E[<< x, b >>] > 0
  BY <1>6, CopiesAre
<1>10. IsCount(G) /\ More(G, x, b) = E
  BY <1>8, <1>9, MoreOrLess
<1>11. OneMore(E, G, x, b)
  BY <1>10, MoreCounts
<1>12. ASSUME NEW y \in Slots, NEW c \in Blocks PROVE F[<< y, c >>] = G[<< y, c >>]
  <2> PICK s : s = [handle |-> y, block |-> c]
    OBVIOUS
  <2>1. s = t <=> y = x /\ c = b
    BY TokensDiffer
  <2>2. E[<< y, c >>] = IF s \in DOMAIN hd THEN hd[s] ELSE 0
    BY CopiesAre
  <2>3. F[<< y, c >>] = IF s \in DOMAIN hd2 THEN hd2[s] ELSE 0
    BY <1>7, CopiesAre
  <2>4. E[<< y, c >>] = G[<< y, c >>] + (IF y = x /\ c = b THEN 1 ELSE 0)
    BY <1>11 DEF OneMore
  <2>5. G[<< y, c >>] \in Nat
    BY <1>10 DEF IsCount
  <2> PICK i, j, k : i = E[<< y, c >>] /\ j = F[<< y, c >>] /\ k = G[<< y, c >>]
    OBVIOUS
  <2>6. j = k
    <3> PICK m : m = IF s = t THEN 1 ELSE 0
      OBVIOUS
    <3>1. i = k + m /\ k \in Nat
      BY <2>1, <2>4, <2>5
    <3>2. CASE s \in DOMAIN hd
      <4> PICK l : l = left[s]
        OBVIOUS
      <4>1. l = i - m
        BY <1>4, <2>2, <3>2
      <4>2. l = k
        BY ONLY <3>1, <4>1, m \in {0, 1}
      <4>3. j = IF l > 0 THEN l ELSE 0
        BY <1>5, <2>3, <3>2
      <4> QED BY ONLY <3>1, <4>2, <4>3
    <3>3. CASE s \notin DOMAIN hd
      <4>1. i = 0 /\ m = 0 /\ j = 0
        BY <1>5, <2>2, <2>3, <3>3
      <4> QED BY <3>1, <4>1
    <3> QED BY <3>2, <3>3
  <2> QED BY <2>6
<1>13. F = G
  BY <1>8, <1>10, <1>12, CountsEqual
<1> QED BY <1>7, <1>13

\* The program holds no handle at first, nor after a crash.
LEMMA NoneHeld == IsHeld(EmptyBag) /\ Copies(EmptyBag) = NoReferences
<1>1. EmptyBag = [t \in {} |-> 1] /\ DOMAIN EmptyBag = {}
  BY DEF EmptyBag, SetToBag
<1>2. IsHeld(EmptyBag)
  BY <1>1 DEF IsHeld
<1>3. \A x \in Slots, b \in Blocks : Copies(EmptyBag)[<< x, b >>] = NoReferences[<< x, b >>]
  BY <1>1, <1>2, CopiesAre DEF NoReferences
<1>4. IsCount(NoReferences)
  BY DEF IsCount, NoReferences
<1> QED BY <1>2, <1>3, <1>4, CopiesAre, CountsEqual

-----------------------------------------------------------------------------
\* Promises.
WithPromise(P, b, q) == [f \in DOMAIN P \cup {b} |-> IF f = b THEN q ELSE P[f]]

\* A call that gives a file no promise promises nothing of its cells.
LEMMA NoPromiseIs ==
  /\ IsPromise(NoPromise) /\ NoPromise.size = 0
  /\ \A i \in 0..(MaxFileCells - 1) : NoPromise.cells[i] = Anything
<1> PICK p, f : /\ p = NoPromise /\ f = [i \in 0..(MaxFileCells - 1) |-> Anything]
  OBVIOUS
<1>1. p.size = 0 /\ p.cells = f /\ p = [size |-> p.size, cells |-> p.cells]
  BY DEF NoPromise
<1>2. \A i \in 0..(MaxFileCells - 1) : f[i] = Anything
  OBVIOUS
<1>3. f = [i \in 0..(MaxFileCells - 1) |-> f[i]]
  OBVIOUS
<1> QED BY <1>1, <1>2, <1>3 DEF IsPromise

\* Each file has a promise.
LEMMA PromiseOfIs ==
  ASSUME NEW P, IsPromises(P), NEW b
  PROVE  IsPromise(PromiseOf(P, b))
BY NoPromiseIs DEF PromiseOf, IsPromises

IsWith(Q, P, b, q) ==
  /\ DOMAIN Q = DOMAIN P \cup {b} /\ Q[b] = q
  /\ \A f \in DOMAIN P \ {b} : Q[f] = P[f]
  /\ \A f : PromiseOf(Q, f) = IF f = b THEN q ELSE PromiseOf(P, f)
  /\ IsPromises(P) /\ IsPromise(q) => IsPromises(Q)

\* What is promised with one promise made anew.
LEMMA WithPromiseIs ==
  ASSUME NEW P, NEW b, NEW q
  PROVE  IsWith(WithPromise(P, b, q), P, b, q)
<1> PICK Q : Q = WithPromise(P, b, q)
  OBVIOUS
<1>1. /\ DOMAIN Q = DOMAIN P \cup {b} /\ Q[b] = q /\ \A f \in DOMAIN P \ {b} : Q[f] = P[f]
  BY DEF WithPromise
<1>2. ASSUME NEW f PROVE PromiseOf(Q, f) = IF f = b THEN q ELSE PromiseOf(P, f)
  BY <1>1 DEF PromiseOf
<1>3. ASSUME IsPromises(P), IsPromise(q) PROVE IsPromises(Q)
  BY <1>1, <1>3 DEF IsPromises
<1> QED BY <1>1, <1>2, <1>3 DEF IsWith

\* A promise made anew takes the place of the one before.
LEMMA PromiseAgain ==
  ASSUME NEW P, NEW b, NEW p, NEW q
  PROVE  WithPromise(WithPromise(P, b, p), b, q) = WithPromise(P, b, q)
<1> PICK Q : Q = WithPromise(P, b, p)
  OBVIOUS
<1>1. DOMAIN Q = DOMAIN P \cup {b} /\ \A f \in DOMAIN P \ {b} : Q[f] = P[f]
  BY ONLY Q = WithPromise(P, b, p) DEF WithPromise
<1>2. DOMAIN Q \cup {b} = DOMAIN P \cup {b}
  BY <1>1
<1>3. [f \in DOMAIN Q \cup {b} |-> IF f = b THEN q ELSE Q[f]]
        = [f \in DOMAIN P \cup {b} |-> IF f = b THEN q ELSE P[f]]
  BY ONLY <1>1, <1>2
<1>4. WithPromise(Q, b, q) = WithPromise(P, b, q)
  BY ONLY <1>3 DEF WithPromise
<1> QED BY <1>4

\* The file has the size and the cells of a new promise.
Fulfils(d, L, b, q) ==
  /\ b \in DOMAIN L /\ q.size \in Nat /\ q.size <= L[b].size
  /\ L[b].mode = "file" =>
       \A i \in 0..(L[b].size - 1) : At(d, L, b, i) \in q.cells[i]

\* A new promise for a file that fulfils it is honoured with the others.
LEMMA PromiseHonoured ==
  ASSUME NEW d, NEW L, NEW P, Honours(d, L, P), NEW b, NEW q, Fulfils(d, L, b, q)
  PROVE  Honours(d, L, WithPromise(P, b, q))
<1> PICK Q : Q = WithPromise(P, b, q)
  OBVIOUS
<1>1. /\ DOMAIN Q = DOMAIN P \cup {b} /\ Q[b] = q
      /\ \A f \in DOMAIN P \ {b} : Q[f] = P[f]
      /\ \A f : PromiseOf(Q, f) = IF f = b THEN q ELSE PromiseOf(P, f)
  <2>1. IsWith(Q, P, b, q)
    BY ONLY WithPromiseIs, Q = WithPromise(P, b, q)
  <2> QED BY ONLY <2>1 DEF IsWith
<1>2. ASSUME NEW h \in DOMAIN Q
      PROVE  h \in DOMAIN L /\ Q[h].size \in Nat /\ Q[h].size <= L[h].size
  <2>1. CASE h = b
    BY <1>1, <2>1 DEF Fulfils
  <2>2. CASE h # b
    BY <1>1, <2>2 DEF Honours
  <2> QED BY <2>1, <2>2
<1>3. ASSUME NEW h \in DOMAIN L PROVE Truthful(d, L, Q, h)
  <2>1. Truthful(d, L, P, h)
    BY DEF Honours
  <2>2. CASE h = b
    BY <1>1, <2>1, <2>2 DEF Fulfils, Truthful
  <2>3. CASE h # b
    BY <1>1, <2>1, <2>3 DEF Truthful
  <2> QED BY <2>2, <2>3
<1>4. Honours(d, L, Q)
  BY <1>2, <1>3 DEF Honours
<1> QED BY <1>4

\* A file that is there fulfils the promise of nothing.
LEMMA NothingFulfilled ==
  ASSUME NEW d, NEW L, Heads(L), NEW P, IsPromises(P), Honours(d, L, P), NEW b \in DOMAIN L
  PROVE  Fulfils(d, L, b, NoPromise)
<1>1. L[b].size \in Nat /\ 0 <= L[b].size
  BY HeadFacts
<1>2. ASSUME L[b].mode = "file", NEW i \in 0..(L[b].size - 1)
      PROVE  At(d, L, b, i) \in NoPromise.cells[i]
  <2>1. /\ L[b].size <= MaxFileCells /\ At(d, L, b, i) \in PromiseOf(P, b).cells[i]
    BY <1>2 DEF Honours, Truthful
  <2>2. i \in 0..(MaxFileCells - 1)
    <3> PICK s : s = L[b].size
      OBVIOUS
    <3>1. s \in Nat /\ s <= MaxFileCells /\ MaxFileCells \in Nat /\ i \in 0..(s - 1)
      BY <1>1, <2>1, TomFSAssumption
    <3> QED BY ONLY <3>1
  <2>3. PromiseOf(P, b).cells[i] \subseteq Anything
    BY <2>2, PromiseOfIs DEF IsPromise
  <2> QED BY <2>1, <2>2, <2>3, NoPromiseIs
<1> QED BY <1>1, <1>2, NoPromiseIs DEF Fulfils

\* The larger of two numbers.
LEMMA GreaterOfTwo ==
  ASSUME NEW i \in Int, NEW j \in Int, NEW k, k = Max({i, j})
  PROVE  k = (IF i >= j THEN i ELSE j)
<1>1. \E z \in {i, j} : \A y \in {i, j} : z >= y
  OBVIOUS
<1>2. k \in {i, j} /\ \A y \in {i, j} : k >= y
  BY <1>1 DEF Max
<1> QED BY <1>2

\* What a file is promised to hold while cells of it are written, and from then on.
During(old, offset, n, value) ==
  [size  |-> old.size,
   cells |-> [i \in DOMAIN old.cells |->
                IF i \in offset..(offset + n - 1) THEN old.cells[i] \cup {value} ELSE old.cells[i]]]

After(old, offset, n, value) ==
  [size  |-> Max({old.size, offset + n}),
   cells |-> [i \in DOMAIN old.cells |->
                IF i \in offset..(offset + n - 1) THEN {value} ELSE old.cells[i]]]

\* The two promises, cell by cell.
Rewritten(old, offset, n, value, p, q) ==
  /\ IsPromise(p) /\ p.size = old.size
  /\ IsPromise(q) /\ q.size = (IF old.size >= offset + n THEN old.size ELSE offset + n)
  /\ \A i \in 0..(MaxFileCells - 1) :
       /\ old.cells[i] \subseteq p.cells[i]
       /\ i \in offset..(offset + n - 1) => value \in p.cells[i] /\ q.cells[i] = {value}
       /\ i \notin offset..(offset + n - 1) =>
            p.cells[i] = old.cells[i] /\ q.cells[i] = old.cells[i]

\* The two promises are promises of those cells.
LEMMA WritePromises ==
  ASSUME NEW old, IsPromise(old), NEW offset \in Nat, NEW n \in Nat, NEW value \in DataCells,
         NEW p, p = During(old, offset, n, value), NEW q, q = After(old, offset, n, value)
  PROVE  Rewritten(old, offset, n, value, p, q)
<1> PICK S, R, c : S = 0..(MaxFileCells - 1) /\ R = offset..(offset + n - 1) /\ c = old.cells
  OBVIOUS
<1>1. old.size \in Nat /\ c = [i \in S |-> c[i]] /\ \A i \in S : c[i] \subseteq Anything
  BY DEF IsPromise
<1>2. value \in Anything
  BY DEF Anything
<1> PICK f, g : /\ f = [i \in S |-> IF i \in R THEN c[i] \cup {value} ELSE c[i]]
                /\ g = [i \in S |-> IF i \in R THEN {value} ELSE c[i]]
  OBVIOUS
<1>3. DOMAIN c = S
  BY <1>1
<1>4. /\ \A i \in S : f[i] = IF i \in R THEN c[i] \cup {value} ELSE c[i]
      /\ \A i \in S : g[i] = IF i \in R THEN {value} ELSE c[i]
      /\ f = [i \in S |-> f[i]] /\ g = [i \in S |-> g[i]]
  BY ONLY f = [i \in S |-> IF i \in R THEN c[i] \cup {value} ELSE c[i]],
          g = [i \in S |-> IF i \in R THEN {value} ELSE c[i]]
<1> PICK m, s : s = old.size /\ m = Max({s, offset + n})
  OBVIOUS
<1>5. m = (IF s >= offset + n THEN s ELSE offset + n) /\ m \in Nat
  <2>1. s \in Nat /\ offset + n \in Nat
    BY <1>1
  <2>2. m = (IF s >= offset + n THEN s ELSE offset + n)
    BY <2>1, GreaterOfTwo
  <2> QED BY <2>1, <2>2
<1>6. p = [size |-> s, cells |-> f] /\ q = [size |-> m, cells |-> g]
  BY <1>3 DEF During, After
<1>7. p.size = s /\ p.cells = f /\ q.size = m /\ q.cells = g
  BY ONLY <1>6
<1>8. IsPromise(p)
  <2>1. \A i \in S : f[i] \subseteq Anything
    BY <1>1, <1>2, <1>4
  <2> QED BY <1>1, <1>4, <1>6, <1>7, <2>1 DEF IsPromise
<1>9. IsPromise(q)
  <2>1. \A i \in S : g[i] \subseteq Anything
    BY <1>1, <1>2, <1>4
  <2> QED BY <1>1, <1>4, <1>5, <1>6, <1>7, <2>1 DEF IsPromise
<1>10. ASSUME NEW i \in S
       PROVE  /\ c[i] \subseteq f[i]
              /\ i \in R => value \in f[i] /\ g[i] = {value}
              /\ i \notin R => f[i] = c[i] /\ g[i] = c[i]
  BY <1>4
<1>11. /\ IsPromise(p) /\ p.size = old.size
       /\ IsPromise(q) /\ q.size = (IF old.size >= offset + n THEN old.size ELSE offset + n)
       /\ \A i \in 0..(MaxFileCells - 1) :
            /\ old.cells[i] \subseteq p.cells[i]
            /\ i \in offset..(offset + n - 1) => value \in p.cells[i] /\ q.cells[i] = {value}
            /\ i \notin offset..(offset + n - 1) =>
                 p.cells[i] = old.cells[i] /\ q.cells[i] = old.cells[i]
  BY <1>5, <1>7, <1>8, <1>9, <1>10
<1> QED BY ONLY <1>11 DEF Rewritten

\* A file is as long as promised, and its cells are those promised.
LEMMA PromisedFile ==
  ASSUME NEW d, NEW L, Heads(L), NEW P, IsPromises(P), Honours(d, L, P), NEW b \in DOMAIN L
  PROVE  /\ PromiseOf(P, b).size \in Nat /\ PromiseOf(P, b).size <= L[b].size
         /\ \A i \in 0..(L[b].size - 1) :
              L[b].mode = "file" =>
                i \in 0..(MaxFileCells - 1) /\ At(d, L, b, i) \in PromiseOf(P, b).cells[i]
<1>1. L[b].size \in Nat /\ 0 <= L[b].size
  BY HeadFacts
<1>2. PromiseOf(P, b).size \in Nat /\ PromiseOf(P, b).size <= L[b].size
  <2>1. CASE b \in DOMAIN P
    BY <2>1 DEF Honours, PromiseOf
  <2>2. CASE b \notin DOMAIN P
    BY <1>1, <2>2, NoPromiseIs DEF PromiseOf
  <2> QED BY <2>1, <2>2
<1>3. ASSUME L[b].mode = "file", NEW i \in 0..(L[b].size - 1)
      PROVE  i \in 0..(MaxFileCells - 1) /\ At(d, L, b, i) \in PromiseOf(P, b).cells[i]
  <2>1. L[b].size <= MaxFileCells /\ At(d, L, b, i) \in PromiseOf(P, b).cells[i]
    BY <1>3 DEF Honours, Truthful
  <2> PICK s : s = L[b].size
    OBVIOUS
  <2>2. s \in Nat /\ s <= MaxFileCells /\ MaxFileCells \in Nat /\ i \in 0..(s - 1)
    BY <1>1, <2>1, TomFSAssumption
  <2>3. i \in 0..(MaxFileCells - 1)
    BY ONLY <2>2
  <2> QED BY <2>1, <2>3
<1> QED BY <1>2, <1>3

\* While cells of a file are written, the file holds what was promised with either value.
LEMMA DuringHonoured ==
  ASSUME NEW d, NEW L, Heads(L), NEW P, IsPromises(P), Honours(d, L, P), NEW b \in DOMAIN L,
         NEW offset \in Nat, NEW n \in Nat, NEW value \in DataCells,
         NEW p, p = During(PromiseOf(P, b), offset, n, value)
  PROVE  Honours(d, L, WithPromise(P, b, p))
<1> PICK old : old = PromiseOf(P, b)
  OBVIOUS
<1>1. IsPromise(old)
  BY PromiseOfIs
<1>2. /\ IsPromise(p) /\ p.size = old.size
      /\ \A i \in 0..(MaxFileCells - 1) : old.cells[i] \subseteq p.cells[i]
  <2> PICK q : q = After(old, offset, n, value)
    OBVIOUS
  <2>1. p = During(old, offset, n, value)
    OBVIOUS
  <2>2. Rewritten(old, offset, n, value, p, q)
    BY ONLY <1>1, <2>1, WritePromises, q = After(old, offset, n, value),
            offset \in Nat, n \in Nat, value \in DataCells
  <2> QED BY <2>2 DEF Rewritten
<1>3. /\ old.size \in Nat /\ old.size <= L[b].size
      /\ \A i \in 0..(L[b].size - 1) :
           L[b].mode = "file" => i \in 0..(MaxFileCells - 1) /\ At(d, L, b, i) \in old.cells[i]
  BY PromisedFile
<1>4. Fulfils(d, L, b, p)
  BY <1>2, <1>3 DEF Fulfils
<1> QED BY <1>4, PromiseHonoured

\* When cells of a file have been written, the file holds what is promised from then on.
LEMMA AfterHonoured ==
  ASSUME NEW d, NEW L, Heads(L), NEW P, IsPromises(P), NEW b \in DOMAIN L,
         NEW offset \in Nat, NEW n \in Nat, NEW value \in DataCells,
         NEW p, p = During(PromiseOf(P, b), offset, n, value),
         NEW q, q = After(PromiseOf(P, b), offset, n, value),
         Honours(d, L, WithPromise(P, b, p)), offset + n <= L[b].size,
         \A i \in offset..(offset + n - 1) : At(d, L, b, i) = value
  PROVE  Honours(d, L, WithPromise(P, b, q))
<1> PICK old, Q : old = PromiseOf(P, b) /\ Q = WithPromise(P, b, p)
  OBVIOUS
<1>1. IsPromise(old) /\ p = During(old, offset, n, value) /\ q = After(old, offset, n, value)
  BY PromiseOfIs
<1>2. /\ IsPromise(p) /\ p.size = old.size
      /\ IsPromise(q) /\ q.size = (IF old.size >= offset + n THEN old.size ELSE offset + n)
      /\ \A i \in 0..(MaxFileCells - 1) :
           /\ i \in offset..(offset + n - 1) => q.cells[i] = {value}
           /\ i \notin offset..(offset + n - 1) =>
                p.cells[i] = old.cells[i] /\ q.cells[i] = old.cells[i]
  <2>1. Rewritten(old, offset, n, value, p, q)
    BY ONLY <1>1, WritePromises, offset \in Nat, n \in Nat, value \in DataCells
  <2> QED BY ONLY <2>1 DEF Rewritten
<1>3. IsPromises(Q) /\ PromiseOf(Q, b) = p
  <2>1. IsPromises(P) /\ IsPromise(p)
    BY <1>2
  <2>2. /\ \A f : PromiseOf(Q, f) = IF f = b THEN p ELSE PromiseOf(P, f)
        /\ IsPromises(P) /\ IsPromise(p) => IsPromises(Q)
    <3>1. IsWith(Q, P, b, p)
      BY ONLY WithPromiseIs, Q = WithPromise(P, b, p)
    <3> QED BY ONLY <3>1 DEF IsWith
  <2> QED BY <2>1, <2>2
<1>4. /\ p.size \in Nat /\ p.size <= L[b].size
      /\ \A i \in 0..(L[b].size - 1) :
           L[b].mode = "file" => i \in 0..(MaxFileCells - 1) /\ At(d, L, b, i) \in p.cells[i]
  <2>1. Honours(d, L, Q)
    OBVIOUS
  <2>2. /\ PromiseOf(Q, b).size \in Nat /\ PromiseOf(Q, b).size <= L[b].size
        /\ \A i \in 0..(L[b].size - 1) :
             L[b].mode = "file" =>
               i \in 0..(MaxFileCells - 1) /\ At(d, L, b, i) \in PromiseOf(Q, b).cells[i]
    BY ONLY <1>3, <2>1, PromisedFile, Heads(L), b \in DOMAIN L
  <2> QED BY ONLY <1>3, <2>2
<1>5. q.size \in Nat /\ q.size <= L[b].size
  BY <1>2, <1>4
<1>6. ASSUME L[b].mode = "file", NEW i \in 0..(L[b].size - 1)
      PROVE  At(d, L, b, i) \in q.cells[i]
  <2>1. i \in 0..(MaxFileCells - 1) /\ At(d, L, b, i) \in p.cells[i]
    BY <1>4, <1>6
  <2>2. CASE i \in offset..(offset + n - 1)
    BY <1>2, <2>1, <2>2
  <2>3. CASE i \notin offset..(offset + n - 1)
    BY <1>2, <2>1, <2>3
  <2> QED BY <2>2, <2>3
<1>7. Fulfils(d, L, b, q)
  BY <1>5, <1>6 DEF Fulfils
<1>8. Honours(d, L, WithPromise(Q, b, q))
  BY <1>7, PromiseHonoured
<1>9. WithPromise(Q, b, q) = WithPromise(P, b, q)
  BY PromiseAgain
<1> QED BY <1>8, <1>9

\* Between calls a call starts from a good view, of the files there are.
LEMMA ReadyView ==
  ASSUME NEW dv, NEW hs, NEW pd, NEW hd, NEW pr, NEW co, Sound(dv, hs, pd, hd, pr, co),
         pd = << >>, NEW call, call.device = dv, NEW n, HeaderKnown(dv, pd, n),
         NEW failures, failures.ignored = {}
  PROVE  \E L : /\ Finished(dv, hs, hd, pr, co, L)
                /\ Honours(dv, L, call.promise) =>
                     GoodView(NewView(dv, hs, n, failures), call, L, Copies(hd))
<1>1. PICK L : Finished(dv, hs, hd, pr, co, L)
  BY DEF Sound, Reached
<1> PICK v : v = NewView(dv, hs, n, failures)
  OBVIOUS
<1>2. v = [device |-> dv, handles |-> hs, root_dir_size |-> n,
           writes |-> << >>, ret |-> NULL, failures |-> failures]
  BY DEF NewView
<1>3. /\ v.device = dv /\ v.handles = hs /\ v.writes = << >> /\ v.ret = NULL
      /\ v.root_dir_size = n /\ v.failures = failures
  BY ONLY <1>2
<1>a. n = dv.root_dir_size /\ failures.ignored = {}
  BY DEF HeaderKnown, Reached
<1>4. IsView(v)
  BY ONLY <1>2, <1>3, <1>a DEF IsView
<1>5. Past(v, call)
  <2> PICK S : S = {}
    OBVIOUS
  <2>1. v.writes \in Seq(S)
    BY ONLY <1>3
  <2>2. \A d \in S : GoodDevice(d, call.promise)
    OBVIOUS
  <2> QED BY <1>3, <2>1, <2>2 DEF Past
<1>6. Honours(dv, L, call.promise) => GoodView(v, call, L, Copies(hd))
  BY <1>1, <1>3, <1>4, <1>5 DEF GoodView, Finished
<1> QED BY <1>1, <1>6

\* The call's writes lead where it left the view.
LEMMA CallSound ==
  ASSUME NEW call, GoodDevice(call.device, call.promise), IsPromises(call.promise),
         NEW hd, IsHeld(hd), NEW v, NEW M, GoodView(v, call, M, Copies(hd)),
         NEW co, IsPromises(co), Honours(v.device, M, co)
  PROVE  /\ Sound(call.device, v.handles, v.writes, hd, call.promise, co)
         /\ HeaderKnown(call.device, v.writes, v.root_dir_size)
<1>1. /\ Past(v, call) /\ Layout(v.device, M) /\ Handling(v.handles, M, Copies(hd))
      /\ Honours(v.device, M, call.promise)
  BY DEF GoodView
<1>2. Arriving(v.writes, call.promise) /\ Reached(call.device, v.writes) = v.device
  BY <1>1 DEF Past, Arriving, Reached
<1>3. Finished(v.device, v.handles, hd, call.promise, co, M)
  BY <1>1 DEF Finished
<1>4. v.root_dir_size = v.device.root_dir_size
  BY DEF GoodView, IsView
<1> QED BY <1>2, <1>3, <1>4 DEF Sound, HeaderKnown

\* What the invariant says of the device and of what is promised.
LEMMA SoundFacts ==
  ASSUME NEW dv, NEW hs, NEW pd, NEW hd, NEW pr, NEW co, Sound(dv, hs, pd, hd, pr, co)
  PROVE  GoodDevice(dv, pr) /\ Arriving(pd, pr) /\ IsHeld(hd) /\ IsPromises(pr) /\ IsPromises(co)
BY DEF Sound

\* A call that gives a handle.
LEMMA GivenSound ==
  ASSUME NEW call, GoodDevice(call.device, call.promise), IsPromises(call.promise),
         NEW hd, IsHeld(hd), NEW v, NEW M, NEW b, Given(v, call, M, Copies(hd), b),
         NEW co, IsPromises(co), Honours(v.device, M, co), NEW hd2,
         hd2 = IF v.ret = NULL THEN hd
               ELSE hd (+) SetToBag({[handle |-> v.ret, block |-> v.handles[v.ret].block_index]})
  PROVE  /\ Sound(call.device, v.handles, v.writes, hd2, call.promise, co)
         /\ HeaderKnown(call.device, v.writes, v.root_dir_size)
<1> PICK E, x : E = Copies(hd) /\ x = v.ret
  OBVIOUS
<1>1. CASE x = NULL
  <2>1. GoodView(v, call, M, Copies(hd)) /\ hd2 = hd
    BY <1>1 DEF Given
  <2> QED BY <2>1, CallSound
<1>2. CASE x # NULL
  <2>1. IsCount(E)
    BY CopiesAre
  <2>2. Given(v, call, M, E, b) /\ v.ret # NULL
    BY <1>2
  <2>3. /\ x \in Slots /\ b \in Blocks /\ GoodView(v, call, M, More(E, x, b))
        /\ b = v.handles[x].block_index
    <3>1. /\ x \in Slots /\ b \in DOMAIN M /\ GoodView(v, call, M, More(E, x, b))
          /\ b = v.handles[x].block_index
      BY <2>2 DEF Given
    <3>2. Heads(M)
      BY <3>1, CountOfGood
    <3>3. b \in Blocks
      BY <3>1, <3>2, HeadFacts
    <3> QED BY <3>1, <3>3
  <2>4. hd2 = hd (+) SetToBag({[handle |-> x, block |-> b]})
    BY <1>2, <2>3
  <2>5. IsHeld(hd2) /\ Copies(hd2) = More(E, x, b)
    BY ONLY <2>3, <2>4, HeldMore, IsHeld(hd), E = Copies(hd)
  <2>6. GoodView(v, call, M, Copies(hd2))
    BY <2>3, <2>5
  <2> QED BY <2>5, <2>6, CallSound
<1> QED BY <1>1, <1>2

\* The program closes a handle it holds.
LEMMA CloseSound ==
  ASSUME NEW dv, NEW hs, NEW pd, pd = << >>, NEW hd, NEW pr, NEW co,
         Sound(dv, hs, pd, hd, pr, co), NEW t \in DOMAIN hd,
         NEW hd2, hd2 = hd (-) SetToBag({t}), NEW n, HeaderKnown(dv, pd, n)
  PROVE  Sound(dv, CloseHandle(NewView(dv, hs, n, NoFailures), t.handle).handles, pd, hd2, pr, co)
<1>1. GoodDevice(dv, pr) /\ Arriving(pd, pr) /\ IsHeld(hd) /\ IsPromises(pr) /\ IsPromises(co)
  BY SoundFacts
<1>2. PICK x \in Slots, b \in Blocks : t = [handle |-> x, block |-> b]
  BY <1>1 DEF IsHeld, IsToken
<1> PICK v, E, w : /\ v = NewView(dv, hs, n, NoFailures) /\ E = Copies(hd)
                   /\ w = CloseHandle(v, x)
  OBVIOUS
<1> PICK call : call = [device |-> dv, promise |-> pr]
  OBVIOUS
<1>a. call.device = dv /\ call.promise = pr
  BY ONLY call = [device |-> dv, promise |-> pr]
<1>b. PICK L : /\ Finished(dv, hs, hd, pr, co, L)
               /\ Honours(dv, L, pr) => GoodView(v, call, L, E)
  <2>1. \E L : /\ Finished(dv, hs, hd, pr, co, L)
               /\ Honours(dv, L, call.promise) =>
                    GoodView(NewView(dv, hs, n, NoFailures), call, L, Copies(hd))
    <3> PICK f : f = NoFailures
      OBVIOUS
    <3>1. f.ignored = {}
      BY DEF NoFailures
    <3>2. \E L : /\ Finished(dv, hs, hd, pr, co, L)
                 /\ Honours(dv, L, call.promise) =>
                      GoodView(NewView(dv, hs, n, f), call, L, Copies(hd))
      BY <1>a, <3>1, ReadyView
    <3> QED BY <3>2
  <2> QED BY <1>a, <2>1
<1>3. GoodView(v, call, L, E) /\ Honours(dv, L, pr) /\ Honours(dv, L, co)
  BY <1>b DEF Finished
<1>4. E[<< x, b >>] > 0
  BY <1>1, <1>2, CopiesAre DEF IsHeld
<1>5. b = v.handles[x].block_index
  BY <1>3, <1>4, Referred
<1>6. Closed(w, v, call, L, Less(E, x, b))
  BY ONLY <1>3, <1>4, <1>5, CloseHandleView, w = CloseHandle(v, x), x \in Slots
<1>7. IsHeld(hd2) /\ Copies(hd2) = Less(E, x, b)
  BY ONLY <1>1, <1>2, HeldLess, t \in DOMAIN hd, hd2 = hd (-) SetToBag({t}), E = Copies(hd),
          x \in Slots, b \in Blocks
<1>8. Finished(dv, w.handles, hd2, pr, co, L)
  <2>1. GoodView(w, call, L, Less(E, x, b)) /\ w.device = v.device
    BY <1>6 DEF Closed
  <2>2. v.device = dv
    BY DEF NewView
  <2> QED BY <1>3, <1>7, <2>1, <2>2 DEF GoodView, Finished
<1>9. t.handle = x
  BY <1>2
<1>10. Reached(dv, pd) = dv
  BY DEF Reached
<1> QED BY <1>1, <1>7, <1>8, <1>9, <1>10 DEF Sound

\* Nothing is still to come of a call that has returned.
LEMMA NoneArriving == \A pr : Arriving(<< >>, pr)
<1> SUFFICES ASSUME NEW pr PROVE Arriving(<< >>, pr)
  OBVIOUS
<1> PICK S, q : S = {} /\ q = << >>
  OBVIOUS
<1>1. q \in Seq(S)
  BY ONLY q = << >>
<1>2. \A d \in S : GoodDevice(d, pr)
  OBVIOUS
<1> QED BY <1>1, <1>2 DEF Arriving

\* A write reaches the device; with the last one what the call has done is promised.
LEMMA PersistSound ==
  ASSUME NEW dv, NEW hs, NEW pd, pd # << >>, NEW hd, NEW pr, NEW co,
         Sound(dv, hs, pd, hd, pr, co), NEW pr2, pr2 = IF Len(pd) = 1 THEN co ELSE pr
  PROVE  /\ Sound(Head(pd), hs, Tail(pd), hd, pr2, co)
         /\ Reached(Head(pd), Tail(pd)) = Reached(dv, pd)
<1>1. PICK S : pd \in Seq(S) /\ \A d \in S : GoodDevice(d, pr)
  BY DEF Sound, Arriving
<1>2. Head(pd) \in S /\ Tail(pd) \in Seq(S)
  BY <1>1
<1>3. Reached(Head(pd), Tail(pd)) = Reached(dv, pd)
  <2> PICK n, q : n = Len(pd) /\ q = Tail(pd)
    OBVIOUS
  <2>1. n \in Nat /\ n > 0 /\ Len(q) = n - 1 /\ Head(pd) = pd[1]
    BY <1>1
  <2>2. CASE n = 1
    <3>1. q = << >>
      BY <1>2, <2>1, <2>2
    <3> QED BY <2>1, <2>2, <3>1 DEF Reached
  <2>3. CASE n # 1
    <3>1. q # << >> /\ q[Len(q)] = pd[n]
      <4>1. \A i \in 1..(n - 1) : q[i] = pd[i + 1]
        BY ONLY <1>1, pd # << >>, n = Len(pd), q = Tail(pd)
      <4>2. n - 1 \in 1..(n - 1) /\ (n - 1) + 1 = n
        BY ONLY <2>1, <2>3
      <4>3. q[n - 1] = pd[n]
        BY ONLY <4>1, <4>2
      <4>4. q # << >>
        <5>1. Len(q) # 0
          BY ONLY <2>1, <2>3
        <5> QED BY ONLY <5>1
      <4> QED BY <2>1, <4>3, <4>4
    <3> QED BY <3>1 DEF Reached
  <2> QED BY <2>2, <2>3
<1>4. GoodDevice(Head(pd), pr) /\ Arriving(Tail(pd), pr)
  BY <1>1, <1>2 DEF Arriving
<1> PICK d, q, r : d = Head(pd) /\ q = Tail(pd) /\ r = Reached(dv, pd)
  OBVIOUS
<1>5. PICK L : Finished(r, hs, hd, pr, co, L)
  BY DEF Sound
<1>6. CASE Len(pd) # 1
  <2>1. pr2 = pr
    BY <1>6
  <2>2. Sound(Head(pd), hs, Tail(pd), hd, pr2, co)
    BY <1>3, <1>4, <1>5, <2>1, SoundFacts DEF Sound
  <2> QED BY <1>3, <2>2
<1>7. CASE Len(pd) = 1
  <2>1. pr2 = co /\ q = << >>
    <3>1. Len(q) = 0 /\ q \in Seq(S)
      BY <1>1, <1>2, <1>7
    <3> QED BY <1>7, <3>1
  <2>2. r = d
    BY <1>3, <2>1 DEF Reached
  <2>3. Finished(d, hs, hd, co, co, L)
    BY <1>5, <2>2 DEF Finished
  <2>4. GoodDevice(d, co)
    BY <2>3 DEF Finished, GoodDevice
  <2>5. Arriving(q, co)
    BY <2>1, NoneArriving
  <2>6. Reached(d, q) = d
    BY <2>1 DEF Reached
  <2>7. IsHeld(hd) /\ IsPromises(co)
    BY SoundFacts
  <2>8. Sound(Head(pd), hs, Tail(pd), hd, pr2, co)
    BY ONLY <2>1, <2>3, <2>4, <2>5, <2>6, <2>7, d = Head(pd), q = Tail(pd) DEF Sound
  <2> QED BY <1>3, <2>8
<1> QED BY <1>6, <1>7

\* A device with nothing open: after a crash, and at first.
LEMMA RestartSound ==
  ASSUME NEW dv, NEW pr, GoodDevice(dv, pr), IsPromises(pr)
  PROVE  Sound(dv, FreeHandles, << >>, EmptyBag, pr, pr)
<1>1. PICK L : Layout(dv, L) /\ Honours(dv, L, pr)
  BY DEF GoodDevice
<1>2. Handling(FreeHandles, L, Copies(EmptyBag))
  BY FreeHandling, NoneHeld
<1>3. Arriving(<< >>, pr)
  BY NoneArriving
<1>4. Finished(dv, FreeHandles, EmptyBag, pr, pr, L)
  BY <1>1, <1>2 DEF Finished
<1> QED BY <1>3, <1>4, NoneHeld DEF Sound, Reached

-----------------------------------------------------------------------------
\* The invariant holds at first.
LEMMA InitSound == Init => Good
<1> SUFFICES ASSUME Init PROVE Good
  OBVIOUS
<1>1. GoodDevice(device, << >>)
  BY FormattedLayout DEF Init, GoodDevice
<1>2. /\ handles = FreeHandles /\ pending = << >> /\ held = EmptyBag
      /\ promised = << >> /\ completed = << >>
  BY DEF Init, FreeHandles
<1>3. IsPromises(<< >>)
  BY DEF IsPromises
<1>4. Sound(device, FreeHandles, << >>, EmptyBag, << >>, << >>)
  BY <1>1, <1>3, RestartSound
<1>5. HeaderKnown(device, pending, root_dir_size)
  BY <1>2 DEF Init, HeaderKnown, Reached
<1> QED BY <1>2, <1>4, <1>5 DEF Good

\* What the root directory or an entry says of a file.
FileOf(L, h) == IF h = RootDirectory THEN Root ELSE EntryOf(L, h)

Says(f, L, h) ==
  f.block_index = h /\ f.file_size = L[h].size /\ f.mode = L[h].mode

EntriesIn(L, h) == {EntryOf(L, e) : e \in {g \in DOMAIN L \ {RootDirectory} : L[g].parent = h}}

\* A directory says of a file what the layout has of it.
LEMMA FileSays ==
  ASSUME NEW L, Layout(device, L), NEW h \in DOMAIN L
  PROVE  /\ Says(FileOf(L, h), L, h)
         /\ h # RootDirectory => Says(EntryOf(L, h), L, h)
<1>1. device.root_dir_size = L[RootDirectory].size /\ L[RootDirectory].mode = "dir"
  BY DEF Layout, Entered, Heads
<1>2. Says(EntryOf(L, h), L, h)
  BY DEF EntryOf, FileEntry, Says
<1>3. CASE h = RootDirectory
  BY <1>1, <1>3 DEF FileOf, Root, Says
<1>4. CASE h # RootDirectory
  BY <1>2, <1>4 DEF FileOf
<1> QED BY <1>2, <1>3, <1>4

\* The entries of a directory are those of the files with a place in it.
LEMMA EntriesOfDirectory ==
  ASSUME NEW L, Layout(device, L), NEW h \in DOMAIN L, L[h].mode = "dir",
         NEW dir, dir.block_index = h, dir.file_size = L[h].size
  PROVE  EntriesOf(dir) = EntriesIn(L, h)
<1> PICK size, cells : size = L[h].size /\ cells = Cells(device, h, size)
  OBVIOUS
<1>1. size \in Nat /\ Heads(L)
  BY HeadFacts DEF Layout
<1>2. DOMAIN cells = 0..(size - 1) /\ \A i \in 0..(size - 1) : cells[i] = At(device, L, h, i)
  <2>1. IsRead(cells, device, L, h)
    BY FileRead
  <2>2. cells = [i \in 0..(size - 1) |-> At(device, L, h, i)]
    BY <2>1 DEF IsRead
  <2> QED BY ONLY <2>2
<1>3. \A c : c \in EntriesOf(dir) <=> /\ \E i \in 0..(size - 1) : c = cells[i]
                                      /\ IsEntry(c) /\ c.block_index # 0
  <2>1. EntriesOf(dir) = {c \in {b \in Range(cells) : IsEntry(b)} : c.block_index # 0}
    BY DEF EntriesOf, Listing
  <2> QED BY <1>2, <2>1 DEF Range
<1>4. ASSUME NEW c \in EntriesOf(dir) PROVE c \in EntriesIn(L, h)
  <2>1. PICK i \in 0..(size - 1) : c = At(device, L, h, i)
    BY <1>2, <1>3
  <2>2. Known(c, L, h, i) /\ IsEntry(c) /\ c.block_index # 0
    BY <1>3, <2>1 DEF Layout, Seen
  <2>3. ~ \E n : c = FilenameEntry(n)
    <3>1. c.mode # "name"
      BY ONLY <2>2 DEF IsEntry
    <3> QED BY ONLY <3>1, CellKinds
  <2>4. c \notin Dots
    <3>1. \A b \in Dots : b.block_index = 0
      BY DEF Dots, FileEntry
    <3> QED BY ONLY <2>2, <3>1
  <2>5. PICK e \in DOMAIN L \ {RootDirectory} : L[e].parent = h /\ c = EntryOf(L, e)
    BY <2>2, <2>3, <2>4 DEF Known
  <2> QED BY <2>5 DEF EntriesIn
<1>5. ASSUME NEW c \in EntriesIn(L, h) PROVE c \in EntriesOf(dir)
  <2>1. PICK e \in DOMAIN L \ {RootDirectory} : L[e].parent = h /\ c = EntryOf(L, e)
    BY DEF EntriesIn
  <2>2. L[e].slot \in 0..(size - 1)
    BY <1>1, <2>1, PlaceInDirectory
  <2>3. At(device, L, h, L[e].slot) = c
    BY <2>1 DEF Layout, Entered
  <2>4. Says(c, L, e) /\ e # 0 /\ L[e].mode \in {"file", "dir"}
    BY <1>1, <2>1, FileSays, Sizes DEF Heads, IsHead
  <2> QED BY <1>2, <1>3, <2>2, <2>3, <2>4 DEF Says, IsEntry
<1> QED BY <1>4, <1>5

\* The root directory is a directory of the layout.
LEMMA RootIsDirectory ==
  ASSUME NEW L, Layout(device, L)
  PROVE  /\ RootDirectory \in DOMAIN L /\ L[RootDirectory].mode = "dir" /\ Heads(L)
         /\ Root.block_index = RootDirectory /\ Root.file_size = L[RootDirectory].size
         /\ EntriesOf(Root) = EntriesIn(L, RootDirectory)
<1>1. RootDirectory \in DOMAIN L /\ L[RootDirectory].mode = "dir" /\ Heads(L)
  BY DEF Layout, Heads
<1>2. Root.block_index = RootDirectory /\ Root.file_size = L[RootDirectory].size
  BY DEF Root, Layout, Entered
<1>3. EntriesOf(Root) = EntriesIn(L, RootDirectory)
  BY <1>1, <1>2, EntriesOfDirectory
<1> QED BY <1>1, <1>2, <1>3

\* The files on the device are those of its layout.
LEMMA FilesOfLayout ==
  ASSUME NEW L, Layout(device, L)
  PROVE  /\ \A f \in Files : \E h \in DOMAIN L : f = FileOf(L, h)
         /\ \A h \in DOMAIN L : FileOf(L, h) \in Files
<1>1. /\ RootDirectory \in DOMAIN L /\ Heads(L)
      /\ EntriesOf(Root) = EntriesIn(L, RootDirectory)
  BY RootIsDirectory
<1>2. ASSUME NEW e \in DOMAIN L \ {RootDirectory}, L[e].mode = "dir"
      PROVE  EntriesOf(EntryOf(L, e)) = EntriesIn(L, e)
  BY <1>2, FileSays, EntriesOfDirectory DEF Says
<1>3. FileOf(L, RootDirectory) = Root /\ Root \in Directories /\ Root \in Files
  BY DEF FileOf, Directories, Files
<1>4. ASSUME NEW h \in DOMAIN L, NEW f \in EntriesIn(L, h)
      PROVE  \E e \in DOMAIN L : f = FileOf(L, e)
  BY <1>4 DEF EntriesIn, FileOf
<1>5. ASSUME NEW f \in Files PROVE \E h \in DOMAIN L : f = FileOf(L, h)
  <2>1. CASE f = Root
    BY <1>1, <1>3, <2>1
  <2>2. CASE f \in EntriesOf(Root)
    BY <1>1, <1>4, <2>2
  <2>3. ASSUME NEW d \in EntriesOf(Root), d.mode = "dir", f \in EntriesOf(d)
        PROVE  \E h \in DOMAIN L : f = FileOf(L, h)
    <3>1. PICK e \in DOMAIN L \ {RootDirectory} : d = EntryOf(L, e)
      BY <1>1, <2>3 DEF EntriesIn
    <3>2. L[e].mode = "dir"
      BY <2>3, <3>1, FileSays DEF Says
    <3>3. f \in EntriesIn(L, e)
      BY <1>2, <2>3, <3>1, <3>2
    <3> QED BY <1>4, <3>3
  <2> QED BY <2>1, <2>2, <2>3 DEF Files, Directories
<1>6. ASSUME NEW e \in DOMAIN L \ {RootDirectory}, L[e].parent = RootDirectory
      PROVE  EntryOf(L, e) \in EntriesOf(Root) /\ EntryOf(L, e) \in Files
  <2>1. EntryOf(L, e) \in EntriesOf(Root)
    BY <1>1, <1>6 DEF EntriesIn
  <2> QED BY <1>3, <2>1 DEF Files
<1>7. ASSUME NEW h \in DOMAIN L PROVE FileOf(L, h) \in Files
  <2>1. CASE h = RootDirectory
    BY <1>3, <2>1
  <2>2. CASE h # RootDirectory /\ L[h].parent = RootDirectory
    BY <1>6, <2>2 DEF FileOf
  <2>3. CASE h # RootDirectory /\ L[h].parent # RootDirectory
    <3> PICK p : p = L[h].parent
      OBVIOUS
    <3>1. p \in DOMAIN L \ {RootDirectory} /\ L[p].mode = "dir"
      BY <1>1, <2>3, PlaceInDirectory
    <3>2. L[p].parent = RootDirectory
      BY <1>1, <3>1 DEF Heads, IsPlaced
    <3>3. EntryOf(L, p) \in Directories
      <4>1. EntryOf(L, p).mode = "dir"
        BY <3>1, FileSays DEF Says
      <4> QED BY <1>6, <3>1, <3>2, <4>1 DEF Directories
    <3>4. EntryOf(L, h) \in EntriesOf(EntryOf(L, p))
      BY <1>2, <2>3, <3>1 DEF EntriesIn
    <3> QED BY <2>3, <3>3, <3>4 DEF Files, FileOf
  <2> QED BY <2>1, <2>2, <2>3
<1> QED BY <1>5, <1>7

\* An open handle sees the entries of its file's directory, through the directory's handle;
\* that of the root directory sees none.
LEMMA BesideOpen ==
  ASSUME NEW L, Layout(device, L), NEW E, Handling(handles, L, E), NEW x \in Slots,
         IsOpen(handles, x), NEW b, b = handles[x].block_index
  PROVE  /\ b \in DOMAIN L /\ handles[x].current_size = L[b].size
         /\ b = RootDirectory => EntriesBeside(x) = {}
         /\ b # RootDirectory => /\ handles[x].directory # NULL
                                 /\ EntriesBeside(x) = EntriesIn(L, L[b].parent)
<1> PICK y, p : y = handles[x].directory /\ p = L[b].parent
  OBVIOUS
<1>1. HandleKept(handles, L, E, x)
  BY DEF Handling
<1>2. b \in DOMAIN L /\ handles[x].current_size = L[b].size
  BY <1>1 DEF HandleKept
<1>3. ASSUME b = RootDirectory PROVE EntriesBeside(x) = {}
  <2>1. y = NULL
    BY <1>1, <1>3 DEF HandleKept
  <2> QED BY <2>1 DEF EntriesBeside
<1>4. ASSUME b # RootDirectory PROVE y # NULL /\ EntriesBeside(x) = EntriesIn(L, p)
  <2>1. y \in Slots /\ handles[y].block_index = p
    BY <1>1, <1>4 DEF HandleKept
  <2>2. p \in DOMAIN L /\ L[p].mode = "dir" /\ p # 0
    BY <1>2, <1>4, PlaceInDirectory, HeadFacts DEF Layout, NULL
  <2>3. handles[y].current_size = L[p].size
    BY <2>1, <2>2 DEF Handling, IsOpen, HandleKept
  <2> PICK dir : dir = [block_index |-> handles[y].block_index, file_size |-> handles[y].current_size]
    OBVIOUS
  <2>4. dir.block_index = p /\ dir.file_size = L[p].size
    BY <2>1, <2>3
  <2>5. EntriesOf(dir) = EntriesIn(L, p)
    BY <2>2, <2>4, EntriesOfDirectory
  <2>6. y # NULL
    BY <2>1, Sizes
  <2> QED BY <2>5, <2>6 DEF EntriesBeside
<1> QED BY <1>2, <1>3, <1>4

\* A call starts from a good view, if the promises in force during it are honoured.
LEMMA ReadyCall ==
  ASSUME Good, Ready, NEW call, call.device = device, NEW failures, failures.ignored = {}
  PROVE  /\ \E L : /\ Finished(device, handles, held, promised, completed, L)
                   /\ Honours(device, L, call.promise) =>
                        GoodView(View(failures), call, L, Copies(held))
         /\ GoodDevice(device, promised) /\ IsHeld(held) /\ IsCount(Copies(held))
         /\ IsPromises(promised) /\ IsPromises(completed)
<1>1. /\ Sound(device, handles, pending, held, promised, completed) /\ pending = << >>
      /\ HeaderKnown(device, pending, root_dir_size)
  BY DEF Good, Ready
<1>2. \E L : /\ Finished(device, handles, held, promised, completed, L)
             /\ Honours(device, L, call.promise) =>
                  GoodView(NewView(device, handles, root_dir_size, failures), call, L, Copies(held))
  BY <1>1, ReadyView
<1> QED BY <1>1, <1>2, SoundFacts, CopiesAre DEF View

\* During a call that creates or opens files, what was promised before it is in force.
Quiet(call) == call.device = device /\ call.promise = promised

\* A call that promises nothing new starts from a good view.
LEMMA QuietCall ==
  ASSUME Good, Ready, NEW call, Quiet(call), NEW failures, failures.ignored = {}
  PROVE  /\ \E L : /\ GoodView(View(failures), call, L, Copies(held))
                   /\ Honours(device, L, promised) /\ Honours(device, L, completed)
         /\ GoodDevice(device, promised) /\ IsHeld(held) /\ IsCount(Copies(held))
         /\ IsPromises(promised) /\ IsPromises(completed)
<1>1. call.device = device /\ call.promise = promised
  BY DEF Quiet
<1>2. PICK L : /\ Finished(device, handles, held, promised, completed, L)
               /\ Honours(device, L, call.promise) =>
                    GoodView(View(failures), call, L, Copies(held))
  BY <1>1, ReadyCall
<1>3. Honours(device, L, promised) /\ Honours(device, L, completed)
  BY <1>2 DEF Finished
<1> QED BY <1>1, <1>2, <1>3, ReadyCall

\* What is known between calls, whatever fails in the next one.
LEMMA QuietFacts ==
  ASSUME Good, Ready
  PROVE  /\ GoodDevice(device, promised) /\ IsHeld(held) /\ IsCount(Copies(held))
         /\ IsPromises(promised) /\ IsPromises(completed)
BY SoundFacts, CopiesAre DEF Good

\* A call that gives a handle keeps the invariant.
LEMMA GivesSound ==
  ASSUME Good, Ready, NEW call, Quiet(call), NEW v, NEW M, NEW b,
         Given(v, call, M, Copies(held), b), Begin(v), Receive(v), promised' = promised,
         IsPromises(completed'), Honours(v.device, M, completed')
  PROVE  Good'
<1>1. GoodDevice(call.device, call.promise) /\ IsHeld(held) /\ IsPromises(call.promise)
  BY QuietFacts DEF Quiet
<1>2. /\ device' = device /\ handles' = v.handles /\ pending' = v.writes
      /\ root_dir_size' = v.root_dir_size
  BY DEF Begin
<1> PICK hd2, co : /\ hd2 = IF v.ret = NULL THEN held
                            ELSE held (+) SetToBag({[handle |-> v.ret,
                                                     block |-> v.handles[v.ret].block_index]})
                   /\ co = completed'
  OBVIOUS
<1>3. held' = hd2
  BY DEF Receive
<1>4. /\ Sound(call.device, v.handles, v.writes, hd2, call.promise, co)
      /\ HeaderKnown(call.device, v.writes, v.root_dir_size)
  BY <1>1, GivenSound
<1>5. /\ Sound(device, v.handles, v.writes, hd2, promised, co)
      /\ HeaderKnown(device, v.writes, v.root_dir_size)
  BY <1>4 DEF Quiet
<1> QED BY <1>2, <1>3, <1>5 DEF Good

\* tfsCreateFile and tfsCreateDirectory keep the invariant.
LEMMA CreatesSound ==
  ASSUME Good, Ready, NEW call, Quiet(call), NEW v, NEW M, NEW b, NEW failures,
         Given(v, call, M, Copies(held), b), Create(v, failures), ~ size_lost'
  PROVE  Good'
<1>1. /\ Begin(v) /\ Receive(v) /\ promised' = promised
      /\ completed' = IF v.ret = NULL THEN promised
                      ELSE Promising(v.handles[v.ret].block_index, NoPromise)
  BY DEF Create, Call
<1>2. IsPromises(promised) /\ call.promise = promised
  BY QuietFacts DEF Quiet
<1>3. \E F : GoodView(v, call, M, F)
  BY DEF Given
<1>4. Honours(v.device, M, promised) /\ Heads(M)
  BY <1>2, <1>3 DEF GoodView, Layout
<1>5. IsPromises(completed') /\ Honours(v.device, M, completed')
  <2>1. CASE v.ret = NULL
    BY <1>1, <1>2, <1>4, <2>1
  <2>2. CASE v.ret # NULL
    <3>1. b \in DOMAIN M /\ b = v.handles[v.ret].block_index
      BY <2>2 DEF Given
    <3> PICK q, Q, P, d : q = NoPromise /\ Q = WithPromise(P, b, q) /\ P = promised /\ d = v.device
      OBVIOUS
    <3>2. completed' = Q
      BY <1>1, <2>2, <3>1 DEF Promising, WithPromise
    <3>3. IsPromises(Q)
      <4>1. IsWith(Q, P, b, q)
        BY ONLY WithPromiseIs, Q = WithPromise(P, b, q)
      <4> QED BY <1>2, <4>1, NoPromiseIs DEF IsWith
    <3>4. Honours(d, M, Q)
      <4>1. Fulfils(d, M, b, q)
        BY <1>2, <1>4, <3>1, NothingFulfilled
      <4>2. Honours(d, M, P)
        BY <1>4
      <4> QED BY ONLY <4>1, <4>2, PromiseHonoured, Q = WithPromise(P, b, q)
    <3> QED BY <3>2, <3>3, <3>4
  <2> QED BY <2>1, <2>2
<1> QED BY <1>1, <1>5, GivesSound

\* What a write promises, in terms of what was promised.
LEMMA WrittenForm ==
  ASSUME IsPromises(promised), NEW b, NEW offset \in Nat, NEW n \in Nat, NEW value \in DataCells,
         NEW v, Written(b, offset, n, value, v), ~ size_lost',
         NEW old, old = PromiseOf(promised, b), NEW p, p = During(old, offset, n, value),
         NEW q, q = After(old, offset, n, value)
  PROVE  /\ promised' = WithPromise(promised, b, p)
         /\ completed' = WithPromise(promised, b, IF v.ret = FAILED THEN p ELSE q)
<1>1. Promise(b) = old
  BY DEF Promise, PromiseOf
<1>2. old = [size |-> old.size, cells |-> old.cells]
  BY PromiseOfIs DEF IsPromise
<1>3. [old EXCEPT !.cells =
         [i \in DOMAIN old.cells |->
            IF i \in offset..(offset + n - 1) THEN @[i] \cup {value} ELSE @[i]]] = p
  <2> PICK f : f = [i \in DOMAIN old.cells |->
                      IF i \in offset..(offset + n - 1) THEN old.cells[i] \cup {value}
                      ELSE old.cells[i]]
    OBVIOUS
  <2>1. [old EXCEPT !.cells = f] = [size |-> old.size, cells |-> f]
    BY ONLY <1>2
  <2>2. p = [size |-> old.size, cells |-> f]
    BY DEF During
  <2>3. [old EXCEPT !.cells = f] = p
    BY ONLY <2>1, <2>2
  <2> QED BY <2>3
<1>4. \A r : Promising(b, r) = WithPromise(promised, b, r)
  BY DEF Promising, WithPromise
<1>5. promised' = Promising(b, p)
  BY <1>1, <1>3 DEF Written
<1>6. completed' = Promising(b, IF v.ret = FAILED THEN p ELSE q)
  BY <1>1, <1>3, <1>5 DEF Written, After
<1> QED BY <1>4, <1>5, <1>6

\* tomfs_write keeps the invariant.
LEMMA WriteCellsSound ==
  ASSUME Good, WriteCells, ~ size_lost'
  PROVE  Good'
<1>0. Ready
  BY DEF WriteCells
<1>a. PICK token \in DOMAIN held, n \in Lengths, value \in DataCells, coin \in Coins,
           failures \in MayFail :
        \E offset \in 0..handles[token.handle].current_size :
          /\ \E e \in EntriesBeside(token.handle) :
               e.block_index = token.block /\ e.mode = "file"
          /\ offset + n <= MaxFileCells
          /\ Rewrite(token, offset, n, value,
                     WriteFile(View(failures), token.handle, [i \in 1..n |-> value], offset,
                               coin),
                     failures)
  BY DEF WriteCells
<1>1. PICK offset \in 0..handles[token.handle].current_size :
        /\ \E e \in EntriesBeside(token.handle) : e.block_index = token.block /\ e.mode = "file"
        /\ offset + n <= MaxFileCells
        /\ failures.ignored = {}
        /\ Begin(WriteFile(View(failures), token.handle, [i \in 1..n |-> value], offset, coin))
        /\ Written(token.block, offset, n, value,
                   WriteFile(View(failures), token.handle, [i \in 1..n |-> value], offset, coin))
        /\ held' = held
  BY <1>a DEF Rewrite, Call
<1> PICK P : P = promised
  OBVIOUS
<1>3. GoodDevice(device, P) /\ IsHeld(held) /\ IsCount(Copies(held)) /\ IsPromises(P)
  BY <1>0, QuietFacts
<1>4. PICK x \in Slots, h \in Blocks : token = [handle |-> x, block |-> h]
  BY <1>3 DEF IsHeld, IsToken
<1> PICK v, cells, w : /\ v = View(failures) /\ cells = [i \in 1..n |-> value]
                       /\ w = WriteFile(v, x, cells, offset, coin)
  OBVIOUS
<1>5. v.handles = handles /\ v.device = device
  BY DEF View, NewView
<1> PICK old, p, q : /\ old = PromiseOf(P, h) /\ p = During(old, offset, n, value)
                     /\ q = After(old, offset, n, value)
  OBVIOUS
<1> PICK D : D = WithPromise(P, h, p)
  OBVIOUS
<1> PICK call : call = [device |-> device, promise |-> D, first |-> offset, value |-> value]
  OBVIOUS
<1>c. call.device = device /\ call.promise = D /\ call.first = offset /\ call.value = value
  BY ONLY call = [device |-> device, promise |-> D, first |-> offset, value |-> value]
<1>2. PICK L : /\ Finished(device, handles, held, P, completed, L)
               /\ Honours(device, L, D) => GoodView(v, call, L, Copies(held))
  <2>1. \E L : /\ Finished(device, handles, held, promised, completed, L)
               /\ Honours(device, L, call.promise) => GoodView(View(failures), call, L, Copies(held))
    BY ONLY <1>0, <1>1, <1>c, Good, ReadyCall
  <2> QED BY <1>c, <2>1
<1>d. /\ Layout(device, L) /\ Handling(handles, L, Copies(held)) /\ Honours(device, L, P)
      /\ Heads(L)
  BY <1>2 DEF Finished, Layout
<1>6. Copies(held)[<< x, h >>] > 0
  BY <1>3, <1>4, CopiesAre DEF IsHeld
<1>7. /\ h = v.handles[x].block_index /\ IsOpen(v.handles, x) /\ h \in DOMAIN L
      /\ v.handles[x].current_size = L[h].size
  <2>1. h = handles[x].block_index /\ h # 0
    BY <1>d, <1>6 DEF Handling, References
  <2>2. HandleKept(handles, L, Copies(held), x)
    BY <1>d, <2>1 DEF Handling, IsOpen
  <2> QED BY <1>5, <2>1, <2>2 DEF HandleKept, IsOpen
<1>8. L[h].mode = "file"
  <2>1. PICK e \in EntriesBeside(x) : e.block_index = h /\ e.mode = "file"
    BY <1>1, <1>4
  <2>2. Layout(device, L) /\ Handling(handles, L, Copies(held))
    BY <1>d
  <2>3. IsOpen(handles, x) /\ h = handles[x].block_index
    BY <1>5, <1>7
  <2>4. EntriesBeside(x) = {} \/ EntriesBeside(x) = EntriesIn(L, L[h].parent)
    BY ONLY <2>2, <2>3, BesideOpen, x \in Slots
  <2>5. PICK g \in DOMAIN L \ {RootDirectory} : e = EntryOf(L, g)
    BY <2>1, <2>4 DEF EntriesIn
  <2>6. Says(e, L, g)
    BY <2>2, <2>5, FileSays
  <2> QED BY <2>1, <2>6 DEF Says
<1>9. offset \in Nat
  <2>1. L[h].size \in Nat
    BY <1>7, <1>d, HeadFacts
  <2>2. handles[token.handle].current_size = L[h].size
    BY <1>4, <1>5, <1>7
  <2> QED BY <1>1, <2>1, <2>2
<1>10. (\E X : cells \in Seq(X)) /\ cells # << >>
  <2>1. n \in Nat \ {0}
    BY TomFSAssumption
  <2>2. cells \in Seq({value}) /\ Len(cells) = n
    BY ONLY <2>1, cells = [i \in 1..n |-> value]
  <2>3. cells # << >>
    <3>1. Len(cells) # 0
      BY <2>1, <2>2
    <3> QED BY ONLY <3>1
  <2> QED BY <2>2, <2>3
<1>e. n \in Nat /\ Len(cells) = n /\ \A j \in 1..n : cells[j] = value
  <2>1. n \in Nat
    BY TomFSAssumption
  <2> QED BY ONLY <2>1, cells = [i \in 1..n |-> value]
<1>f. Rewritten(old, offset, n, value, p, q)
  <2>1. IsPromise(old)
    BY <1>3, PromiseOfIs
  <2> QED BY ONLY <1>9, <1>e, <2>1, WritePromises, value \in DataCells,
                  p = During(old, offset, n, value), q = After(old, offset, n, value)
<1>g. IsWith(D, P, h, p) /\ IsPromises(D) /\ PromiseOf(D, h) = p
  <2>1. IsWith(D, P, h, p)
    BY ONLY WithPromiseIs, D = WithPromise(P, h, p)
  <2>2. IsPromise(p)
    BY ONLY <1>f DEF Rewritten
  <2>3. /\ \A f : PromiseOf(D, f) = IF f = h THEN p ELSE PromiseOf(P, f)
        /\ IsPromises(P) /\ IsPromise(p) => IsPromises(D)
    BY ONLY <2>1 DEF IsWith
  <2> QED BY <1>3, <2>1, <2>2, <2>3
<1>h. \A N : Heads(N) /\ h \in DOMAIN N /\ Honours(device, N, P) => Honours(device, N, D)
  BY ONLY <1>3, <1>9, <1>e, DuringHonoured, value \in DataCells,
          old = PromiseOf(P, h), p = During(old, offset, n, value), D = WithPromise(P, h, p)
<1>i. GoodView(v, call, L, Copies(held))
  BY <1>2, <1>7, <1>d, <1>h
<1>j. Supplying(call, L, h, offset, cells)
  <2>1. ASSUME NEW i \in offset..(offset + n - 1) PROVE value \in PromiseOf(D, h).cells[i]
    <3>1. i \in 0..(MaxFileCells - 1)
      <4>1. MaxFileCells \in Nat /\ offset + n <= MaxFileCells
        BY <1>1, TomFSAssumption
      <4> QED BY ONLY <1>9, <1>e, <4>1, i \in offset..(offset + n - 1)
    <3> QED BY <1>f, <1>g, <3>1 DEF Rewritten
  <2> QED BY <1>c, <1>e, <2>1 DEF Supplying
<1>11. PICK M : GoodView(w, call, M, Copies(held)) /\ Wrote(w, call, M, h, offset, n)
  <2>1. offset + n <= MaxFileCells /\ n = Len(cells)
    BY <1>1, <1>e
  <2> QED BY ONLY <1>7, <1>8, <1>9, <1>10, <1>i, <1>j, <2>1, WriteFileView, x \in Slots,
                  w = WriteFile(v, x, cells, offset, coin)
<1> PICK co : co = WithPromise(P, h, IF w.ret = FAILED THEN p ELSE q)
  OBVIOUS
<1>12. IsPromises(co) /\ Honours(w.device, M, co)
  <2>1. Honours(w.device, M, D) /\ Heads(M)
    BY <1>11, <1>c DEF GoodView, Layout
  <2>2. CASE w.ret = FAILED
    BY <1>g, <2>1, <2>2
  <2>3. CASE w.ret # FAILED
    <3> PICK d : d = w.device
      OBVIOUS
    <3>1. /\ h \in DOMAIN M /\ offset + n <= M[h].size
          /\ \A i \in offset..(offset + n - 1) : At(d, M, h, i) = value
      BY <1>11, <1>c, <2>3 DEF Wrote
    <3>2. co = WithPromise(P, h, q)
      BY <2>3
    <3>3. Honours(d, M, co)
      <4>1. /\ p = During(PromiseOf(P, h), offset, n, value)
            /\ q = After(PromiseOf(P, h), offset, n, value)
            /\ Honours(d, M, WithPromise(P, h, p))
        BY <2>1
      <4>2. Honours(d, M, WithPromise(P, h, q))
        BY ONLY <1>3, <1>9, <1>e, <2>1, <3>1, <4>1, AfterHonoured, value \in DataCells
      <4> QED BY <3>2, <4>2
    <3>4. IsPromises(co)
      <4>1. IsWith(co, P, h, q)
        BY ONLY <3>2, WithPromiseIs
      <4>2. IsPromise(q)
        BY ONLY <1>f DEF Rewritten
      <4> QED BY <1>3, <4>1, <4>2 DEF IsWith
    <3> QED BY <3>3, <3>4
  <2> QED BY <2>2, <2>3
<1>k. GoodDevice(device, D)
  <2>1. PICK N : Layout(device, N) /\ Honours(device, N, P) /\ h \in DOMAIN N
    BY <1>7, <1>d
  <2>2. Heads(N)
    BY <2>1 DEF Layout
  <2> QED BY <1>h, <2>1, <2>2 DEF GoodDevice
<1>l. /\ Sound(device, w.handles, w.writes, held, D, co)
      /\ HeaderKnown(device, w.writes, w.root_dir_size)
  <2>1. GoodDevice(call.device, call.promise) /\ IsPromises(call.promise)
    BY <1>c, <1>g, <1>k
  <2>2. /\ Sound(call.device, w.handles, w.writes, held, call.promise, co)
        /\ HeaderKnown(call.device, w.writes, w.root_dir_size)
    BY ONLY <1>3, <1>11, <1>12, <2>1, CallSound
  <2> QED BY <1>c, <2>2
<1>13. /\ device' = device /\ handles' = w.handles /\ pending' = w.writes /\ held' = held
       /\ root_dir_size' = w.root_dir_size
  <2>1. token.handle = x
    BY <1>4
  <2> QED BY <1>1, <2>1 DEF Begin
<1>14. promised' = D /\ completed' = co
  <2>1. token.handle = x /\ token.block = h
    BY <1>4
  <2>2. Written(h, offset, n, value, w)
    BY <1>1, <2>1
  <2>3. /\ IsPromises(promised) /\ old = PromiseOf(promised, h)
        /\ p = During(old, offset, n, value) /\ q = After(old, offset, n, value)
    BY <1>3
  <2>4. /\ promised' = WithPromise(promised, h, p)
        /\ completed' = WithPromise(promised, h, IF w.ret = FAILED THEN p ELSE q)
    BY ONLY <1>9, <1>e, <2>2, <2>3, WrittenForm, value \in DataCells, ~ size_lost'
  <2> QED BY <2>4
<1> QED BY <1>13, <1>14, <1>l DEF Good

\* Every step keeps the invariant.
LEMMA NextSound == IInv /\ [Next]_vars => IInv'
<1> SUFFICES ASSUME IInv, [Next]_vars, ~ size_lost' PROVE Good'
  BY DEF IInv
<1> PICK call : call = [device |-> device, promise |-> promised]
  OBVIOUS
<1>0. Quiet(call)
  BY DEF Quiet
<1>a. ASSUME NEW v, NEW failures, Call(v, failures) PROVE failures.ignored = {} /\ ~ size_lost
  BY <1>a DEF Call
<1>1. CASE CreateNewFile
  <2>1. PICK path \in Paths, name \in FileNames, coin \in Coins, failures \in MayFail :
          Create(CreateFile(View(failures), path, "file", name, coin), failures)
    BY <1>1 DEF CreateNewFile
  <2> PICK v : v = CreateFile(View(failures), path, "file", name, coin)
    OBVIOUS
  <2>2. Ready /\ Create(v, failures)
    BY <1>1, <2>1 DEF CreateNewFile
  <2>3. failures.ignored = {} /\ Good
    BY <1>a, <2>2 DEF Create, IInv
  <2>4. PICK L : GoodView(View(failures), call, L, Copies(held))
    BY ONLY <1>0, <2>2, <2>3, QuietCall
  <2>5. PICK M, b : Created(v, call, M, Copies(held), b, "file")
    BY <2>4, CreateFileView
  <2>6. Given(v, call, M, Copies(held), b)
    BY <2>5 DEF Created
  <2> QED BY ONLY <1>0, <2>2, <2>3, <2>6, CreatesSound, ~ size_lost'
<1>2. CASE CreateNewDirectory
  <2>1. PICK name \in DirNames, failures \in MayFail :
          Create(CreateDirectory(View(failures), << >>, name, "low"), failures)
    BY <1>2 DEF CreateNewDirectory
  <2> PICK v : v = CreateDirectory(View(failures), << >>, name, "low")
    OBVIOUS
  <2>2. Ready /\ Create(v, failures)
    BY <1>2, <2>1 DEF CreateNewDirectory
  <2>3. failures.ignored = {} /\ Good
    BY <1>a, <2>2 DEF Create, IInv
  <2>4. PICK L : GoodView(View(failures), call, L, Copies(held))
    BY ONLY <1>0, <2>2, <2>3, QuietCall
  <2>5. PICK M, b : Given(v, call, M, Copies(held), b)
    BY <2>4, CreateDirectoryView
  <2> QED BY ONLY <1>0, <2>2, <2>3, <2>5, CreatesSound, ~ size_lost'
<1>3. CASE OpenExisting
  <2>1. PICK path \in Paths, failures \in MayFail :
          \/ Open(OpenPath(View(failures), path), failures)
          \/ \E name \in FileNames : Open(OpenFile(View(failures), path, name), failures)
    BY <1>3 DEF OpenExisting
  <2>2. Ready /\ failures.ignored = {} /\ Good
    BY <1>3, <1>a, <2>1 DEF OpenExisting, Open, IInv
  <2>3. PICK L : GoodView(View(failures), call, L, Copies(held)) /\ Honours(device, L, completed)
    BY ONLY <1>0, <2>2, QuietCall
  <2>a. View(failures).device = device
    BY DEF View, NewView
  <2>4. PICK v : /\ Open(v, failures) /\ v.device = device
                 /\ \E b : Given(v, call, L, Copies(held), b)
    <3>1. CASE Open(OpenPath(View(failures), path), failures)
      <4>1. /\ \E b : Given(OpenPath(View(failures), path), call, L, Copies(held), b)
            /\ OpenPath(View(failures), path).device = device
        BY <2>3, <2>a, OpenPathView DEF DirectoryGiven
      <4> QED BY <3>1, <4>1
    <3>2. CASE \E name \in FileNames : Open(OpenFile(View(failures), path, name), failures)
      <4>1. PICK name \in FileNames : Open(OpenFile(View(failures), path, name), failures)
        BY <3>2
      <4>2. /\ \E b : Given(OpenFile(View(failures), path, name), call, L, Copies(held), b)
            /\ OpenFile(View(failures), path, name).device = device
        BY <2>3, <2>a, OpenFileView
      <4> QED BY <4>1, <4>2
    <3> QED BY <2>1, <3>1, <3>2
  <2>5. Begin(v) /\ Receive(v) /\ promised' = promised /\ completed' = completed
    BY <2>4 DEF Open, Call
  <2>6. IsPromises(completed') /\ Honours(v.device, L, completed')
    BY <2>2, <2>3, <2>4, <2>5, QuietFacts
  <2> QED BY ONLY <1>0, <2>2, <2>4, <2>5, <2>6, GivesSound
<1>4. CASE WriteCells
  <2>1. Good
    BY <1>4, <1>a DEF WriteCells, Rewrite, IInv
  <2> QED BY <1>4, <2>1, WriteCellsSound
<1>5. CASE Close
  <2>1. PICK token \in DOMAIN held :
          /\ handles' = CloseHandle(View(NoFailures), token.handle).handles
          /\ held' = held (-) SetToBag({token})
    BY <1>5 DEF Close
  <2>2. /\ pending = << >> /\ ~ size_lost
        /\ UNCHANGED << device, root_dir_size, pending, promised, completed >>
    BY <1>5 DEF Close, Ready
  <2> PICK hd2, n : hd2 = held (-) SetToBag({token}) /\ n = root_dir_size
    OBVIOUS
  <2>3. /\ Sound(device, handles, pending, held, promised, completed)
        /\ HeaderKnown(device, pending, n)
    BY <2>2 DEF IInv, Good
  <2>4. Sound(device, CloseHandle(NewView(device, handles, n, NoFailures), token.handle).handles,
              pending, hd2, promised, completed)
    BY ONLY <2>2, <2>3, CloseSound, token \in DOMAIN held, hd2 = held (-) SetToBag({token})
  <2> QED BY <2>1, <2>2, <2>3, <2>4 DEF Good, View
<1>6. CASE Persist
  <2>1. /\ pending # << >> /\ device' = Head(pending) /\ pending' = Tail(pending)
        /\ promised' = IF Len(pending) = 1 THEN completed ELSE promised
        /\ UNCHANGED << handles, root_dir_size, held, completed >> /\ ~ size_lost
    BY <1>6 DEF Persist
  <2> PICK pr2 : pr2 = IF Len(pending) = 1 THEN completed ELSE promised
    OBVIOUS
  <2>2. /\ Sound(device, handles, pending, held, promised, completed)
        /\ HeaderKnown(device, pending, root_dir_size)
    BY <2>1 DEF IInv, Good
  <2>3. /\ Sound(Head(pending), handles, Tail(pending), held, pr2, completed)
        /\ Reached(Head(pending), Tail(pending)) = Reached(device, pending)
    BY <2>1, <2>2, PersistSound
  <2> QED BY <2>1, <2>2, <2>3 DEF Good, HeaderKnown
<1>7. CASE Crash
  <2>1. /\ pending' = << >> /\ handles' = FreeHandles /\ held' = EmptyBag /\ device' = device
        /\ root_dir_size' = device.root_dir_size /\ completed' = promised /\ promised' = promised
        /\ ~ size_lost
    BY <1>7 DEF Crash, FreeHandles
  <2>2. GoodDevice(device, promised) /\ IsPromises(promised)
    BY <2>1, SoundFacts DEF IInv, Good
  <2>3. Sound(device, FreeHandles, << >>, EmptyBag, promised, promised)
    BY <2>2, RestartSound
  <2>4. HeaderKnown(device, << >>, device.root_dir_size)
    BY DEF HeaderKnown, Reached
  <2> QED BY <2>1, <2>3, <2>4 DEF Good
<1>8. CASE UNCHANGED vars
  BY <1>8 DEF IInv, Good, vars
<1> QED BY <1>1, <1>2, <1>3, <1>4, <1>5, <1>6, <1>7, <1>8 DEF Next

\* Until the device fails where the code does not look (tomfs.c:579, 583, 857), it has a
\* layout in every state, also between two writes of a call and after a crash, and the
\* handles are what the program holds and has open.
THEOREM AlwaysSound == Spec => []IInv
<1>1. Init => IInv
  BY InitSound DEF IInv
<1> QED BY <1>1, NextSound, PTL DEF Spec

-----------------------------------------------------------------------------
\* A size on the device is covered by blocks, as the layout's is.
LEMMA SoundSizes ==
  ASSUME Good
  PROVE  SizesCovered
<1>1. PICK L : Layout(device, L)
  BY DEF Good, Sound, GoodDevice
<1>2. ASSUME NEW f \in Files
      PROVE  f.file_size <= Len(Chain(device, f.block_index)) * BlockCells
  <2>1. PICK h \in DOMAIN L : f = FileOf(L, h)
    BY <1>1, FilesOfLayout
  <2>2. f.block_index = h /\ f.file_size = L[h].size
    BY <1>1, <2>1, FileSays DEF Says
  <2>3. Chain(device, h) = L[h].line
    BY <1>1, LinesOfLayout
  <2>4. L[h].size <= Len(L[h].line) * BlockCells
    BY <1>1, HeadFacts DEF Layout
  <2> QED BY <2>2, <2>3, <2>4
<1> QED BY <1>2 DEF SizesCovered

\* The files a device shows have the blocks of the layout, which are apart.
LEMMA SoundChains ==
  ASSUME Good
  PROVE  ChainsApart
<1>1. PICK L : Layout(device, L)
  BY DEF Good, Sound, GoodDevice
<1>2. ASSUME NEW f \in Files
      PROVE  \E h \in DOMAIN L : /\ f = FileOf(L, h) /\ Chain(device, f.block_index) = L[h].line
                                 /\ DOMAIN L[h].line = 1..Len(L[h].line)
  <2>1. PICK h \in DOMAIN L : f = FileOf(L, h)
    BY <1>1, FilesOfLayout
  <2>2. f.block_index = h
    BY <1>1, <2>1, FileSays DEF Says
  <2>3. Chain(device, h) = L[h].line
    BY <1>1, LinesOfLayout
  <2>4. L[h].line \in Seq(Blocks)
    BY <1>1, HeadFacts DEF Layout
  <2> QED BY <2>1, <2>2, <2>3, <2>4
<1>3. Apart(L) /\ Linked(device, L)
  BY <1>1 DEF Layout, Heads
<1>4. ASSUME NEW f \in Files
      PROVE  /\ IsInjective(Chain(device, f.block_index))
             /\ Range(Chain(device, f.block_index)) \subseteq device.marked
  <2>1. PICK h \in DOMAIN L : /\ Chain(device, f.block_index) = L[h].line
                              /\ DOMAIN L[h].line = 1..Len(L[h].line)
    BY <1>2
  <2> PICK s : s = L[h].line
    OBVIOUS
  <2>2. \A i, j \in 1..Len(s) : s[i] = s[j] => i = j
    BY <1>3 DEF Apart
  <2>3. \A i \in 1..Len(s) : s[i] \in device.marked
    BY <1>3 DEF Linked, IsLinked
  <2> QED BY <2>1, <2>2, <2>3 DEF IsInjective, Range
<1>5. ASSUME NEW f \in Files, NEW g \in Files, f # g
      PROVE  Range(Chain(device, f.block_index)) \cap Range(Chain(device, g.block_index)) = {}
  <2>1. PICK h \in DOMAIN L : /\ f = FileOf(L, h) /\ Chain(device, f.block_index) = L[h].line
                              /\ DOMAIN L[h].line = 1..Len(L[h].line)
    BY <1>2
  <2>2. PICK k \in DOMAIN L : /\ g = FileOf(L, k) /\ Chain(device, g.block_index) = L[k].line
                              /\ DOMAIN L[k].line = 1..Len(L[k].line)
    BY <1>2
  <2>3. h # k
    BY <1>5, <2>1, <2>2
  <2>4. \A i \in 1..Len(L[h].line), j \in 1..Len(L[k].line) : L[h].line[i] # L[k].line[j]
    BY <1>3, <2>3 DEF Apart
  <2> QED BY <2>1, <2>2, <2>4 DEF Range
<1> QED BY <1>4, <1>5 DEF ChainsApart

\* An open handle is of a file of the layout and has its size.
LEMMA SoundHandles ==
  ASSUME Good
  PROVE  HandlesAgree
<1> SUFFICES ASSUME Ready, NEW x \in Slots, handles[x].block_index # 0
             PROVE  /\ \E f \in Files : /\ f.block_index = handles[x].block_index
                                        /\ f.file_size = handles[x].current_size
                    /\ handles[x].block_index # RootDirectory =>
                         /\ handles[x].directory # NULL
                         /\ \E e \in EntriesBeside(x) : e.block_index = handles[x].block_index
  BY DEF HandlesAgree
<1>1. PICK L : Layout(device, L) /\ Handling(handles, L, Copies(held))
  BY DEF Good, Sound, Reached, Ready, Finished
<1> PICK b : b = handles[x].block_index
  OBVIOUS
<1>2. /\ b \in DOMAIN L /\ handles[x].current_size = L[b].size
      /\ b # RootDirectory => /\ handles[x].directory # NULL
                              /\ EntriesBeside(x) = EntriesIn(L, L[b].parent)
  <2>1. IsOpen(handles, x)
    BY DEF IsOpen
  <2> QED BY <1>1, <2>1, BesideOpen
<1>3. \E f \in Files : f.block_index = b /\ f.file_size = handles[x].current_size
  BY <1>1, <1>2, FilesOfLayout, FileSays DEF Says
<1>4. ASSUME b # RootDirectory PROVE \E e \in EntriesBeside(x) : e.block_index = b
  <2>1. EntryOf(L, b) \in EntriesBeside(x)
    BY <1>2, <1>4 DEF EntriesIn
  <2>2. EntryOf(L, b).block_index = b
    BY DEF EntryOf, FileEntry
  <2> QED BY <2>1, <2>2
<1> QED BY <1>2, <1>3, <1>4

\* A handle the program holds is counted, so it is open and for the block it was given for.
LEMMA SoundHeld ==
  ASSUME Good
  PROVE  HeldHandlesStayOpen
<1>1. IsHeld(held) /\ \E L : Handling(handles, L, Copies(held))
  BY DEF Good, Sound, Finished
<1>2. ASSUME NEW token \in DOMAIN held
      PROVE  handles[token.handle].block_index = token.block
  <2>1. PICK x \in Slots, b \in Blocks : token = [handle |-> x, block |-> b]
    BY <1>1, <1>2 DEF IsHeld, IsToken
  <2>2. Copies(held)[<< x, b >>] > 0
    BY <1>1, <2>1, CopiesAre DEF IsHeld
  <2>3. handles[x].block_index = b
    BY <1>1, <2>2 DEF Handling, References
  <2> QED BY <2>1, <2>3
<1> QED BY <1>2 DEF HeldHandlesStayOpen

\* tfsReadFile from the start of a file, as far as it goes, reads its cells.
LEMMA ReadFromStart ==
  ASSUME NEW d, NEW L, Layout(d, L), NEW b \in DOMAIN L, NEW h, h.block_index = b,
         h.current_size = L[b].size, NEW s \in Nat, s <= L[b].size, NEW i \in 1..s
  PROVE  ReadFile(d, h, s, 0).buf[i] = At(d, L, b, i - 1)
<1> PICK size, l, room, line : /\ size = L[b].size /\ l = Len(line) /\ room = l * BlockCells
                               /\ line = L[b].line
  OBVIOUS
<1>1. size \in Nat /\ l \in Nat /\ size <= room /\ room \in Nat /\ Chain(d, b) = line
  <2>1. Heads(L) /\ Chain(d, b) = line
    BY LinesOfLayout DEF Layout
  <2>2. size \in Nat /\ l \in Nat /\ size <= room
    BY <2>1, HeadFacts
  <2>3. room \in Nat
    BY ONLY <2>2, Sizes, room = l * BlockCells
  <2> QED BY <2>1, <2>2, <2>3
<1>2. 0 < s /\ s <= size
  OBVIOUS
<1> PICK wanted, count, cells : /\ wanted = Min({s, size - 0}) /\ count = Min({wanted, room - 0})
                                /\ cells = Cells(d, b, 0 + count)
  OBVIOUS
<1>3. wanted = s
  <2>1. s \in Int /\ size - 0 \in Int /\ s <= size - 0
    BY <1>1, <1>2
  <2> QED BY <2>1, LesserOfTwo
<1>4. count = s
  <2>1. s \in Int /\ room - 0 \in Int /\ s <= room - 0
    BY <1>1, <1>2
  <2> QED BY <1>3, <2>1, LesserOfTwo
<1>5. ~ (0 > size \/ 0 >= room)
  BY <1>1, <1>2
<1>6. ReadFile(d, h, s, 0).buf = [j \in 1..count |-> cells[0 + j - 1]]
  BY <1>1, <1>5 DEF ReadFile
<1>7. ReadFile(d, h, s, 0).buf[i] = cells[i - 1]
  <2>1. 0 + i - 1 = i - 1
    OBVIOUS
  <2> QED BY <1>4, <1>6, <2>1
<1>8. cells = [j \in 0..(s - 1) |-> d.block[line[j \div BlockCells + 1]].cells[j % BlockCells]]
  <2>1. 0 + count = s
    BY ONLY <1>4, s \in Nat
  <2>2. cells = Cells(d, b, s)
    BY <2>1
  <2>3. Chain(d, b) = line
    BY <1>1
  <2> QED BY ONLY <2>2, <2>3 DEF Cells
<1>9. cells[i - 1] = At(d, L, b, i - 1)
  <2> PICK k : k = i - 1
    OBVIOUS
  <2>1. k \in 0..(s - 1)
    OBVIOUS
  <2>2. cells[k] = d.block[line[k \div BlockCells + 1]].cells[k % BlockCells]
    BY ONLY <1>8, <2>1
  <2> QED BY <2>2 DEF At
<1> QED BY <1>7, <1>9

\* What the device shows of a file is what it was promised to hold.
LEMMA SoundPromises ==
  ASSUME Good
  PROVE  PromisesKept
<1>1. PICK L : Layout(device, L) /\ Honours(device, L, promised)
  BY DEF Good, Sound, GoodDevice
<1> SUFFICES ASSUME NEW b \in DOMAIN promised
             PROVE  \E f \in Files :
                      /\ f.block_index = b
                      /\ f.file_size >= promised[b].size
                      /\ f.mode = "file" =>
                           LET h == [FreeHandle EXCEPT !.block_index = b,
                                                       !.current_size = f.file_size]
                               buf == ReadFile(device, h, promised[b].size, 0).buf
                           IN  \A i \in 1..promised[b].size : buf[i] \in promised[b].cells[i - 1]
  BY DEF PromisesKept
<1>2. b \in DOMAIN L /\ promised[b].size \in Nat /\ promised[b].size <= L[b].size
  BY <1>1 DEF Honours
<1> PICK f : f = FileOf(L, b)
  OBVIOUS
<1>3. f \in Files /\ f.block_index = b /\ f.file_size = L[b].size /\ f.mode = L[b].mode
  BY <1>1, <1>2, FilesOfLayout, FileSays DEF Says
<1> PICK s, h : /\ s = promised[b].size
                /\ h = [FreeHandle EXCEPT !.block_index = b, !.current_size = f.file_size]
  OBVIOUS
<1>4. L[b].size \in Nat /\ f.file_size >= s
  <2>1. L[b].size \in Nat
    BY <1>1, <1>2, HeadFacts DEF Layout
  <2> QED BY <1>2, <1>3, <2>1
<1>5. h.block_index = b /\ h.current_size = L[b].size
  BY <1>3 DEF FreeHandle
<1>6. ASSUME f.mode = "file", NEW i \in 1..s
      PROVE  ReadFile(device, h, s, 0).buf[i] \in promised[b].cells[i - 1]
  <2>1. s \in Nat /\ s <= L[b].size
    BY <1>2
  <2>2. ReadFile(device, h, s, 0).buf[i] = At(device, L, b, i - 1)
    BY ONLY <1>1, <1>2, <1>5, <2>1, ReadFromStart, i \in 1..s
  <2>3. i - 1 \in 0..(L[b].size - 1)
    BY <1>4, <2>1
  <2>4. PromiseOf(promised, b) = promised[b]
    BY DEF PromiseOf
  <2>5. At(device, L, b, i - 1) \in PromiseOf(promised, b).cells[i - 1]
    BY <1>1, <1>2, <1>3, <1>6, <2>3 DEF Honours, Truthful
  <2> QED BY <2>2, <2>4, <2>5
<1> QED BY <1>3, <1>4, <1>6

\* As long as the device has not failed where the code does not look (tomfs.c:579, 583,
\* 857), and whatever else fails, is called or is cut off by a crash, each file on the device
\* has blocks for all the cells its size says it has (tfsWriteFile links blocks before
\* tfsUpdateEntry writes the size).
THEOREM SizesAlwaysCovered == Spec => [](~ size_lost => SizesCovered)
<1>1. IInv => (~ size_lost => SizesCovered)
  BY SoundSizes DEF IInv
<1> QED BY <1>1, AlwaysSound, PTL

\* As long as the device has not failed where the code does not look, no block is ever in two
\* files or twice in one, or is a file's and unmarked: a block is marked (tfsAllocateBlock)
\* before a file links to it, whatever failure or crash comes between.
THEOREM ChainsAlwaysApart == Spec => [](~ size_lost => ChainsApart)
<1>1. IInv => (~ size_lost => ChainsApart)
  BY SoundChains DEF IInv
<1> QED BY <1>1, AlwaysSound, PTL

\* Between calls, as long as the device has not failed where the code does not look
\* (tfsWriteFile sets current_size whether or not the entry is written, tomfs.c:575-583), an
\* open handle is of a file that is there and knows its size, and the handle of its directory
\* is open.  Nothing is said of how often a handle is counted: tfsOpenFile keeps the
\* directory's handle counted.
THEOREM HandlesAlwaysAgree == Spec => []HandlesAgree
<1>1. IInv => HandlesAgree
  <2>1. size_lost => HandlesAgree
    BY DEF HandlesAgree
  <2> QED BY <2>1, SoundHandles DEF IInv
<1> QED BY <1>1, AlwaysSound, PTL

\* As long as the device has not failed where the code does not look, a handle given to the
\* program stays open, for the file it was given for, until the program closes it, whatever
\* is opened, created and closed in between (the references that tfsGetFileHandle and
\* tfsCloseHandle count, also those of directories on the way).
THEOREM HeldHandlesAlwaysOpen == Spec => [](~ size_lost => HeldHandlesStayOpen)
<1>1. IInv => (~ size_lost => HeldHandlesStayOpen)
  BY SoundHeld DEF IInv
<1> QED BY <1>1, AlwaysSound, PTL

\* As long as the device has not failed where the code does not look, what a call that has
\* returned created or wrote is there: the entry, a size that covers it, and the cells as
\* they were written last, whatever later calls do to other files, wherever they fail for
\* want of a block or by an access of the device that the code sees fail, and wherever a
\* crash falls in them; a write that failed or was cut off leaves each of its cells old or
\* new (tfsWriteFile fills the blocks and links them before tfsUpdateEntry writes the size).
THEOREM PromisesAlwaysKept == Spec => [](~ size_lost => PromisesKept)
<1>1. IInv => (~ size_lost => PromisesKept)
  BY SoundPromises DEF IInv
<1> QED BY <1>1, AlwaysSound, PTL
==============================================================================
