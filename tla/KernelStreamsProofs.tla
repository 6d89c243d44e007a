------------------------ MODULE KernelStreamsProofs ------------------------
(****************************************************************************)
(* Proofs about KernelStreams for every number of processes and every       *)
(* capacity of the streams.  The invariant follows a system call message by *)
(* message: it is stated of the part of the state a call works on, holds    *)
(* after each message the call serves, and so after the call.               *)
(****************************************************************************)
EXTENDS KernelStreams, CommonLemmas, SequenceTheorems

StdinMessages == {"stdout", "keyboard"}
StdoutMessages == [kind : {"text", "char", "spawn", "open"}, filled : BOOLEAN]
Channels(M) == [pending : Seq(M), ready : Seq(M), held : Seq(M)]

Filling == {"fill", "fill and flush", "fill and ask"}
Calling == {"flush", "full", "ask", "run"}
Unborn == {"free", "init"}
Places == Filling \cup Calling \cup Unborn \cup {"retry", "wait"}

KernelStates ==
  [pc : [Procs -> Places],
   stdin : [Procs -> Channels(StdinMessages)],
   stdout : [Procs -> Channels(StdoutMessages)],
   owner : Procs \cup {NoProc},
   hung : BOOLEAN]

Unread(ch) == ch.ready \o ch.pending
Contents(ch) == ch.held \o ch.ready \o ch.pending

\* A process that has not started has read nothing and written nothing.
NewbornWait(k) ==
  \A p \in Procs :
    /\ k.pc[p] = "free" => k.stdin[p] = NewChannel
    /\ k.pc[p] = "init" => k.stdin[p] = BirthStdin
    /\ k.pc[p] \in Unborn => k.stdout[p] = NewChannel

AllFilled(s) == \A i \in 1..Len(s) : s[i].filled
ButLastFilled(s) == s # << >> /\ \A i \in 1..(Len(s) - 1) : s[i].filled

Settled(ch) == AllFilled(ch.held) /\ AllFilled(ch.ready) /\ AllFilled(ch.pending)

\* The last message written has no body yet; a sync may have published it.
HalfWritten(ch) ==
  /\ AllFilled(ch.held)
  /\ \/ AllFilled(ch.ready) /\ ButLastFilled(ch.pending)
     \/ ch.pending = << >> /\ ButLastFilled(ch.ready)

FilledAt(k, p) ==
  IF k.pc[p] \in Filling THEN HalfWritten(k.stdout[p]) ELSE Settled(k.stdout[p])

FilledInOrder(k) == \A p \in Procs : FilledAt(k, p)

\* Where a process is told of the keyboard.
Told(ch) == {i \in 1..Len(Contents(ch)) : Contents(ch)[i] = "keyboard"}

ToldAt(k, p) == \A i, j \in Told(k.stdin[p]) : i = j /\ k.owner = p

OwnerTold(k) == \A p \in Procs : ToldAt(k, p)

\* One request to spawn at a time waits to be served, and there is a slot for it.
Spawns(ch) == {i \in 1..Len(Unread(ch)) : Unread(ch)[i].kind = "spawn"}

SpawnsFit(k) ==
  \A p, q \in Procs : \A i \in Spawns(k.stdout[p]), j \in Spawns(k.stdout[q]) :
    p = q /\ i = j /\ \E r \in Procs : k.pc[r] = "free"

Consistent(k) == NewbornWait(k) /\ FilledInOrder(k) /\ OwnerTold(k) /\ SpawnsFit(k)

\* A process that has lost a character has nothing unread when it runs on, so that its
\* next flush empties the stream.
DropsAt(lost, place, ch) ==
  /\ lost = 1 => /\ place \notin Unborn
                 /\ place \in {"run", "full", "wait"} => Unread(ch) = << >>
  /\ place = "retry" => /\ Unread(ch) = << >>
                        /\ lost = 1 => ch.held = << >>

DropsSpaced == \A p \in Procs : DropsAt(drops[p], pc[p], stdout[p])

IInv == /\ Kernel \in KernelStates
        /\ Consistent(Kernel)
        /\ drops \in [Procs -> {0, 1}]
        /\ DropsSpaced

-----------------------------------------------------------------------------
\* Moving a message from the head of one sequence to the end of another.
LEMMA HeadMoved ==
  ASSUME NEW M, NEW s \in Seq(M), NEW t \in Seq(M), s # << >>
  PROVE  Append(t, Head(s)) \o Tail(s) = t \o s
<1> DEFINE h == Head(s)
           rest == Tail(s)
<1>1. h \in M /\ rest \in Seq(M)
  BY HeadTailProperties
<1>2. Len(s) \in Nat /\ Len(s) > 0 /\ h = s[1]
  BY EmptySeq, HeadTailProperties
<1>3. << h >> \in Seq(M)
  BY <1>1
<1>4. << h >> \o rest = s
  <2>1. 1 \in 1..Len(s) /\ Len(s) \in 1..Len(s) /\ 1 + 1 = 2
    BY <1>2
  <2>2. SubSeq(s, 1, Len(s)) = << s[1] >> \o SubSeq(s, 1 + 1, Len(s))
    BY <2>1, SubSeqRecursiveFirst
  <2>3. SubSeq(s, 1, Len(s)) = s
    BY SubSeqFull
  <2>4. rest = SubSeq(s, 2, Len(s))
    BY TailIsSubSeq
  <2> QED BY <1>2, <2>1, <2>2, <2>3, <2>4
<1> HIDE DEF h, rest
<1>5. Append(t, h) = t \o << h >>
  BY <1>1, AppendIsConcat
<1>6. (t \o << h >>) \o rest = t \o (<< h >> \o rest)
  BY <1>1, <1>3, ConcatAssociative
<1>7. Append(t, h) \o rest = t \o s
  BY <1>4, <1>5, <1>6
<1> QED BY <1>7 DEF h, rest

LEMMA TailOfConcat ==
  ASSUME NEW M, NEW s \in Seq(M), NEW t \in Seq(M), s # << >>
  PROVE  Tail(s) \o t = Tail(s \o t) /\ s \o t # << >> /\ s \o t \in Seq(M)
<1>1. Tail(s) \in Seq(M) /\ Len(Tail(s)) = Len(s) - 1 /\ \A i \in 1..Len(Tail(s)) : Tail(s)[i] = s[i + 1]
  BY HeadTailProperties
<1>2. /\ s \o t \in Seq(M) /\ Len(s \o t) = Len(s) + Len(t)
      /\ \A i \in 1..(Len(s) + Len(t)) : (s \o t)[i] = IF i <= Len(s) THEN s[i] ELSE t[i - Len(s)]
  BY ConcatProperties
<1>3. Len(s) \in Nat /\ Len(t) \in Nat /\ Len(s) > 0
  BY EmptySeq, LenProperties
<1>4. s \o t # << >>
  BY <1>2, <1>3, EmptySeq
<1>5. /\ Tail(s \o t) \in Seq(M) /\ Len(Tail(s \o t)) = Len(s) + Len(t) - 1
      /\ \A i \in 1..(Len(s) + Len(t) - 1) : Tail(s \o t)[i] = (s \o t)[i + 1]
  <2>1. /\ Tail(s \o t) \in Seq(M) /\ Len(Tail(s \o t)) = Len(s \o t) - 1
        /\ \A i \in 1..Len(Tail(s \o t)) : Tail(s \o t)[i] = (s \o t)[i + 1]
    BY <1>2, <1>4, HeadTailProperties
  <2> QED BY <1>2, <2>1
<1>6. /\ Tail(s) \o t \in Seq(M) /\ Len(Tail(s) \o t) = Len(s) - 1 + Len(t)
      /\ \A i \in 1..(Len(s) - 1 + Len(t)) :
           (Tail(s) \o t)[i] = IF i <= Len(s) - 1 THEN Tail(s)[i] ELSE t[i - (Len(s) - 1)]
  BY <1>1, ConcatProperties
<1> DEFINE l == Len(s)
           m == Len(t)
           a == Tail(s) \o t
           b == Tail(s \o t)
<1>7. ASSUME NEW i \in 1..(l + m - 1) PROVE a[i] = b[i]
  <2>1. i + 1 \in 1..(l + m) /\ i \in 1..(l - 1 + m)
    BY <1>3
  <2>2. b[i] = IF i + 1 <= l THEN s[i + 1] ELSE t[i + 1 - l]
    BY <1>2, <1>5, <2>1
  <2>3. a[i] = IF i <= l - 1 THEN Tail(s)[i] ELSE t[i - (l - 1)]
    BY <1>6, <2>1
  <2>4. CASE i <= l - 1
    <3>1. Tail(s)[i] = s[i + 1]
      BY <1>1, <1>3, <2>4
    <3> QED BY <1>3, <2>2, <2>3, <2>4, <3>1
  <2>5. CASE ~(i <= l - 1)
    <3>1. ~(i + 1 <= l) /\ i - (l - 1) = i + 1 - l
      BY <1>3, <2>5
    <3> QED BY <2>2, <2>3, <2>5, <3>1
  <2> QED BY <2>4, <2>5
<1>8. Len(a) = l + m - 1 /\ Len(b) = l + m - 1 /\ a \in Seq(M) /\ b \in Seq(M)
  BY <1>3, <1>5, <1>6
<1>9. a = b
  <2> HIDE DEF a, b, l, m
  <2> QED BY <1>7, <1>8, SeqEqual
<1> QED BY <1>2, <1>4, <1>9

LEMMA AppendToConcat ==
  ASSUME NEW M, NEW s \in Seq(M), NEW t \in Seq(M), NEW msg \in M
  PROVE  s \o Append(t, msg) = Append(s \o t, msg)
<1>1. << msg >> \in Seq(M)
  OBVIOUS
<1>2. Append(t, msg) = t \o << msg >>
  BY AppendIsConcat
<1>3. s \o t \in Seq(M)
  BY ConcatProperties
<1>4. Append(s \o t, msg) = (s \o t) \o << msg >>
  BY <1>3, AppendIsConcat
<1>5. (s \o t) \o << msg >> = s \o (t \o << msg >>)
  BY <1>1, ConcatAssociative
<1> QED BY <1>2, <1>4, <1>5

\* What is left of a sequence after its first messages.
LEMMA RestOf ==
  ASSUME NEW M, NEW s \in Seq(M), NEW n \in 1..Len(s)
  PROVE  /\ SubSeq(s, n, Len(s)) # << >>
         /\ Head(SubSeq(s, n, Len(s))) = s[n]
         /\ Tail(SubSeq(s, n, Len(s))) = SubSeq(s, n + 1, Len(s))
<1> DEFINE l == Len(s)
           r == SubSeq(s, n, l)
           u == SubSeq(s, n + 1, l)
<1>1. l \in Nat /\ n \in Nat /\ 1 <= n /\ n <= l
  <2>1. l \in Nat
    BY LenProperties
  <2> HIDE DEF l
  <2> QED BY <2>1 DEF l
<1>2. \A i \in 1..l : s[i] \in M
  BY ElementOfSeq
<1> HIDE DEF l
<1>3. /\ r \in Seq(M) /\ Len(r) = l - n + 1
      /\ \A i \in 1..(l - n + 1) : r[i] = s[n + i - 1]
  <2>1. n \in Int /\ l \in Int /\ n <= l /\ \A i \in n..l : s[i] \in M
    BY <1>1, <1>2
  <2> QED BY <2>1, SubSeqProperties
<1>4. /\ u \in Seq(M) /\ Len(u) = l - n
      /\ \A i \in 1..(l - n) : u[i] = s[n + i]
  <2>1. n + 1 \in Int /\ l \in Int /\ \A i \in (n + 1)..l : s[i] \in M
    BY <1>1, <1>2
  <2>2. /\ u \in Seq(M)
        /\ Len(u) = IF n + 1 <= l THEN l - (n + 1) + 1 ELSE 0
        /\ \A i \in 1..(l - (n + 1) + 1) : u[i] = s[(n + 1) + i - 1]
    BY <2>1, SubSeqProperties
  <2>3. l - (n + 1) + 1 = l - n /\ (~(n + 1 <= l) => l - n = 0)
    BY <1>1
  <2>4. \A i \in 1..(l - n) : (n + 1) + i - 1 = n + i
    BY <1>1
  <2> QED BY <2>2, <2>3, <2>4
<1> HIDE DEF r, u
<1>5. r # << >>
  BY <1>1, <1>3
<1>6. /\ Head(r) = r[1] /\ Tail(r) \in Seq(M) /\ Len(Tail(r)) = Len(r) - 1
      /\ \A i \in 1..Len(Tail(r)) : Tail(r)[i] = r[i + 1]
  <2>1. \A t \in Seq(M) : t # << >> =>
          /\ Tail(t) \in Seq(M) /\ Len(Tail(t)) = Len(t) - 1
          /\ \A i \in 1..Len(Tail(t)) : Tail(t)[i] = t[i + 1]
    BY HeadTailProperties
  <2>2. Head(r) = r[1]
    BY <1>3, <1>5
  <2> QED BY <1>3, <1>5, <2>1, <2>2
<1>7. Head(r) = s[n]
  <2>1. 1 \in 1..(l - n + 1) /\ n + 1 - 1 = n
    BY <1>1
  <2> QED BY <1>3, <1>6, <2>1
<1>8. Len(Tail(r)) = l - n
  BY <1>1, <1>3, <1>6
<1>9. ASSUME NEW i \in 1..(l - n) PROVE Tail(r)[i] = u[i]
  <2>1. i + 1 \in 1..(l - n + 1) /\ n + (i + 1) - 1 = n + i
    BY <1>1
  <2> QED BY <1>3, <1>4, <1>6, <1>8, <2>1
<1>10. Tail(r) = u
  BY <1>4, <1>6, <1>8, <1>9, SeqEqual
<1> QED BY <1>5, <1>7, <1>10 DEF r, u, l

-----------------------------------------------------------------------------
\* What the operations do to a channel.

LEMMA ChannelSequences ==
  ASSUME NEW M, NEW ch \in Channels(M)
  PROVE  /\ ch.pending \in Seq(M) /\ ch.ready \in Seq(M) /\ ch.held \in Seq(M)
         /\ Len(ch.pending) \in Nat /\ Len(ch.ready) \in Nat /\ Len(ch.held) \in Nat
         /\ Unread(ch) \in Seq(M) /\ Len(Unread(ch)) = Len(ch.ready) + Len(ch.pending)
         /\ Contents(ch) \in Seq(M) /\ Contents(ch) = ch.held \o Unread(ch)
         /\ Len(Contents(ch)) = Len(ch.held) + Len(Unread(ch))
<1>1. ch.pending \in Seq(M) /\ ch.ready \in Seq(M) /\ ch.held \in Seq(M)
  BY DEF Channels
<1>2. Len(ch.pending) \in Nat /\ Len(ch.ready) \in Nat /\ Len(ch.held) \in Nat
  BY <1>1, LenProperties
<1>3. Unread(ch) \in Seq(M) /\ Len(Unread(ch)) = Len(ch.ready) + Len(ch.pending)
  BY <1>1, ConcatProperties DEF Unread
<1>4. Contents(ch) = ch.held \o Unread(ch)
  <2>1. \A s, t, u \in Seq(M) : (s \o t) \o u = s \o (t \o u)
    BY ConcatAssociative
  <2> QED BY <1>1, <2>1 DEF Contents, Unread
<1>5. Contents(ch) \in Seq(M) /\ Len(Contents(ch)) = Len(ch.held) + Len(Unread(ch))
  BY <1>1, <1>3, <1>4, ConcatProperties
<1> QED BY <1>1, <1>2, <1>3, <1>4, <1>5

LEMMA SyncedChannel ==
  ASSUME NEW M, NEW ch \in Channels(M)
  PROVE  /\ Synced(ch) \in Channels(M)
         /\ Synced(ch).pending = << >> /\ Synced(ch).held = << >>
         /\ Synced(ch).ready = Unread(ch)
         /\ Unread(Synced(ch)) = Unread(ch)
         /\ Contents(Synced(ch)) = Unread(ch)
<1>1. /\ Synced(ch).pending = << >> /\ Synced(ch).held = << >>
      /\ Synced(ch).ready = Unread(ch)
  BY DEF Synced, Unread
<1>2. Unread(ch) \in Seq(M) /\ << >> \in Seq(M)
  BY ChannelSequences, EmptySeq
<1>3. Synced(ch) \in Channels(M)
  BY <1>2 DEF Synced, Unread, Channels
<1>4. Unread(Synced(ch)) = Unread(ch)
  BY <1>1, <1>2, ConcatEmptySeq DEF Unread
<1>5. Contents(Synced(ch)) = Unread(ch)
  BY <1>1, <1>2, <1>3, <1>4, ChannelSequences, ConcatEmptySeq
<1> QED BY <1>1, <1>3, <1>4, <1>5

LEMMA ReadChannel ==
  ASSUME NEW M, NEW ch \in Channels(M), ch.ready # << >>
  PROVE  /\ ReadFrom(ch) \in Channels(M)
         /\ ReadFrom(ch).pending = ch.pending
         /\ ReadFrom(ch).ready = Tail(ch.ready)
         /\ ReadFrom(ch).held = Append(ch.held, Head(ch.ready))
         /\ Head(ch.ready) \in M
         /\ Contents(ReadFrom(ch)) = Contents(ch)
         /\ Unread(ch) # << >> /\ Unread(ReadFrom(ch)) = Tail(Unread(ch))
<1> DEFINE after == ReadFrom(ch)
<1>1. ch.pending \in Seq(M) /\ ch.ready \in Seq(M) /\ ch.held \in Seq(M)
  BY ChannelSequences
<1>2. Head(ch.ready) \in M /\ Tail(ch.ready) \in Seq(M)
  BY <1>1, HeadTailProperties
<1>3. Append(ch.held, Head(ch.ready)) \in Seq(M)
  BY <1>1, <1>2, AppendProperties
<1>4. /\ after.pending = ch.pending /\ after.ready = Tail(ch.ready)
      /\ after.held = Append(ch.held, Head(ch.ready))
      /\ after \in Channels(M)
  BY <1>1, <1>2, <1>3 DEF ReadFrom, Channels
<1> HIDE DEF after
<1>5. Append(ch.held, Head(ch.ready)) \o Tail(ch.ready) = ch.held \o ch.ready
  BY <1>1, HeadMoved
<1>6. Contents(after) = Contents(ch)
  BY <1>4, <1>5 DEF Contents
<1>7. /\ Tail(ch.ready) \o ch.pending = Tail(ch.ready \o ch.pending)
      /\ ch.ready \o ch.pending # << >>
  BY <1>1, TailOfConcat
<1>8. Unread(ch) # << >> /\ Unread(after) = Tail(Unread(ch))
  BY <1>4, <1>7 DEF Unread
<1> QED BY <1>2, <1>4, <1>6, <1>8 DEF after

LEMMA CreatedChannel ==
  ASSUME NEW M, NEW ch \in Channels(M), NEW msg \in M
  PROVE  /\ Created(ch, msg) \in Channels(M)
         /\ Created(ch, msg).pending = Append(ch.pending, msg)
         /\ Created(ch, msg).ready = ch.ready /\ Created(ch, msg).held = ch.held
         /\ Unread(Created(ch, msg)) = Append(Unread(ch), msg)
         /\ Contents(Created(ch, msg)) = Append(Contents(ch), msg)
<1> DEFINE after == Created(ch, msg)
<1>1. ch.pending \in Seq(M) /\ ch.ready \in Seq(M) /\ ch.held \in Seq(M)
  BY ChannelSequences
<1>2. Append(ch.pending, msg) \in Seq(M)
  BY <1>1, AppendProperties
<1>3. /\ after.pending = Append(ch.pending, msg)
      /\ after.ready = ch.ready /\ after.held = ch.held
      /\ after \in Channels(M)
  BY <1>1, <1>2 DEF Created, Channels
<1> HIDE DEF after
<1>4. Unread(after) = Append(Unread(ch), msg)
  <2>1. \A s, t \in Seq(M) : s \o Append(t, msg) = Append(s \o t, msg)
    BY AppendToConcat
  <2> QED BY <1>1, <1>3, <2>1 DEF Unread
<1>5. ch.held \o ch.ready \in Seq(M)
  BY <1>1, ConcatProperties
<1>6. Contents(after) = Append(Contents(ch), msg)
  <2>1. \A s, t \in Seq(M) : s \o Append(t, msg) = Append(s \o t, msg)
    BY AppendToConcat
  <2> QED BY <1>1, <1>3, <1>5, <2>1 DEF Contents
<1> QED BY <1>3, <1>4, <1>6 DEF after

SameKinds(s, t) == Len(s) = Len(t) /\ \A i \in 1..Len(t) : s[i].kind = t[i].kind

\* What FillMessage does to the last message, wherever that is.
LEMMA FilledSequence ==
  ASSUME NEW s \in Seq(StdoutMessages), ButLastFilled(s)
  PROVE  /\ [s EXCEPT ![Len(s)].filled = TRUE] \in Seq(StdoutMessages)
         /\ AllFilled([s EXCEPT ![Len(s)].filled = TRUE])
         /\ SameKinds([s EXCEPT ![Len(s)].filled = TRUE], s)
<1> DEFINE last == Len(s)
           msg == [s[last] EXCEPT !.filled = TRUE]
<1>1. last \in Nat \ {0} /\ last \in 1..last
  <2>1. s # << >>
    BY DEF ButLastFilled
  <2>2. last \in Nat \ {0}
    BY <2>1, EmptySeq
  <2> QED BY <2>2
<1>2. \A i \in 1..last : s[i] \in StdoutMessages
  BY ElementOfSeq
<1>3. msg \in StdoutMessages /\ msg.filled = TRUE /\ msg.kind = s[last].kind
  BY <1>1, <1>2 DEF StdoutMessages
<1>4. [s EXCEPT ![last].filled = TRUE] = [s EXCEPT ![last] = msg]
  OBVIOUS
<1>5. /\ [s EXCEPT ![last] = msg] \in Seq(StdoutMessages)
      /\ Len([s EXCEPT ![last] = msg]) = last
      /\ \A j \in 1..last : [s EXCEPT ![last] = msg][j] = IF j = last THEN msg ELSE s[j]
  <2> HIDE DEF msg
  <2> QED BY <1>1, <1>3, ExceptSeq
<1>6. \A j \in 1..last : j # last => j \in 1..(last - 1)
  BY <1>1
<1>7. \A j \in 1..(last - 1) : s[j].filled
  BY DEF ButLastFilled
<1> HIDE DEF msg, last
<1> DEFINE t == [s EXCEPT ![last] = msg]
<1> HIDE DEF t
<1>8. /\ t \in Seq(StdoutMessages) /\ Len(t) = last
      /\ \A j \in 1..last : t[j] = IF j = last THEN msg ELSE s[j]
  BY <1>5 DEF t
<1>9. \A j \in 1..last : t[j].filled /\ t[j].kind = s[j].kind
  BY <1>3, <1>6, <1>7, <1>8
<1>10. t \in Seq(StdoutMessages) /\ AllFilled(t) /\ SameKinds(t, s)
  BY <1>8, <1>9 DEF AllFilled, SameKinds, last
<1> QED BY <1>4, <1>10 DEF t, last

LEMMA SameKindsOfConcat ==
  ASSUME NEW M, NEW s \in Seq(M), NEW t \in Seq(M), NEW s2 \in Seq(M), NEW t2 \in Seq(M),
         SameKinds(s2, s), SameKinds(t2, t)
  PROVE  SameKinds(s2 \o t2, s \o t)
<1> DEFINE l == Len(s)
           m == Len(t)
<1>1. /\ Len(s \o t) = l + m
      /\ \A i \in 1..(l + m) : (s \o t)[i] = IF i <= l THEN s[i] ELSE t[i - l]
  BY ConcatProperties
<1>2. /\ Len(s2 \o t2) = l + m
      /\ \A i \in 1..(l + m) : (s2 \o t2)[i] = IF i <= l THEN s2[i] ELSE t2[i - l]
  <2>1. ASSUME NEW u \in Seq(M), NEW v \in Seq(M), Len(u) = l, Len(v) = m
        PROVE  /\ Len(u \o v) = l + m
               /\ \A i \in 1..(l + m) : (u \o v)[i] = IF i <= l THEN u[i] ELSE v[i - l]
    <3>1. /\ Len(u \o v) = Len(u) + Len(v)
          /\ \A i \in 1..(Len(u) + Len(v)) :
               (u \o v)[i] = IF i <= Len(u) THEN u[i] ELSE v[i - Len(u)]
      BY ConcatProperties
    <3> HIDE DEF l, m
    <3> QED BY <2>1, <3>1
  <2> HIDE DEF l, m
  <2>2. Len(s2) = l /\ Len(t2) = m
    BY DEF l, m, SameKinds
  <2> QED BY <2>1, <2>2
<1>3. l \in Nat /\ m \in Nat
  BY LenProperties
<1>4. ASSUME NEW i \in 1..(l + m) PROVE (s2 \o t2)[i].kind = (s \o t)[i].kind
  <2>1. CASE i <= l
    <3>1. (s \o t)[i] = s[i] /\ (s2 \o t2)[i] = s2[i] /\ i \in 1..l
      BY <1>1, <1>2, <1>3, <2>1
    <3> QED BY <3>1 DEF SameKinds
  <2>2. CASE ~(i <= l)
    <3>1. (s \o t)[i] = t[i - l] /\ (s2 \o t2)[i] = t2[i - l] /\ i - l \in 1..m
      BY <1>1, <1>2, <1>3, <2>2
    <3> QED BY <3>1 DEF SameKinds
  <2> QED BY <2>1, <2>2
<1> QED BY <1>1, <1>2, <1>4 DEF SameKinds

LEMMA FilledChannel ==
  ASSUME NEW ch \in Channels(StdoutMessages), HalfWritten(ch)
  PROVE  /\ Filled(ch) \in Channels(StdoutMessages)
         /\ Settled(Filled(ch))
         /\ Spawns(Filled(ch)) = Spawns(ch)
         /\ Unread(Filled(ch)) # << >>
<1> DEFINE M == StdoutMessages
           after == Filled(ch)
<1>1. ch.pending \in Seq(M) /\ ch.ready \in Seq(M) /\ ch.held \in Seq(M)
  BY ChannelSequences
<1>2. AllFilled(ch.held)
  BY DEF HalfWritten
<1>3. CASE ch.pending # << >>
  <2> DEFINE new == [ch.pending EXCEPT ![Len(ch.pending)].filled = TRUE]
  <2>1. ButLastFilled(ch.pending) /\ AllFilled(ch.ready)
    BY <1>3 DEF HalfWritten
  <2>2. new \in Seq(M) /\ AllFilled(new) /\ SameKinds(new, ch.pending)
    BY <1>1, <2>1, FilledSequence
  <2>3. after = [ch EXCEPT !.pending = new]
    BY <1>3 DEF Filled
  <2> HIDE DEF new, after
  <2>4. /\ after \in Channels(M) /\ after.pending = new /\ after.ready = ch.ready
        /\ after.held = ch.held
    BY <1>1, <2>2, <2>3 DEF Channels
  <2>5. Settled(after)
    BY <1>2, <2>1, <2>2, <2>4 DEF Settled
  <2>6. SameKinds(Unread(after), Unread(ch))
    <3>1. SameKinds(ch.ready, ch.ready)
      BY DEF SameKinds
    <3>2. SameKinds(ch.ready \o new, ch.ready \o ch.pending)
      BY <1>1, <2>2, <3>1, SameKindsOfConcat
    <3> QED BY <2>4, <3>2 DEF Unread
  <2>7. Unread(after) # << >>
    <3>1. Len(ch.pending) \in Nat \ {0} /\ Len(ch.ready) \in Nat
      BY <1>1, <1>3, EmptySeq, LenProperties
    <3>2. Len(Unread(after)) = Len(ch.ready) + Len(ch.pending)
      BY <2>6, ChannelSequences DEF SameKinds
    <3>3. \A m \in Nat \ {0}, n \in Nat : m + n # 0 /\ n + m # 0
      OBVIOUS
    <3>4. Len(Unread(after)) # 0
      BY <3>1, <3>2, <3>3
    <3> QED BY <3>4, EmptySeq
  <2>8. Spawns(after) = Spawns(ch)
    BY <2>6 DEF Spawns, SameKinds
  <2> QED BY <2>4, <2>5, <2>7, <2>8 DEF after
<1>4. CASE ch.pending = << >>
  <2> DEFINE new == [ch.ready EXCEPT ![Len(ch.ready)].filled = TRUE]
  <2>1. ButLastFilled(ch.ready) /\ AllFilled(ch.pending) /\ ch.ready # << >>
    BY <1>4, EmptySeq DEF HalfWritten, ButLastFilled, AllFilled
  <2>2. new \in Seq(M) /\ AllFilled(new) /\ SameKinds(new, ch.ready)
    BY <1>1, <2>1, FilledSequence
  <2>3. after = [ch EXCEPT !.ready = new]
    BY <1>4, <2>1 DEF Filled
  <2> HIDE DEF new, after
  <2>4. /\ after \in Channels(M) /\ after.ready = new /\ after.pending = ch.pending
        /\ after.held = ch.held
    BY <1>1, <2>2, <2>3 DEF Channels
  <2>5. Settled(after)
    BY <1>2, <2>1, <2>2, <2>4 DEF Settled
  <2>6. SameKinds(Unread(after), Unread(ch))
    <3>1. SameKinds(ch.pending, ch.pending)
      BY DEF SameKinds
    <3>2. SameKinds(new \o ch.pending, ch.ready \o ch.pending)
      BY <1>1, <2>2, <3>1, SameKindsOfConcat
    <3> QED BY <2>4, <3>2 DEF Unread
  <2>7. Unread(after) # << >>
    <3>1. Len(ch.ready) \in Nat \ {0} /\ Len(ch.pending) \in Nat
      BY <1>1, <2>1, EmptySeq, LenProperties
    <3>2. Len(Unread(after)) = Len(ch.ready) + Len(ch.pending)
      BY <2>6, ChannelSequences DEF SameKinds
    <3>3. \A m \in Nat \ {0}, n \in Nat : m + n # 0 /\ n + m # 0
      OBVIOUS
    <3>4. Len(Unread(after)) # 0
      BY <3>1, <3>2, <3>3
    <3> QED BY <3>4, EmptySeq
  <2>8. Spawns(after) = Spawns(ch)
    BY <2>6 DEF Spawns, SameKinds
  <2> QED BY <2>4, <2>5, <2>7, <2>8 DEF after
<1> QED BY <1>3, <1>4

LEMMA FilledConcat ==
  ASSUME NEW M, NEW s \in Seq(M), NEW t \in Seq(M), AllFilled(s)
  PROVE  /\ AllFilled(t) => AllFilled(s \o t)
         /\ ButLastFilled(t) => ButLastFilled(s \o t)
<1> DEFINE l == Len(s)
           m == Len(t)
<1>1. /\ Len(s \o t) = l + m /\ s \o t \in Seq(M)
      /\ \A i \in 1..(l + m) : (s \o t)[i] = IF i <= l THEN s[i] ELSE t[i - l]
  BY ConcatProperties
<1>2. l \in Nat /\ m \in Nat
  BY LenProperties
<1>3. ASSUME NEW i \in 1..(l + m), i - l \in 1..m => t[i - l].filled
      PROVE  (s \o t)[i].filled
  <2>1. CASE i <= l
    <3>1. (s \o t)[i] = s[i] /\ i \in 1..l
      BY <1>1, <1>2, <2>1
    <3> QED BY <3>1 DEF AllFilled
  <2>2. CASE ~(i <= l)
    <3>1. (s \o t)[i] = t[i - l] /\ i - l \in 1..m
      BY <1>1, <1>2, <2>2
    <3> QED BY <1>3, <3>1
  <2> QED BY <2>1, <2>2
<1>4. ASSUME AllFilled(t) PROVE AllFilled(s \o t)
  <2>1. \A i \in 1..m : t[i].filled
    BY <1>4 DEF AllFilled
  <2>2. \A i \in 1..(l + m) : (s \o t)[i].filled
    BY <1>3, <2>1
  <2> QED BY <1>1, <2>2 DEF AllFilled
<1>5. ASSUME ButLastFilled(t) PROVE ButLastFilled(s \o t)
  <2>1. t # << >> /\ \A i \in 1..(m - 1) : t[i].filled
    BY <1>5 DEF ButLastFilled
  <2>2. m > 0
    BY <1>2, <2>1, EmptySeq
  <2>3. ASSUME NEW i \in 1..(l + m - 1) PROVE (s \o t)[i].filled
    <3>1. i \in 1..(l + m) /\ (i - l \in 1..m => i - l \in 1..(m - 1))
      BY <1>2, <2>2
    <3> QED BY <1>3, <2>1, <3>1
  <2>4. s \o t # << >>
    <3>1. Len(s \o t) # 0
      BY <1>1, <1>2, <2>2
    <3> QED BY <3>1, EmptySeq
  <2> QED BY <1>1, <2>3, <2>4 DEF ButLastFilled
<1> QED BY <1>4, <1>5

LEMMA EmptyFilled == AllFilled(<< >>)
<1>1. Len(<< >>) = 0
  OBVIOUS
<1> QED BY <1>1 DEF AllFilled

LEMMA SyncKeepsFilled ==
  ASSUME NEW M, NEW ch \in Channels(M)
  PROVE  /\ Settled(ch) => Settled(Synced(ch))
         /\ HalfWritten(ch) => HalfWritten(Synced(ch))
<1>1. /\ Synced(ch).pending = << >> /\ Synced(ch).held = << >>
      /\ Synced(ch).ready = ch.ready \o ch.pending
  BY DEF Synced
<1>2. ch.pending \in Seq(M) /\ ch.ready \in Seq(M)
  BY ChannelSequences
<1>3. ASSUME Settled(ch) PROVE Settled(Synced(ch))
  <2>1. AllFilled(ch.ready \o ch.pending)
    BY <1>2, <1>3, FilledConcat DEF Settled
  <2> QED BY <1>1, <2>1, EmptyFilled DEF Settled
<1>4. ASSUME HalfWritten(ch) PROVE HalfWritten(Synced(ch))
  <2>1. ButLastFilled(ch.ready \o ch.pending)
    <3>1. CASE AllFilled(ch.ready) /\ ButLastFilled(ch.pending)
      BY <1>2, <3>1, FilledConcat
    <3>2. CASE ch.pending = << >> /\ ButLastFilled(ch.ready)
      <4>1. ch.ready \o ch.pending = ch.ready
        BY <1>2, <3>2, ConcatEmptySeq
      <4> QED BY <3>2, <4>1
    <3> QED BY <1>4, <3>1, <3>2 DEF HalfWritten
  <2> QED BY <1>1, <2>1, EmptyFilled DEF HalfWritten
<1> QED BY <1>3, <1>4

LEMMA ReadKeepsFilled ==
  ASSUME NEW ch \in Channels(StdoutMessages), ch.ready # << >>, Settled(ch)
  PROVE  Settled(ReadFrom(ch))
<1>1. ch.ready \in Seq(StdoutMessages) /\ ch.held \in Seq(StdoutMessages)
  BY ChannelSequences
<1>2. /\ ReadFrom(ch).pending = ch.pending
      /\ ReadFrom(ch).ready = Tail(ch.ready)
      /\ ReadFrom(ch).held = Append(ch.held, Head(ch.ready))
  BY ReadChannel
<1>3. /\ Head(ch.ready) = ch.ready[1] /\ Head(ch.ready) \in StdoutMessages
      /\ Len(Tail(ch.ready)) = Len(ch.ready) - 1 /\ Len(ch.ready) \in Nat \ {0}
      /\ \A i \in 1..Len(Tail(ch.ready)) : Tail(ch.ready)[i] = ch.ready[i + 1]
  BY <1>1, HeadTailProperties, EmptySeq
<1>4. \A i \in 1..Len(ch.ready) : ch.ready[i].filled
  BY DEF Settled, AllFilled
<1>5. Head(ch.ready).filled
  BY <1>3, <1>4
<1>6. AllFilled(Tail(ch.ready))
  <2>1. ASSUME NEW i \in 1..Len(Tail(ch.ready)) PROVE Tail(ch.ready)[i].filled
    <3>1. i + 1 \in 1..Len(ch.ready)
      BY <1>3
    <3> QED BY <1>3, <1>4, <3>1
  <2> QED BY <2>1 DEF AllFilled
<1>7. AllFilled(Append(ch.held, Head(ch.ready)))
  <2> DEFINE s == ch.held
             msg == Head(ch.ready)
  <2>1. /\ Len(Append(s, msg)) = Len(s) + 1 /\ Len(s) \in Nat
        /\ \A i \in 1..Len(s) : Append(s, msg)[i] = s[i]
        /\ Append(s, msg)[Len(s) + 1] = msg
    BY <1>1, <1>3, AppendProperties, LenProperties
  <2>2. \A i \in 1..Len(s) : s[i].filled
    BY DEF Settled, AllFilled
  <2>3. ASSUME NEW i \in 1..(Len(s) + 1) PROVE Append(s, msg)[i].filled
    <3>1. i \in 1..Len(s) \/ i = Len(s) + 1
      BY <2>1
    <3> QED BY <1>5, <2>1, <2>2, <3>1
  <2> QED BY <2>1, <2>3 DEF AllFilled
<1> QED BY <1>2, <1>6, <1>7 DEF Settled

LEMMA CreateHalfWrites ==
  ASSUME NEW ch \in Channels(StdoutMessages), NEW msg \in StdoutMessages, Settled(ch)
  PROVE  HalfWritten(Created(ch, msg))
<1> DEFINE s == ch.pending
<1>1. s \in Seq(StdoutMessages)
  BY ChannelSequences
<1>2. /\ Created(ch, msg).pending = Append(s, msg)
      /\ Created(ch, msg).ready = ch.ready /\ Created(ch, msg).held = ch.held
  BY CreatedChannel
<1>3. /\ Append(s, msg) # << >> /\ Len(Append(s, msg)) = Len(s) + 1 /\ Len(s) \in Nat
      /\ \A i \in 1..Len(s) : Append(s, msg)[i] = s[i]
  BY <1>1, AppendProperties, LenProperties
<1>4. \A i \in 1..Len(s) : s[i].filled
  BY DEF Settled, AllFilled
<1>5. ButLastFilled(Append(s, msg))
  <2>1. Len(Append(s, msg)) - 1 = Len(s)
    BY <1>3
  <2> QED BY <1>3, <1>4, <2>1 DEF ButLastFilled
<1> QED BY <1>2, <1>5 DEF Settled, HalfWritten

LEMMA SyncMovesTold ==
  ASSUME NEW M, NEW ch \in Channels(M), NEW i \in Told(Synced(ch))
  PROVE  i \in Int /\ i + Len(ch.held) \in Told(ch) /\ Len(ch.held) \in Nat
<1>1. /\ Contents(Synced(ch)) = Unread(ch)
      /\ Contents(ch) = ch.held \o Unread(ch)
      /\ ch.held \in Seq(M) /\ Unread(ch) \in Seq(M)
  BY SyncedChannel, ChannelSequences
<1>2. i \in 1..Len(Unread(ch)) /\ Unread(ch)[i] = "keyboard"
  BY <1>1 DEF Told
<1> DEFINE s == ch.held
           t == Unread(ch)
<1>3. /\ Len(s \o t) = Len(s) + Len(t)
      /\ \A n \in 1..(Len(s) + Len(t)) : (s \o t)[n] = IF n <= Len(s) THEN s[n] ELSE t[n - Len(s)]
  BY <1>1, ConcatProperties
<1>4. Len(s) \in Nat /\ Len(t) \in Nat
  BY <1>1, LenProperties
<1>5. /\ i + Len(s) \in 1..(Len(s) + Len(t))
      /\ ~(i + Len(s) <= Len(s)) /\ i + Len(s) - Len(s) = i /\ i \in Int
  BY <1>2, <1>4
<1>6. (s \o t)[i + Len(s)] = "keyboard"
  BY <1>2, <1>3, <1>5
<1> QED BY <1>1, <1>3, <1>4, <1>5, <1>6 DEF Told

LEMMA CreateTells ==
  ASSUME NEW ch \in Channels(StdinMessages), NEW msg \in StdinMessages,
         NEW i \in Told(Created(ch, msg))
  PROVE  i \in Told(ch) \/ (i = Len(Contents(ch)) + 1 /\ msg = "keyboard")
<1> DEFINE s == Contents(ch)
<1>1. s \in Seq(StdinMessages) /\ Contents(Created(ch, msg)) = Append(s, msg)
  BY ChannelSequences, CreatedChannel
<1>2. /\ Len(Append(s, msg)) = Len(s) + 1 /\ Len(s) \in Nat
      /\ \A j \in 1..Len(s) : Append(s, msg)[j] = s[j]
      /\ Append(s, msg)[Len(s) + 1] = msg
  BY <1>1, AppendProperties, LenProperties
<1>3. i \in 1..(Len(s) + 1) /\ Append(s, msg)[i] = "keyboard"
  BY <1>1, <1>2 DEF Told
<1>4. i \in 1..Len(s) \/ i = Len(s) + 1
  BY <1>2, <1>3
<1> QED BY <1>2, <1>3, <1>4 DEF Told

LEMMA ReadServesSpawn ==
  ASSUME NEW ch \in Channels(StdoutMessages), ch.ready # << >>
  PROVE  /\ Head(ch.ready).kind = "spawn" => 1 \in Spawns(ch)
         /\ \A i \in Spawns(ReadFrom(ch)) : i \in Nat \ {0} /\ i + 1 \in Spawns(ch)
<1> DEFINE s == Unread(ch)
<1>1. /\ s \in Seq(StdoutMessages) /\ s # << >>
      /\ Unread(ReadFrom(ch)) = Tail(s)
  BY ChannelSequences, ReadChannel
<1>2. /\ Len(Tail(s)) = Len(s) - 1 /\ Len(s) \in Nat \ {0}
      /\ \A i \in 1..Len(Tail(s)) : Tail(s)[i] = s[i + 1]
  BY <1>1, HeadTailProperties, EmptySeq
<1>3. s[1] = Head(ch.ready)
  <2>1. ch.ready \in Seq(StdoutMessages) /\ ch.pending \in Seq(StdoutMessages)
    BY ChannelSequences
  <2>2. Len(ch.ready) \in Nat \ {0} /\ Len(ch.pending) \in Nat
    BY <2>1, EmptySeq, LenProperties
  <2>3. 1 \in 1..(Len(ch.ready) + Len(ch.pending)) /\ 1 <= Len(ch.ready)
    <3>1. \A m \in Nat \ {0}, n \in Nat : 1 \in 1..(m + n) /\ 1 <= m
      OBVIOUS
    <3> QED BY <2>2, <3>1
  <2>4. \A u, v \in Seq(StdoutMessages) : \A i \in 1..(Len(u) + Len(v)) :
          (u \o v)[i] = IF i <= Len(u) THEN u[i] ELSE v[i - Len(u)]
    BY ConcatProperties
  <2>5. (ch.ready \o ch.pending)[1] = ch.ready[1]
    BY <2>1, <2>3, <2>4
  <2>6. Head(ch.ready) = ch.ready[1]
    BY <2>1, HeadTailProperties
  <2> QED BY <2>5, <2>6 DEF Unread
<1>4. Head(ch.ready).kind = "spawn" => 1 \in Spawns(ch)
  BY <1>2, <1>3 DEF Spawns
<1>5. ASSUME NEW i \in Spawns(ReadFrom(ch)) PROVE i \in Nat \ {0} /\ i + 1 \in Spawns(ch)
  <2>1. i \in 1..Len(Tail(s)) /\ Tail(s)[i].kind = "spawn"
    BY <1>1, <1>5 DEF Spawns
  <2>2. i \in Nat \ {0} /\ i + 1 \in 1..Len(s)
    BY <1>2, <2>1
  <2> QED BY <1>2, <2>1, <2>2 DEF Spawns
<1> QED BY <1>4, <1>5

LEMMA CreateAsks ==
  ASSUME NEW ch \in Channels(StdoutMessages), NEW msg \in StdoutMessages,
         NEW i \in Spawns(Created(ch, msg))
  PROVE  i \in Spawns(ch) \/ (i = Len(Unread(ch)) + 1 /\ msg.kind = "spawn")
<1> DEFINE s == Unread(ch)
<1>1. s \in Seq(StdoutMessages) /\ Unread(Created(ch, msg)) = Append(s, msg)
  BY ChannelSequences, CreatedChannel
<1>2. /\ Len(Append(s, msg)) = Len(s) + 1 /\ Len(s) \in Nat
      /\ \A j \in 1..Len(s) : Append(s, msg)[j] = s[j]
      /\ Append(s, msg)[Len(s) + 1] = msg
  BY <1>1, AppendProperties, LenProperties
<1>3. i \in 1..(Len(s) + 1) /\ Append(s, msg)[i].kind = "spawn"
  BY <1>1, <1>2 DEF Spawns
<1>4. i \in 1..Len(s) \/ i = Len(s) + 1
  BY <1>2, <1>3
<1> QED BY <1>2, <1>3, <1>4 DEF Spawns

-----------------------------------------------------------------------------
\* What a step on the channels of one process keeps.

LEMMA KernelParts ==
  ASSUME NEW k \in KernelStates
  PROVE  /\ k.pc \in [Procs -> Places]
         /\ k.stdin \in [Procs -> Channels(StdinMessages)]
         /\ k.stdout \in [Procs -> Channels(StdoutMessages)]
         /\ k.owner \in Procs \cup {NoProc}
         /\ k.hung \in BOOLEAN
BY DEF KernelStates

\* The messages of a stream that are spawn requests are among those of another, moved
\* by some number of messages.
SpawnsFrom(ch, old) ==
  \E d \in Nat : \A i \in Spawns(ch) : i \in Int /\ i + d \in Spawns(old)

LEMMA SpawnsAreNumbers ==
  ASSUME NEW ch, NEW i \in Spawns(ch)
  PROVE  i \in Int
BY DEF Spawns

OthersKept(k, k2, p) ==
  \A q \in Procs \ {p} :
    k2.pc[q] = k.pc[q] /\ k2.stdin[q] = k.stdin[q] /\ k2.stdout[q] = k.stdout[q]

LEMMA LocalChange ==
  ASSUME NEW k \in KernelStates, Consistent(k), NEW k2 \in KernelStates, NEW p \in Procs,
         OthersKept(k, k2, p), k2.owner = k.owner \/ k.owner = NoProc,
         k.pc[p] # "free", k2.pc[p] \notin Unborn,
         FilledAt(k2, p), ToldAt(k2, p),
         SpawnsFrom(k2.stdout[p], k.stdout[p]) \/ SpawnsFit(k2)
  PROVE  Consistent(k2)
<1>1. NewbornWait(k2)
  BY DEF Consistent, NewbornWait, Unborn, OthersKept
<1>2. FilledInOrder(k2)
  BY DEF Consistent, FilledInOrder, FilledAt, OthersKept
<1>3. OwnerTold(k2)
  <2> SUFFICES ASSUME NEW q \in Procs, NEW i \in Told(k2.stdin[q]), NEW j \in Told(k2.stdin[q])
               PROVE  i = j /\ k2.owner = q
    BY DEF OwnerTold, ToldAt
  <2>1. CASE q # p
    <3>1. i = j /\ k.owner = q
      BY <2>1 DEF Consistent, OwnerTold, ToldAt, OthersKept
    <3>2. NoProc \notin Procs
      BY DEF NoProc, Procs
    <3> QED BY <3>1, <3>2
  <2>2. CASE q = p
    BY <2>2 DEF ToldAt
  <2> QED BY <2>1, <2>2
<1>4. ASSUME SpawnsFrom(k2.stdout[p], k.stdout[p]) PROVE SpawnsFit(k2)
  <2>1. PICK d \in Nat : \A i \in Spawns(k2.stdout[p]) :
          i \in Int /\ i + d \in Spawns(k.stdout[p])
    BY <1>4 DEF SpawnsFrom
  <2> SUFFICES ASSUME NEW q \in Procs, NEW r \in Procs,
                      NEW i \in Spawns(k2.stdout[q]), NEW j \in Spawns(k2.stdout[r])
               PROVE  q = r /\ i = j /\ \E s \in Procs : k2.pc[s] = "free"
    BY DEF SpawnsFit
  <2> DEFINE from(x, n) == IF x = p THEN n + d ELSE n
  <2>2. from(q, i) \in Spawns(k.stdout[q]) /\ from(r, j) \in Spawns(k.stdout[r])
    BY <2>1 DEF OthersKept
  <2>3. q = r /\ from(q, i) = from(r, j) /\ \E s \in Procs : k.pc[s] = "free"
    <3> HIDE DEF from
    <3> QED BY <2>2 DEF Consistent, SpawnsFit
  <2>4. i = j
    <3>1. i \in Int /\ j \in Int /\ d \in Int
      BY SpawnsAreNumbers
    <3>2. CASE q = p
      <4>1. i + d = j + d
        BY <2>3, <3>2
      <4> QED BY <3>1, <4>1
    <3>3. CASE q # p
      BY <2>3, <3>3
    <3> QED BY <3>2, <3>3
  <2>5. \A s \in Procs : k.pc[s] = "free" => k2.pc[s] = "free"
    BY DEF OthersKept
  <2> QED BY <2>3, <2>4, <2>5
<1> QED BY <1>1, <1>2, <1>3, <1>4 DEF Consistent

LEMMA SpawnsUnmoved ==
  ASSUME NEW ch, NEW old, Spawns(ch) \subseteq Spawns(old)
  PROVE  SpawnsFrom(ch, old)
<1>1. \A i \in Spawns(ch) : i \in Int /\ i + 0 = i
  BY SpawnsAreNumbers
<1>2. \A i \in Spawns(ch) : i \in Int /\ i + 0 \in Spawns(old)
  BY <1>1
<1> QED BY <1>2 DEF SpawnsFrom

LEMMA ToldAfterSync ==
  ASSUME NEW k \in KernelStates, NEW k2, NEW p \in Procs, ToldAt(k, p),
         k2.stdin[p] = Synced(k.stdin[p]), k2.owner = k.owner
  PROVE  ToldAt(k2, p)
<1> DEFINE ch == k.stdin[p]
<1>1. ch \in Channels(StdinMessages)
  BY KernelParts
<1> SUFFICES ASSUME NEW i \in Told(Synced(ch)), NEW j \in Told(Synced(ch))
             PROVE  i = j /\ k.owner = p
  BY DEF ToldAt
<1>2. /\ i \in Int /\ j \in Int /\ Len(ch.held) \in Nat
      /\ i + Len(ch.held) \in Told(ch) /\ j + Len(ch.held) \in Told(ch)
  BY <1>1, SyncMovesTold
<1>3. i + Len(ch.held) = j + Len(ch.held) /\ k.owner = p
  BY <1>2 DEF ToldAt
<1>4. \A l \in Nat : i + l = j + l => i = j
  BY <1>2
<1> QED BY <1>2, <1>3, <1>4

LEMMA FilledAfterSync ==
  ASSUME NEW k \in KernelStates, NEW k2, NEW p \in Procs, FilledAt(k, p),
         k2.stdout[p] = Synced(k.stdout[p]), k2.pc[p] = k.pc[p]
  PROVE  FilledAt(k2, p)
BY KernelParts, SyncKeepsFilled DEF FilledAt

LEMMA SpawnsAfterSync ==
  ASSUME NEW ch \in Channels(StdoutMessages)
  PROVE  Spawns(Synced(ch)) = Spawns(ch)
<1>1. Unread(Synced(ch)) = Unread(ch)
  BY SyncedChannel
<1> QED BY <1>1 DEF Spawns

\* The streams of a process are synced.
LEMMA SyncProcKeeps ==
  ASSUME NEW k \in KernelStates, Consistent(k), NEW p \in Procs, k.pc[p] \in Calling
  PROVE  LET after == SyncProc(k, p)
         IN  /\ after \in KernelStates /\ Consistent(after)
             /\ after.pc = k.pc /\ after.owner = k.owner /\ after.hung = k.hung
             /\ after.stdin = [k.stdin EXCEPT ![p] = Synced(k.stdin[p])]
             /\ after.stdout = [k.stdout EXCEPT ![p] = Synced(k.stdout[p])]
<1> DEFINE after == SyncProc(k, p)
<1>1. Synced(k.stdin[p]) \in Channels(StdinMessages) /\ Synced(k.stdout[p]) \in Channels(StdoutMessages)
  BY KernelParts, SyncedChannel
<1>2. /\ after.pc = k.pc /\ after.owner = k.owner /\ after.hung = k.hung
      /\ after.stdin = [k.stdin EXCEPT ![p] = Synced(k.stdin[p])]
      /\ after.stdout = [k.stdout EXCEPT ![p] = Synced(k.stdout[p])]
      /\ after \in KernelStates
  BY <1>1, KernelParts DEF SyncProc, KernelStates
<1>3. /\ after.stdin[p] = Synced(k.stdin[p]) /\ after.stdout[p] = Synced(k.stdout[p])
      /\ OthersKept(k, after, p)
  BY <1>2, KernelParts DEF OthersKept
<1>4. k.pc[p] # "free" /\ after.pc[p] \notin Unborn
  BY <1>2 DEF Calling, Unborn
<1> HIDE DEF after
<1>5. FilledAt(after, p)
  <2>1. FilledAt(k, p)
    BY DEF Consistent, FilledInOrder
  <2> QED BY <1>2, <1>3, <2>1, FilledAfterSync
<1>6. ToldAt(after, p)
  <2>1. ToldAt(k, p)
    BY DEF Consistent, OwnerTold
  <2> QED BY <1>2, <1>3, <2>1, ToldAfterSync
<1>7. SpawnsFrom(after.stdout[p], k.stdout[p])
  BY <1>3, KernelParts, SpawnsAfterSync, SpawnsUnmoved
<1>8. Consistent(after)
  BY <1>2, <1>3, <1>4, <1>5, <1>6, <1>7, LocalChange
<1> QED BY <1>2, <1>8 DEF after

\* A message is read.
LEMMA ReadKeeps ==
  ASSUME NEW k \in KernelStates, Consistent(k), NEW p \in Procs, k.pc[p] \in Calling,
         k.stdout[p].ready # << >>
  PROVE  LET after == [k EXCEPT !.stdout[p] = ReadFrom(k.stdout[p])]
         IN  /\ after \in KernelStates /\ Consistent(after)
             /\ after.pc = k.pc /\ after.owner = k.owner /\ after.hung = k.hung
             /\ after.stdin = k.stdin
             /\ after.stdout = [k.stdout EXCEPT ![p] = ReadFrom(k.stdout[p])]
<1> DEFINE after == [k EXCEPT !.stdout[p] = ReadFrom(k.stdout[p])]
           ch == k.stdout[p]
<1>1. ch \in Channels(StdoutMessages) /\ ReadFrom(ch) \in Channels(StdoutMessages)
  BY KernelParts, ReadChannel
<1>2. /\ after.pc = k.pc /\ after.owner = k.owner /\ after.hung = k.hung
      /\ after.stdin = k.stdin
      /\ after.stdout = [k.stdout EXCEPT ![p] = ReadFrom(ch)]
      /\ after \in KernelStates
  BY <1>1, KernelParts DEF KernelStates
<1>3. after.stdout[p] = ReadFrom(ch) /\ OthersKept(k, after, p)
  BY <1>2, KernelParts DEF OthersKept
<1>4. k.pc[p] # "free" /\ after.pc[p] \notin Unborn /\ k.pc[p] \notin Filling
  BY <1>2 DEF Calling, Filling, Unborn
<1> HIDE DEF after
<1>5. FilledAt(after, p)
  <2>1. Settled(ch)
    BY <1>4 DEF Consistent, FilledInOrder, FilledAt
  <2>2. Settled(ReadFrom(ch))
    BY <1>1, <2>1, ReadKeepsFilled
  <2> QED BY <1>2, <1>3, <1>4, <2>2 DEF FilledAt
<1>6. ToldAt(after, p)
  BY <1>2 DEF Consistent, OwnerTold, ToldAt
<1>7. SpawnsFrom(after.stdout[p], ch)
  <2>1. \A i \in Spawns(ReadFrom(ch)) : i \in Int /\ i + 1 \in Spawns(ch)
    BY <1>1, ReadServesSpawn
  <2> QED BY <1>3, <2>1 DEF SpawnsFrom
<1>8. Consistent(after)
  BY <1>2, <1>3, <1>4, <1>5, <1>6, <1>7, LocalChange
<1> QED BY <1>2, <1>8 DEF after

\* The machine hangs.
LEMMA HangKeeps ==
  ASSUME NEW k \in KernelStates, Consistent(k)
  PROVE  LET after == [k EXCEPT !.hung = TRUE]
         IN  /\ after \in KernelStates /\ Consistent(after)
             /\ after.pc = k.pc /\ after.owner = k.owner /\ after.hung
             /\ after.stdin = k.stdin /\ after.stdout = k.stdout
<1> DEFINE after == [k EXCEPT !.hung = TRUE]
<1>1. /\ after \in KernelStates
      /\ after.pc = k.pc /\ after.owner = k.owner /\ after.hung
      /\ after.stdin = k.stdin /\ after.stdout = k.stdout
  BY KernelParts DEF KernelStates
<1> HIDE DEF after
<1>2. Consistent(after)
  BY <1>1 DEF Consistent, NewbornWait, FilledInOrder, FilledAt, OwnerTold, ToldAt, SpawnsFit
<1> QED BY <1>1, <1>2 DEF after

-----------------------------------------------------------------------------
\* What a system call keeps, message by message.

\* What a call of process p leaves alone: other processes' stdout, and where processes
\* are, but for those it creates.
CallKeeps(k, after, p) ==
  /\ after \in KernelStates /\ Consistent(after)
  /\ \A q \in Procs : after.pc[q] = k.pc[q] \/ (k.pc[q] = "free" /\ after.pc[q] = "init")
  /\ \A q \in Procs \ {p} : after.stdout[q] = k.stdout[q]

LEMMA CallKeepsOn ==
  ASSUME NEW k, NEW mid, NEW after, NEW p, CallKeeps(k, mid, p), CallKeeps(mid, after, p)
  PROVE  CallKeeps(k, after, p)
BY DEF CallKeeps

LEMMA NobodyTold ==
  ASSUME NEW k, NEW p \in Procs, OwnerTold(k), k.owner = NoProc
  PROVE  Told(k.stdin[p]) = {}
<1>1. NoProc \notin Procs
  BY DEF NoProc, Procs
<1>2. ToldAt(k, p)
  BY DEF OwnerTold
<1> QED BY <1>1, <1>2 DEF ToldAt

LEMMA OpenKeeps ==
  ASSUME NEW k \in KernelStates, Consistent(k), NEW p \in Procs, k.pc[p] \in Calling,
         k.stdout[p].pending = << >>
  PROVE  LET after == KeyboardOpenStream(k, p)
         IN  /\ CallKeeps(k, after, p) /\ after.pc = k.pc
             /\ after.stdout[p].pending = << >>
             /\ after.stdout[p].ready = k.stdout[p].ready
<1> DEFINE after == KeyboardOpenStream(k, p)
<1>1. CASE k.owner # NoProc
  BY <1>1 DEF KeyboardOpenStream, CallKeeps
<1>2. CASE k.owner = NoProc
  <2> DEFINE ch == k.stdin[p]
             told == IF HasRoom(ch) THEN [k EXCEPT !.stdin[p] = Created(ch, "keyboard")] ELSE k
             mid == [told EXCEPT !.owner = p]
  <2>1. after = SyncProc(mid, p)
    BY <1>2 DEF KeyboardOpenStream
  <2>2. /\ ch \in Channels(StdinMessages) /\ "keyboard" \in StdinMessages
        /\ Created(ch, "keyboard") \in Channels(StdinMessages)
    BY KernelParts, CreatedChannel DEF StdinMessages
  <2>3. told \in KernelStates /\ told.pc = k.pc /\ told.stdout = k.stdout /\ told.hung = k.hung
        /\ \/ told.stdin = k.stdin
           \/ told.stdin = [k.stdin EXCEPT ![p] = Created(ch, "keyboard")]
    BY <2>2, KernelParts DEF KernelStates
  <2> HIDE DEF told
  <2>4. mid \in KernelStates /\ mid.pc = k.pc /\ mid.stdout = k.stdout /\ mid.owner = p
        /\ mid.stdin = told.stdin
    BY <2>3, KernelParts DEF KernelStates
  <2> HIDE DEF mid, after
  <2>5. mid.stdin[p] \in {ch, Created(ch, "keyboard")} /\ OthersKept(k, mid, p)
    BY <2>3, <2>4, KernelParts DEF OthersKept
  <2>6. ToldAt(mid, p)
    <3>1. Told(ch) = {}
      BY <1>2, NobodyTold DEF Consistent
    <3>2. CASE mid.stdin[p] = ch
      BY <3>1, <3>2 DEF ToldAt
    <3>3. CASE mid.stdin[p] = Created(ch, "keyboard")
      <4>1. \A i \in Told(Created(ch, "keyboard")) : i = Len(Contents(ch)) + 1
        BY <2>2, <3>1, CreateTells
      <4> QED BY <2>4, <3>3, <4>1 DEF ToldAt
    <3> QED BY <2>5, <3>2, <3>3
  <2>7. FilledAt(mid, p)
    BY <2>4 DEF Consistent, FilledInOrder, FilledAt
  <2>8. SpawnsFrom(mid.stdout[p], k.stdout[p])
    BY <2>4, SpawnsUnmoved
  <2>9. k.pc[p] # "free" /\ mid.pc[p] \notin Unborn /\ mid.pc[p] \in Calling
    BY <2>4 DEF Calling, Unborn
  <2>10. Consistent(mid)
    BY <1>2, <2>4, <2>5, <2>6, <2>7, <2>8, <2>9, LocalChange
  <2>11. /\ after \in KernelStates /\ Consistent(after) /\ after.pc = mid.pc
         /\ after.stdout = [mid.stdout EXCEPT ![p] = Synced(mid.stdout[p])]
    BY <2>1, <2>4, <2>9, <2>10, SyncProcKeeps
  <2>12. /\ after.stdout[p] = Synced(k.stdout[p])
         /\ \A q \in Procs \ {p} : after.stdout[q] = k.stdout[q]
    BY <2>4, <2>11, KernelParts
  <2>13. /\ after.stdout[p].pending = << >>
         /\ after.stdout[p].ready = k.stdout[p].ready \o << >>
    BY <2>12 DEF Synced
  <2>14. k.stdout[p].ready \o << >> = k.stdout[p].ready
    <3>1. \A s \in Seq(StdoutMessages) : s \o << >> = s
      BY ConcatEmptySeq
    <3> QED BY <3>1, KernelParts, ChannelSequences
  <2>15. CallKeeps(k, after, p) /\ after.pc = k.pc
    BY <2>4, <2>11, <2>12 DEF CallKeeps
  <2> QED BY <2>13, <2>14, <2>15 DEF after
<1> QED BY <1>1, <1>2

LEMMA Birth ==
  /\ BirthStdin = [pending |-> << >>, ready |-> << "stdout" >>, held |-> << >>]
  /\ BirthStdin \in Channels(StdinMessages)
  /\ Told(BirthStdin) = {}
<1>1. BirthStdin = [pending |-> << >>, ready |-> << "stdout" >>, held |-> << >>]
  BY DEF BirthStdin, Synced, Created, NewChannel
<1>2. << "stdout" >> \in Seq(StdinMessages) /\ << >> \in Seq(StdinMessages)
  BY DEF StdinMessages
<1>3. BirthStdin \in Channels(StdinMessages)
  BY <1>1, <1>2 DEF Channels
<1>4. Contents(BirthStdin) = << "stdout" >>
  BY <1>1 DEF Contents
<1>5. Told(BirthStdin) = {}
  BY <1>4 DEF Told
<1> QED BY <1>1, <1>3, <1>5

LEMMA SpawnKeeps ==
  ASSUME NEW k \in KernelStates, Consistent(k), NEW p \in Procs, k.pc[p] \in Calling,
         \E r \in Procs : k.pc[r] = "free",
         \A q \in Procs : Spawns(k.stdout[q]) = {}
  PROVE  /\ CallKeeps(k, SpawnProcess(k), p)
         /\ SpawnProcess(k).stdout = k.stdout
<1> DEFINE First(q) == k.pc[q] = "free" /\ \A r \in 1..(q - 1) : k.pc[r] # "free"
           slot == CHOOSE q \in Procs : First(q)
           after == SpawnProcess(k)
<1>1. \E q \in Procs : First(q)
  <2> DEFINE unused == {q \in Procs : k.pc[q] = "free"}
  <2>1. unused \in SUBSET Nat /\ unused # {}
    BY DEF Procs
  <2>2. PICK q \in unused : \A r \in unused : q <= r
    <3> HIDE DEF unused
    <3> QED BY <2>1, LeastOfSet
  <2>3. ASSUME NEW r \in 1..(q - 1) PROVE k.pc[r] # "free"
    <3>1. r \in Procs /\ ~(q <= r)
      BY <2>2, KernelStreamsAssumption DEF Procs
    <3> QED BY <2>2, <3>1
  <2> QED BY <2>2, <2>3
<1>2. slot \in Procs /\ k.pc[slot] = "free"
  <2>1. slot \in Procs /\ First(slot)
    <3> HIDE DEF First
    <3> QED BY <1>1
  <2> HIDE DEF slot
  <2> QED BY <2>1
<1>3. after = [k EXCEPT !.pc[slot] = "init", !.stdin[slot] = BirthStdin]
  BY DEF SpawnProcess
<1> HIDE DEF slot, after
<1>4. /\ after.pc = [k.pc EXCEPT ![slot] = "init"]
      /\ after.stdin = [k.stdin EXCEPT ![slot] = BirthStdin]
      /\ after.stdout = k.stdout /\ after.owner = k.owner
      /\ after \in KernelStates
  <2>1. "init" \in Places
    BY DEF Places, Unborn
  <2> QED BY <1>2, <1>3, <2>1, KernelParts, Birth DEF KernelStates
<1>5. /\ after.pc[slot] = "init" /\ after.stdin[slot] = BirthStdin
      /\ \A q \in Procs \ {slot} : after.pc[q] = k.pc[q] /\ after.stdin[q] = k.stdin[q]
  BY <1>2, <1>4, KernelParts
<1>6. NewbornWait(after)
  BY <1>2, <1>4, <1>5 DEF Consistent, NewbornWait, Unborn
<1>7. FilledInOrder(after)
  <2>1. ASSUME NEW q \in Procs PROVE FilledAt(after, q)
    <3>1. FilledAt(k, q)
      BY DEF Consistent, FilledInOrder
    <3> QED BY <1>2, <1>4, <1>5, <3>1 DEF FilledAt, Filling
  <2> QED BY <2>1 DEF FilledInOrder
<1>8. OwnerTold(after)
  <2>1. ASSUME NEW q \in Procs PROVE ToldAt(after, q)
    <3>1. CASE q = slot
      BY <1>5, <3>1, Birth DEF ToldAt
    <3>2. CASE q # slot
      BY <1>4, <1>5, <3>2 DEF Consistent, OwnerTold, ToldAt
    <3> QED BY <3>1, <3>2
  <2> QED BY <2>1 DEF OwnerTold
<1>9. SpawnsFit(after)
  BY <1>4 DEF SpawnsFit
<1>10. CallKeeps(k, after, p)
  BY <1>2, <1>4, <1>5, <1>6, <1>7, <1>8, <1>9 DEF CallKeeps, Consistent
<1> QED BY <1>4, <1>10 DEF after

\* A message is served.
LEMMA ServedKeeps ==
  ASSUME NEW k \in KernelStates, Consistent(k), NEW p \in Procs, k.pc[p] \in Calling,
         ~k.hung, k.stdout[p].pending = << >>, k.stdout[p].ready # << >>,
         NEW after \in Served(k, p, Head(k.stdout[p].ready))
  PROVE  /\ CallKeeps(k, after, p)
         /\ after.stdout[p].pending = << >>
         /\ after.hung \/ after.stdout[p].ready = Tail(k.stdout[p].ready)
<1> DEFINE msg == Head(k.stdout[p].ready)
           read == [k EXCEPT !.stdout[p] = ReadFrom(k.stdout[p])]
           hangs == [read EXCEPT !.hung = TRUE]
           ch == k.stdout[p]
<1>1. /\ read \in KernelStates /\ Consistent(read)
      /\ read.pc = k.pc /\ read.owner = k.owner /\ read.hung = k.hung
      /\ read.stdin = k.stdin
      /\ read.stdout = [k.stdout EXCEPT ![p] = ReadFrom(k.stdout[p])]
  BY ReadKeeps
<1>2. after = hangs \/ after = read \/ after = Handle(read, p, msg)
  BY DEF Served
<1> HIDE DEF read
<1>3. /\ hangs \in KernelStates /\ Consistent(hangs) /\ hangs.pc = read.pc /\ hangs.hung
      /\ hangs.stdout = read.stdout
  BY <1>1, HangKeeps
<1> HIDE DEF hangs
<1>4. /\ read.stdout[p] = ReadFrom(ch) /\ ch \in Channels(StdoutMessages)
      /\ \A q \in Procs \ {p} : read.stdout[q] = k.stdout[q]
  BY <1>1, KernelParts
<1>5. read.stdout[p].pending = << >> /\ read.stdout[p].ready = Tail(ch.ready)
  BY <1>4, ReadChannel
<1>6. CallKeeps(k, read, p)
  BY <1>1, <1>4 DEF CallKeeps
<1>7. CASE after = hangs
  BY <1>1, <1>3, <1>4, <1>5, <1>7 DEF CallKeeps
<1>8. CASE after = Handle(read, p, msg) /\ msg.kind = "open"
  <2>1. after = KeyboardOpenStream(read, p)
    BY <1>8 DEF Handle
  <2>2. /\ CallKeeps(read, after, p)
        /\ after.stdout[p].pending = << >>
        /\ after.stdout[p].ready = read.stdout[p].ready
    BY <1>1, <1>5, <2>1, OpenKeeps
  <2> QED BY <1>5, <1>6, <2>2, CallKeepsOn
<1>9. CASE after = Handle(read, p, msg) /\ msg.kind = "spawn"
  <2>1. after = SpawnProcess(read)
    BY <1>9 DEF Handle
  <2>2. 1 \in Spawns(ch)
    BY <1>4, <1>9, ReadServesSpawn
  <2>3. \E r \in Procs : read.pc[r] = "free"
    BY <1>1, <2>2 DEF Consistent, SpawnsFit
  <2>4. ASSUME NEW q \in Procs PROVE Spawns(read.stdout[q]) = {}
    <3>1. CASE q = p
      <4>1. ASSUME NEW i \in Spawns(ReadFrom(ch)) PROVE FALSE
        <5>1. i \in Nat \ {0} /\ i + 1 \in Spawns(ch)
          BY <1>4, ReadServesSpawn
        <5>2. i + 1 = 1
          BY <2>2, <5>1 DEF Consistent, SpawnsFit
        <5> QED BY <5>1, <5>2
      <4> QED BY <1>4, <3>1, <4>1
    <3>2. CASE q # p
      BY <1>4, <2>2, <3>2 DEF Consistent, SpawnsFit
    <3> QED BY <3>1, <3>2
  <2>5. CallKeeps(read, after, p) /\ after.stdout = read.stdout
    BY <1>1, <2>1, <2>3, <2>4, SpawnKeeps
  <2> QED BY <1>5, <1>6, <2>5, CallKeepsOn
<1>10. CASE after = Handle(read, p, msg) /\ msg.kind \notin {"open", "spawn"}
  BY <1>5, <1>6, <1>10 DEF Handle
<1>11. CASE after = read
  BY <1>5, <1>6, <1>11
<1> QED BY <1>2, <1>7, <1>8, <1>9, <1>10, <1>11

-----------------------------------------------------------------------------
\* The rounds of flush_streams.

\* What holds when the streams are synced, and after each round if it holds before, holds
\* after the call: good[n] is what may be the state after n messages.
LEMMA FlushedRounds ==
  ASSUME NEW k, NEW p, NEW msgs, msgs = SyncProc(k, p).stdout[p].ready, Len(msgs) \in Nat,
         NEW good, SyncProc(k, p) \in good[0],
         \A n \in 1..Len(msgs) : \A before \in good[n - 1] :
           Served(before, p, msgs[n]) \subseteq good[n]
  PROVE  Flushed(k, p) \subseteq good[Len(msgs)]
<1> DEFINE N == Len(msgs)
           start == {SyncProc(k, p)}
           Round(n, states) == UNION {Served(before, p, msgs[n]) : before \in states}
           IsDrain(f, n) ==
             f = [m \in 0..n |-> IF m = 0 THEN start ELSE Round(m, f[m - 1])]
           drain == CHOOSE f : IsDrain(f, N)
           exists == {n \in 0..N : \E f : IsDrain(f, n)}
           inside == {n \in 0..N : drain[n] \subseteq good[n]}
<1>1. Flushed(k, p) = drain[N]
  BY DEF Flushed
<1>2. start \subseteq good[0]
  OBVIOUS
<1>3. ASSUME NEW n \in 1..N, NEW states, states \subseteq good[n - 1]
      PROVE  Round(n, states) \subseteq good[n]
  BY <1>3
<1>4. N \in Nat
  OBVIOUS
<1> HIDE DEF N, start, Round
<1>5. 0 \in exists
  <2> DEFINE f == [m \in 0..0 |-> start]
  <2>1. IsDrain(f, 0)
    <3>1. \A m \in 0..0 : m = 0
      OBVIOUS
    <3> QED BY <3>1
  <2> HIDE DEF f, IsDrain
  <2> QED BY <1>4, <2>1
<1>6. ASSUME NEW n \in 1..N, n - 1 \in exists PROVE n \in exists
  <2>1. PICK f : IsDrain(f, n - 1)
    BY <1>6
  <2> DEFINE g == [m \in 0..n |-> IF m = n THEN Round(n, f[n - 1]) ELSE f[m]]
  <2>2. n \in Nat /\ n # 0 /\ n - 1 \in 0..n /\ n - 1 # n
    BY <1>4
  <2>3. \A m \in 0..(n - 1) : f[m] = IF m = 0 THEN start ELSE Round(m, f[m - 1])
    BY <2>1
  <2>4. \A m \in 0..n : m = n \/ m \in 0..(n - 1)
    BY <2>2
  <2>5. \A m \in 0..n : m # 0 => m - 1 \in 0..n /\ m - 1 # n
    BY <2>2
  <2>6. \A m \in 0..n : m # 0 => g[m - 1] = f[m - 1]
    BY <2>5
  <2>7. ASSUME NEW m \in 0..n
        PROVE  g[m] = IF m = 0 THEN start ELSE Round(m, g[m - 1])
    <3>1. CASE m = n
      <4>1. g[m] = Round(m, f[m - 1])
        BY <3>1
      <4> HIDE DEF g
      <4> QED BY <2>2, <2>6, <3>1, <4>1
    <3>2. CASE m # n
      <4>1. g[m] = f[m] /\ m \in 0..(n - 1)
        BY <2>4, <3>2
      <4> HIDE DEF g
      <4> QED BY <2>3, <2>6, <4>1
    <3> QED BY <3>1, <3>2
  <2>8. g = [m \in 0..n |-> g[m]]
    OBVIOUS
  <2> HIDE DEF g
  <2>9. IsDrain(g, n)
    BY <2>7, <2>8
  <2> HIDE DEF IsDrain
  <2>10. n \in 0..N
    BY <1>4
  <2> QED BY <2>9, <2>10
<1>7. IsDrain(drain, N)
  <2>1. 0..N \subseteq exists
    <3> HIDE DEF exists
    <3> QED BY <1>4, <1>5, <1>6, UpTo
  <2>2. N \in 0..N
    BY <1>4
  <2> HIDE DEF IsDrain
  <2>3. \E f : IsDrain(f, N)
    BY <2>1, <2>2
  <2> QED BY <2>3
<1> HIDE DEF drain
<1>8. /\ \A m \in 0..N : drain[m] = IF m = 0 THEN start ELSE Round(m, drain[m - 1])
  BY <1>7
<1>9. 0 \in inside
  BY <1>2, <1>4, <1>8
<1>10. ASSUME NEW n \in 1..N, n - 1 \in inside PROVE n \in inside
  <2>1. drain[n - 1] \subseteq good[n - 1]
    BY <1>10
  <2>2. n \in 0..N /\ n # 0
    BY <1>4
  <2>3. drain[n] = Round(n, drain[n - 1])
    BY <1>8, <2>2
  <2>4. drain[n] \subseteq good[n]
    BY <1>3, <2>1, <2>3
  <2> QED BY <2>2, <2>4
<1>11. 0..N \subseteq inside
  <2> HIDE DEF inside
  <2> QED BY <1>4, <1>9, <1>10, UpTo
<1>12. N \in 0..N
  BY <1>4
<1>13. drain[N] \subseteq good[N]
  BY <1>11, <1>12
<1> QED BY <1>1, <1>13 DEF N

\* The call keeps the invariant.  Unless the machine hangs, every message has been read;
\* if there was none, the call only syncs.
LEMMA FlushedKeeps ==
  ASSUME NEW k \in KernelStates, Consistent(k), NEW p \in Procs, k.pc[p] \in Calling,
         ~k.hung, NEW after \in Flushed(k, p)
  PROVE  /\ CallKeeps(k, after, p)
         /\ after.stdout[p].pending = << >>
         /\ after.hung \/ after.stdout[p].ready = << >>
         /\ Unread(k.stdout[p]) = << >> => after = SyncProc(k, p)
<1> DEFINE msgs == SyncProc(k, p).stdout[p].ready
           N == Len(msgs)
           first == SyncProc(k, p)
           Good(n) == {k2 \in KernelStates :
                         /\ CallKeeps(k, k2, p)
                         /\ k2.stdout[p].pending = << >>
                         /\ k2.hung \/ k2.stdout[p].ready = SubSeq(msgs, n + 1, N)
                         /\ n = 0 => k2 = first}
           good == [n \in 0..N |-> Good(n)]
<1>1. /\ first \in KernelStates /\ Consistent(first) /\ first.pc = k.pc /\ first.hung = k.hung
      /\ first.stdout = [k.stdout EXCEPT ![p] = Synced(k.stdout[p])]
  BY SyncProcKeeps
<1>2. /\ first.stdout[p] = Synced(k.stdout[p])
      /\ \A q \in Procs \ {p} : first.stdout[q] = k.stdout[q]
  BY <1>1, KernelParts
<1>3. /\ k.stdout[p] \in Channels(StdoutMessages)
      /\ first.stdout[p].pending = << >> /\ msgs = Unread(k.stdout[p])
      /\ Unread(k.stdout[p]) \in Seq(StdoutMessages)
  <2>1. k.stdout[p] \in Channels(StdoutMessages)
    BY KernelParts
  <2> HIDE DEF first
  <2> QED BY <1>2, <2>1, SyncedChannel, ChannelSequences DEF first
<1>4. msgs \in Seq(StdoutMessages) /\ N \in Nat /\ SubSeq(msgs, 0 + 1, N) = msgs
  <2>1. \A s \in Seq(StdoutMessages) : Len(s) \in Nat /\ SubSeq(s, 0 + 1, Len(s)) = s
    BY LenProperties, SubSeqFull
  <2> HIDE DEF msgs
  <2> QED BY <1>3, <2>1
<1>5. first \in Good(0)
  <2>1. CallKeeps(k, first, p)
    BY <1>1, <1>2 DEF CallKeeps
  <2>2. first.stdout[p].ready = msgs
    OBVIOUS
  <2> HIDE DEF first, msgs, N
  <2> QED BY <1>1, <1>3, <1>4, <2>1, <2>2
<1> HIDE DEF first, msgs, N
<1>6. ASSUME NEW n \in 1..N, NEW before \in Good(n - 1),
             NEW k2 \in Served(before, p, msgs[n])
      PROVE  k2 \in Good(n)
  <2>1. /\ before \in KernelStates /\ CallKeeps(k, before, p)
        /\ before.stdout[p].pending = << >>
        /\ before.hung \/ before.stdout[p].ready = SubSeq(msgs, (n - 1) + 1, N)
    OBVIOUS
  <2>2. CASE before.hung
    <3>1. k2 = before
      BY <2>2 DEF Served
    <3> QED BY <2>1, <2>2, <3>1
  <2>3. CASE ~before.hung
    <3>1. (n - 1) + 1 = n /\ n \in Nat /\ n <= N /\ n # 0
      BY <1>4
    <3>2. before.stdout[p].ready = SubSeq(msgs, n, N)
      BY <2>1, <2>3, <3>1
    <3>3. /\ SubSeq(msgs, n, N) # << >> /\ Head(SubSeq(msgs, n, N)) = msgs[n]
          /\ Tail(SubSeq(msgs, n, N)) = SubSeq(msgs, n + 1, N)
      BY <1>4, <3>1, RestOf DEF N
    <3>4. Consistent(before) /\ before.pc[p] \in Calling
      BY <2>1 DEF CallKeeps, Calling
    <3>5. k2 \in Served(before, p, Head(before.stdout[p].ready))
      BY <3>2, <3>3
    <3>6. /\ CallKeeps(before, k2, p)
          /\ k2.stdout[p].pending = << >>
          /\ k2.hung \/ k2.stdout[p].ready = Tail(before.stdout[p].ready)
      BY <2>1, <2>3, <3>2, <3>3, <3>4, <3>5, ServedKeeps
    <3>7. CallKeeps(k, k2, p) /\ k2 \in KernelStates
      <4>1. CallKeeps(k, k2, p)
        BY <2>1, <3>6, CallKeepsOn
      <4> QED BY <4>1 DEF CallKeeps
    <3> QED BY <3>1, <3>2, <3>3, <3>6, <3>7
  <2> QED BY <2>2, <2>3
<1> HIDE DEF Good
<1>7. after \in Good(N)
  <2>1. first \in good[0] /\ N \in 0..N /\ \A n \in 0..N : good[n] = Good(n)
    BY <1>4, <1>5
  <2>2. \A n \in 1..N : n \in 0..N /\ n - 1 \in 0..N
    BY <1>4
  <2>3. \A n \in 1..N : \A before \in good[n - 1] : Served(before, p, msgs[n]) \subseteq good[n]
    BY <1>6, <2>1, <2>2
  <2> HIDE DEF good
  <2>4. Flushed(k, p) \subseteq good[N]
    BY <1>4, <2>1, <2>3, FlushedRounds DEF first, msgs, N
  <2> QED BY <2>1, <2>4
<1>8. /\ CallKeeps(k, after, p) /\ after.stdout[p].pending = << >>
      /\ after.hung \/ after.stdout[p].ready = SubSeq(msgs, N + 1, N)
      /\ N = 0 => after = first
  BY <1>7 DEF Good
<1>9. SubSeq(msgs, N + 1, N) = << >>
  <2>1. N + 1 > N
    BY <1>4
  <2>2. \A s \in Seq(StdoutMessages) : \A i, j \in Int : i > j => SubSeq(s, i, j) = << >>
    BY SubSeqEmpty
  <2> QED BY <1>4, <2>1, <2>2
<1>10. Unread(k.stdout[p]) = << >> => N = 0
  BY <1>3, <1>4 DEF N
<1> QED BY <1>8, <1>9, <1>10 DEF first

-----------------------------------------------------------------------------
\* The actions.

LEMMA StateParts ==
  ASSUME IInv
  PROVE  /\ Kernel \in KernelStates /\ Consistent(Kernel)
         /\ pc \in [Procs -> Places]
         /\ stdin \in [Procs -> Channels(StdinMessages)]
         /\ stdout \in [Procs -> Channels(StdoutMessages)]
         /\ keyboardOwner \in Procs \cup {NoProc} /\ hung \in BOOLEAN
         /\ Kernel.pc = pc /\ Kernel.stdin = stdin /\ Kernel.stdout = stdout
         /\ Kernel.owner = keyboardOwner /\ Kernel.hung = hung
BY DEF IInv, Kernel, KernelStates

OnlyMoved(p) ==
  /\ pc' = [pc EXCEPT ![p] = pc'[p]]
  /\ stdin' = [stdin EXCEPT ![p] = stdin'[p]]
  /\ stdout' = [stdout EXCEPT ![p] = stdout'[p]]
  /\ drops' = [drops EXCEPT ![p] = drops'[p]]
  /\ UNCHANGED << keyboardOwner, hung >>

\* A step of the library that moves process p, and its streams or not, keeps the
\* invariant.
LEMMA ProcessMoves ==
  ASSUME IInv, NEW p \in Procs, OnlyMoved(p), pc[p] # "free", pc'[p] \in Places \ Unborn,
         stdin'[p] \in Channels(StdinMessages), stdout'[p] \in Channels(StdoutMessages),
         pc'[p] \in Filling => HalfWritten(stdout'[p]),
         pc'[p] \notin Filling => Settled(stdout'[p]),
         Contents(stdin'[p]) = Contents(stdin[p]),
         SpawnsFrom(stdout'[p], stdout[p]) \/ SpawnsFit(Kernel'),
         drops'[p] \in {0, 1}, DropsAt(drops'[p], pc'[p], stdout'[p])
  PROVE  IInv'
<1> DEFINE k == Kernel
           k2 == Kernel'
<1>1. /\ k \in KernelStates /\ Consistent(k)
      /\ k.pc = pc /\ k.stdin = stdin /\ k.stdout = stdout /\ k.owner = keyboardOwner
  BY StateParts
<1>2. /\ k2.pc = pc' /\ k2.stdin = stdin' /\ k2.stdout = stdout' /\ k2.owner = keyboardOwner
      /\ k2.hung = hung /\ k2 \in KernelStates
  BY StateParts DEF Kernel, KernelStates, OnlyMoved
<1> HIDE DEF k, k2
<1>3. \A q \in Procs \ {p} : /\ pc'[q] = pc[q] /\ stdin'[q] = stdin[q]
                             /\ stdout'[q] = stdout[q] /\ drops'[q] = drops[q]
  BY StateParts DEF IInv, OnlyMoved
<1>4. OthersKept(k, k2, p)
  BY <1>1, <1>2, <1>3 DEF OthersKept
<1>5. FilledAt(k2, p)
  BY <1>2 DEF FilledAt
<1>6. ToldAt(k2, p)
  <2>1. ToldAt(k, p)
    BY <1>1 DEF Consistent, OwnerTold
  <2> QED BY <1>1, <1>2, <2>1 DEF ToldAt, Told
<1>7. Consistent(k2)
  <2>1. SpawnsFrom(k2.stdout[p], k.stdout[p]) \/ SpawnsFit(k2)
    BY <1>1, <1>2 DEF k2
  <2>2. k.pc[p] # "free" /\ k2.pc[p] \notin Unborn
    BY <1>1, <1>2
  <2> QED BY <1>1, <1>2, <1>4, <1>5, <1>6, <2>1, <2>2, LocalChange
<1>8. drops' \in [Procs -> {0, 1}]
  <2>1. drops \in [Procs -> {0, 1}]
    BY DEF IInv
  <2> QED BY <2>1 DEF OnlyMoved
<1>9. ASSUME NEW q \in Procs PROVE DropsAt(drops'[q], pc'[q], stdout'[q])
  <2>1. CASE q = p
    BY <2>1
  <2>2. CASE q # p
    <3>1. DropsAt(drops[q], pc[q], stdout[q])
      BY DEF IInv, DropsSpaced
    <3>2. /\ pc'[q] = pc[q] /\ stdout'[q] = stdout[q] /\ drops'[q] = drops[q]
      BY <1>3, <2>2
    <3> QED BY <3>1, <3>2
  <2> QED BY <2>1, <2>2
<1>10. DropsSpaced'
  BY <1>9 DEF DropsSpaced
<1> QED BY <1>2, <1>7, <1>8, <1>10 DEF IInv, k2

LEMMA SettledAt ==
  ASSUME IInv, NEW p \in Procs, pc[p] \notin Filling
  PROVE  Settled(stdout[p])
<1>1. FilledAt(Kernel, p) /\ Kernel.pc = pc /\ Kernel.stdout = stdout
  BY StateParts DEF Consistent, FilledInOrder
<1> QED BY <1>1 DEF FilledAt

\* What a step leaves alone it leaves to be itself.
LEMMA SameAtProcess ==
  ASSUME IInv, NEW p \in Procs
  PROVE  /\ stdin = [stdin EXCEPT ![p] = stdin[p]] /\ stdin[p] \in Channels(StdinMessages)
         /\ stdout = [stdout EXCEPT ![p] = stdout[p]] /\ stdout[p] \in Channels(StdoutMessages)
         /\ drops = [drops EXCEPT ![p] = drops[p]] /\ drops[p] \in {0, 1}
         /\ DropsAt(drops[p], pc[p], stdout[p])
BY StateParts DEF IInv, DropsSpaced

LEMMA Moved ==
  ASSUME IInv, NEW p \in Procs, NEW place, Goto(p, place)
  PROVE  pc'[p] = place /\ pc' = [pc EXCEPT ![p] = pc'[p]]
BY StateParts DEF Goto

\* A message other than a request to spawn is created.
LEMMA CreateMoves ==
  ASSUME IInv, NEW p \in Procs, NEW kind \in {"text", "char", "open"},
         NEW place \in Filling,
         pc[p] \in {"run", "retry"}, CreateOut(p, kind), Goto(p, place),
         UNCHANGED << stdin, keyboardOwner, drops, hung >>
  PROVE  IInv'
<1> DEFINE ch == stdout[p]
           out == Created(ch, Message(kind))
<1>1. /\ ch \in Channels(StdoutMessages) /\ Message(kind) \in StdoutMessages
      /\ Message(kind).kind # "spawn"
  BY StateParts DEF Message, StdoutMessages
<1>2. out \in Channels(StdoutMessages)
  BY <1>1, CreatedChannel
<1>3. HalfWritten(out)
  <2>1. Settled(ch)
    BY SettledAt DEF Filling
  <2> QED BY <1>1, <2>1, CreateHalfWrites
<1>4. SpawnsFrom(out, ch)
  <2>1. Spawns(out) \subseteq Spawns(ch)
    BY <1>1, CreateAsks
  <2> QED BY <2>1, SpawnsUnmoved
<1>5. stdout'[p] = out /\ stdout' = [stdout EXCEPT ![p] = stdout'[p]]
  BY StateParts DEF CreateOut
<1> HIDE DEF out
<1>6. pc'[p] \in Filling /\ pc'[p] \in Places \ Unborn /\ pc[p] # "free"
  BY Moved DEF Places, Filling, Unborn
<1>7. OnlyMoved(p)
  BY <1>5, SameAtProcess, Moved DEF OnlyMoved
<1>8. DropsAt(drops'[p], pc'[p], stdout'[p])
  <2>1. pc'[p] \notin {"run", "full", "wait", "retry"}
    BY <1>6 DEF Filling
  <2> QED BY <1>6, <2>1 DEF DropsAt
<1>9. drops'[p] \in {0, 1} /\ stdin'[p] = stdin[p] /\ stdin[p] \in Channels(StdinMessages)
  BY SameAtProcess
<1> QED BY <1>2, <1>3, <1>4, <1>5, <1>6, <1>7, <1>8, <1>9, ProcessMoves

\* The process moves on, and reads its stdin or not.
LEMMA JustMoves ==
  ASSUME IInv, NEW p \in Procs, pc[p] \notin Filling \cup {"free"},
         pc' = [pc EXCEPT ![p] = pc'[p]], pc'[p] \in Places \ (Unborn \cup Filling),
         \/ UNCHANGED stdin
         \/ stdin[p].ready # << >> /\ stdin' = [stdin EXCEPT ![p] = ReadFrom(stdin[p])],
         drops' = [drops EXCEPT ![p] = drops'[p]], drops'[p] \in {0, 1},
         DropsAt(drops'[p], pc'[p], stdout[p]),
         UNCHANGED << stdout, keyboardOwner, hung >>
  PROVE  IInv'
<1>1. /\ stdin' = [stdin EXCEPT ![p] = stdin'[p]]
      /\ stdin'[p] \in Channels(StdinMessages) /\ Contents(stdin'[p]) = Contents(stdin[p])
  <2>1. stdin \in [Procs -> Channels(StdinMessages)] /\ stdin[p] \in Channels(StdinMessages)
    BY StateParts
  <2>2. CASE UNCHANGED stdin
    BY <2>1, <2>2
  <2>3. CASE stdin[p].ready # << >> /\ stdin' = [stdin EXCEPT ![p] = ReadFrom(stdin[p])]
    <3>1. stdin'[p] = ReadFrom(stdin[p])
      BY <2>1, <2>3
    <3>2. /\ ReadFrom(stdin[p]) \in Channels(StdinMessages)
          /\ Contents(ReadFrom(stdin[p])) = Contents(stdin[p])
      BY <2>1, <2>3, ReadChannel
    <3> QED BY <2>3, <3>1, <3>2
  <2> QED BY <2>2, <2>3
<1>2. Settled(stdout[p])
  BY SettledAt
<1>3. SpawnsFrom(stdout[p], stdout[p])
  BY SpawnsUnmoved
<1>4. OnlyMoved(p)
  BY <1>1, SameAtProcess DEF OnlyMoved
<1>5. stdout'[p] = stdout[p] /\ stdout[p] \in Channels(StdoutMessages)
  BY SameAtProcess
<1> QED BY <1>1, <1>2, <1>3, <1>4, <1>5, ProcessMoves

LEMMA StartProgramKeeps ==
  ASSUME IInv, NEW p \in Procs, StartProgram(p)
  PROVE  IInv'
<1>1. /\ pc[p] = "init" /\ stdin[p].ready # << >>
      /\ stdin' = [stdin EXCEPT ![p] = ReadFrom(stdin[p])] /\ Goto(p, "run")
      /\ UNCHANGED << stdout, drops, keyboardOwner, hung >>
  BY DEF StartProgram, At
<1>2. pc'[p] = "run" /\ pc' = [pc EXCEPT ![p] = pc'[p]]
  BY <1>1, Moved
<1>3. DropsAt(drops'[p], pc'[p], stdout[p])
  BY <1>1, <1>2, SameAtProcess DEF DropsAt, Unborn
<1>4. pc[p] \notin Filling \cup {"free"} /\ pc'[p] \in Places \ (Unborn \cup Filling)
  BY <1>1, <1>2 DEF Places, Calling, Unborn, Filling
<1> QED BY <1>1, <1>2, <1>3, <1>4, SameAtProcess, JustMoves

LEMMA ReadReplyKeeps ==
  ASSUME IInv, NEW p \in Procs, ReadReply(p)
  PROVE  IInv'
<1>1. /\ pc[p] = "wait" /\ stdin[p].ready # << >>
      /\ stdin' = [stdin EXCEPT ![p] = ReadFrom(stdin[p])]
      /\ Goto(p, "run") \/ Goto(p, "wait")
      /\ UNCHANGED << stdout, drops, keyboardOwner, hung >>
  BY DEF ReadReply, At
<1>2. pc'[p] \in {"run", "wait"} /\ pc' = [pc EXCEPT ![p] = pc'[p]]
  BY <1>1, Moved
<1>3. DropsAt(drops'[p], pc'[p], stdout[p])
  BY <1>1, <1>2, SameAtProcess DEF DropsAt, Unborn
<1>4. pc[p] \notin Filling \cup {"free"} /\ pc'[p] \in Places \ (Unborn \cup Filling)
  BY <1>1, <1>2 DEF Places, Calling, Unborn, Filling
<1> QED BY <1>1, <1>2, <1>3, <1>4, SameAtProcess, JustMoves

LEMMA PrintTextKeeps ==
  ASSUME IInv, NEW p \in Procs, PrintText(p)
  PROVE  IInv'
<1>1. /\ pc[p] \in {"run", "retry"} /\ CreateOut(p, "text") /\ Goto(p, "fill and flush")
      /\ UNCHANGED << stdin, keyboardOwner, drops, hung >>
  BY DEF PrintText, At
<1>2. "text" \in {"text", "char", "open"} /\ "fill and flush" \in Filling
  BY DEF Filling
<1> QED BY <1>1, <1>2, CreateMoves

LEMMA OpenStreamKeeps ==
  ASSUME IInv, NEW p \in Procs, OpenStream(p)
  PROVE  IInv'
<1>1. /\ pc[p] \in {"run", "retry"} /\ CreateOut(p, "open") /\ Goto(p, "fill and ask")
      /\ UNCHANGED << stdin, keyboardOwner, drops, hung >>
  BY DEF OpenStream, At
<1>2. "open" \in {"text", "char", "open"} /\ "fill and ask" \in Filling
  BY DEF Filling
<1> QED BY <1>1, <1>2, CreateMoves

LEMMA PrintCharKeeps ==
  ASSUME IInv, NEW p \in Procs, PrintChar(p)
  PROVE  IInv'
<1>1. pc[p] = "run" /\ UNCHANGED << stdin, keyboardOwner, drops, hung >>
  BY DEF PrintChar, At
<1>2. CASE CreateOut(p, "char") /\ Goto(p, "fill")
  <2>1. "char" \in {"text", "char", "open"} /\ "fill" \in Filling
    BY DEF Filling
  <2> QED BY <1>1, <1>2, <2>1, CreateMoves
<1>3. CASE Goto(p, "full") /\ UNCHANGED stdout
  <2>1. pc'[p] = "full" /\ pc' = [pc EXCEPT ![p] = pc'[p]]
    BY <1>3, Moved
  <2>2. DropsAt(drops'[p], pc'[p], stdout[p])
    BY <1>1, <2>1, SameAtProcess DEF DropsAt, Unborn
  <2>3. pc[p] \notin Filling \cup {"free"} /\ pc'[p] \in Places \ (Unborn \cup Filling)
    BY <1>1, <2>1 DEF Places, Calling, Unborn, Filling
  <2> QED BY <1>1, <1>3, <2>1, <2>2, <2>3, SameAtProcess, JustMoves
<1> QED BY <1>2, <1>3 DEF PrintChar

\* A retry that finds no room again is the first in a row: had the call before it lost a
\* character too, the stream would have been empty.
LEMMA RetryCharKeeps ==
  ASSUME IInv, NEW p \in Procs, RetryChar(p)
  PROVE  IInv'
<1>1. pc[p] = "retry" /\ UNCHANGED << stdin, keyboardOwner, hung >>
  BY DEF RetryChar, At
<1>2. CASE CreateOut(p, "char") /\ Goto(p, "fill") /\ UNCHANGED drops
  <2>1. "char" \in {"text", "char", "open"} /\ "fill" \in Filling
    BY DEF Filling
  <2> QED BY <1>1, <1>2, <2>1, CreateMoves
<1>3. CASE /\ ~HasRoom(stdout[p])
           /\ Goto(p, "run")
           /\ drops' = [drops EXCEPT ![p] = drops[p] + 1]
           /\ UNCHANGED stdout
  <2>1. pc'[p] = "run" /\ pc' = [pc EXCEPT ![p] = pc'[p]]
    BY <1>3, Moved
  <2>2. /\ Unread(stdout[p]) = << >>
        /\ drops[p] = 1 => stdout[p].held = << >>
        /\ drops[p] \in {0, 1} /\ stdout[p] \in Channels(StdoutMessages)
    BY <1>1, SameAtProcess DEF DropsAt
  <2>3. drops[p] = 0
    <3> SUFFICES ASSUME drops[p] = 1 PROVE FALSE
      BY <2>2
    <3>1. Len(Unread(stdout[p])) = 0 /\ Len(stdout[p].held) = 0
      BY <2>2
    <3>2. /\ Len(Unread(stdout[p])) = Len(stdout[p].ready) + Len(stdout[p].pending)
          /\ Len(stdout[p].ready) \in Nat /\ Len(stdout[p].pending) \in Nat
      BY <2>2, ChannelSequences
    <3>3. \A h, r, u \in Nat : h = 0 /\ r + u = 0 => h + r + u < Capacity
      BY KernelStreamsAssumption
    <3>4. HasRoom(stdout[p])
      BY <3>1, <3>2, <3>3 DEF HasRoom
    <3> QED BY <1>3, <3>4
  <2>4. drops'[p] = 1 /\ drops' = [drops EXCEPT ![p] = drops'[p]]
    BY <1>3, <2>3, SameAtProcess DEF IInv
  <2>5. DropsAt(drops'[p], pc'[p], stdout[p])
    BY <2>1, <2>2, <2>4 DEF DropsAt, Unborn
  <2>6. pc[p] \notin Filling \cup {"free"} /\ pc'[p] \in Places \ (Unborn \cup Filling)
    BY <1>1, <2>1 DEF Places, Calling, Unborn, Filling
  <2> QED BY <1>1, <1>3, <2>1, <2>4, <2>5, <2>6, JustMoves
<1> QED BY <1>2, <1>3 DEF RetryChar

LEMMA FillMessageKeeps ==
  ASSUME IInv, NEW p \in Procs, FillMessage(p)
  PROVE  IInv'
<1> DEFINE ch == stdout[p]
<1>1. /\ stdout' = [stdout EXCEPT ![p] = Filled(ch)]
      /\ UNCHANGED << stdin, keyboardOwner, hung >>
      /\ \/ pc[p] = "fill" /\ Goto(p, "run") /\ drops' = [drops EXCEPT ![p] = 0]
         \/ pc[p] = "fill and flush" /\ Goto(p, "flush") /\ UNCHANGED drops
         \/ pc[p] = "fill and ask" /\ Goto(p, "ask") /\ UNCHANGED drops
  BY DEF FillMessage, At
<1>2. pc[p] \in Filling /\ pc[p] # "free"
  BY <1>1 DEF Filling
<1>3. /\ pc' = [pc EXCEPT ![p] = pc'[p]] /\ pc'[p] \in {"run", "flush", "ask"}
      /\ pc'[p] = "run" => drops' = [drops EXCEPT ![p] = 0]
      /\ pc'[p] # "run" => UNCHANGED drops
  <2>1. CASE Goto(p, "run") /\ drops' = [drops EXCEPT ![p] = 0]
    BY <2>1, Moved
  <2>2. CASE Goto(p, "flush") /\ UNCHANGED drops
    BY <2>2, Moved
  <2>3. CASE Goto(p, "ask") /\ UNCHANGED drops
    BY <2>3, Moved
  <2> QED BY <1>1, <2>1, <2>2, <2>3
<1>4. pc'[p] \in Places \ Unborn /\ pc'[p] \notin Filling
  BY <1>3 DEF Places, Calling, Unborn, Filling
<1>5. ch \in Channels(StdoutMessages) /\ HalfWritten(ch)
  <2>1. FilledAt(Kernel, p) /\ Kernel.pc = pc /\ Kernel.stdout = stdout
    BY StateParts DEF Consistent, FilledInOrder
  <2> QED BY <1>2, <2>1, StateParts DEF FilledAt
<1>6. /\ Filled(ch) \in Channels(StdoutMessages) /\ Settled(Filled(ch))
      /\ Spawns(Filled(ch)) = Spawns(ch)
  BY <1>5, FilledChannel
<1>7. SpawnsFrom(Filled(ch), ch)
  BY <1>6, SpawnsUnmoved
<1>8. stdout'[p] = Filled(ch) /\ stdout' = [stdout EXCEPT ![p] = stdout'[p]]
  BY <1>1, StateParts
<1>9. /\ drops' = [drops EXCEPT ![p] = drops'[p]] /\ drops'[p] \in {0, 1}
      /\ pc'[p] = "run" => drops'[p] = 0
  BY <1>3, SameAtProcess DEF IInv
<1>10. OnlyMoved(p)
  BY <1>1, <1>3, <1>8, <1>9, SameAtProcess DEF OnlyMoved
<1>11. DropsAt(drops'[p], pc'[p], stdout'[p])
  BY <1>3, <1>4, <1>9 DEF DropsAt
<1> QED BY <1>1, <1>2, <1>4, <1>6, <1>7, <1>8, <1>9, <1>10, <1>11, SameAtProcess, ProcessMoves

\* A request to spawn is created only when none waits and a slot is free.
LEMMA SpawnAskKeeps ==
  ASSUME IInv, NEW p \in Procs, Spawn(p)
  PROVE  IInv'
<1> DEFINE ch == stdout[p]
           out == Created(ch, Message("spawn"))
<1>1. /\ pc[p] = "run" /\ Goto(p, "fill and flush")
      /\ \E q \in Procs : pc[q] = "free"
      /\ \A q \in Procs : ~Spawning(q)
      /\ stdout' = [stdout EXCEPT ![p] = out]
      /\ UNCHANGED << stdin, keyboardOwner, drops, hung >>
  BY DEF Spawn, At, CreateOut
<1>2. ch \in Channels(StdoutMessages) /\ Message("spawn") \in StdoutMessages
  BY StateParts DEF Message, StdoutMessages
<1>3. out \in Channels(StdoutMessages)
  BY <1>2, CreatedChannel
<1>4. HalfWritten(out)
  <2>1. Settled(ch)
    BY <1>1, SettledAt DEF Filling
  <2> QED BY <1>2, <2>1, CreateHalfWrites
<1>5. stdout'[p] = out /\ stdout' = [stdout EXCEPT ![p] = stdout'[p]]
  BY <1>1, StateParts
<1>6. pc'[p] = "fill and flush" /\ pc' = [pc EXCEPT ![p] = pc'[p]]
  BY <1>1, Moved
<1>7. pc'[p] \in Filling /\ pc'[p] \in Places \ Unborn /\ pc[p] # "free"
  BY <1>1, <1>6 DEF Places, Filling, Unborn
<1>8. ASSUME NEW q \in Procs PROVE Spawns(stdout[q]) = {}
  <2>1. Unread(stdout[q]) \in Seq(StdoutMessages)
    BY StateParts, ChannelSequences
  <2>2. DOMAIN Unread(stdout[q]) = 1..Len(Unread(stdout[q]))
    BY <2>1
  <2> QED BY <1>1, <2>2 DEF Spawning, Spawns, Unread
<1>9. \A i \in Spawns(out) : i = Len(Unread(ch)) + 1
  BY <1>2, <1>8, CreateAsks
<1> HIDE DEF out
<1>10. SpawnsFit(Kernel')
  <2>1. Kernel'.stdout = stdout' /\ Kernel'.pc = pc'
    BY DEF Kernel
  <2>2. \A q \in Procs \ {p} : stdout'[q] = stdout[q] /\ pc'[q] = pc[q]
    BY <1>1, <1>6, StateParts
  <2>3. \E r \in Procs : pc'[r] = "free"
    BY <1>1, <2>2
  <2>4. \A q \in Procs : \A i \in Spawns(stdout'[q]) : q = p /\ i = Len(Unread(ch)) + 1
    BY <1>5, <1>8, <1>9, <2>2
  <2> QED BY <2>1, <2>3, <2>4 DEF SpawnsFit
<1>11. OnlyMoved(p)
  BY <1>1, <1>5, <1>6, SameAtProcess DEF OnlyMoved
<1>12. DropsAt(drops'[p], pc'[p], stdout'[p])
  BY <1>6, <1>7 DEF DropsAt
<1> QED BY <1>1, <1>3, <1>4, <1>5, <1>7, <1>10, <1>11, <1>12, SameAtProcess, ProcessMoves

\* The call, whatever comes of it.
LEMMA FlushStreamsKeeps ==
  ASSUME IInv, NEW p \in Procs, NEW from, NEW to, FlushStreams(p, from, to),
         \/ from \in {"flush", "run"} /\ to = "run"
         \/ from = "full" /\ to = "retry"
         \/ from = "ask" /\ to = "wait"
  PROVE  IInv'
<1>1. pc[p] = from /\ ~hung /\ UNCHANGED drops
  BY DEF FlushStreams, At
<1>2. PICK after \in Flushed(Kernel, p) :
         /\ pc' = IF after.hung THEN after.pc ELSE [after.pc EXCEPT ![p] = to]
         /\ stdin' = after.stdin
         /\ stdout' = after.stdout
         /\ keyboardOwner' = after.owner
         /\ hung' = after.hung
  BY DEF FlushStreams
<1>3. Kernel \in KernelStates /\ Consistent(Kernel) /\ Kernel.pc[p] \in Calling /\ ~Kernel.hung
  BY <1>1, StateParts DEF Calling
<1>4. /\ CallKeeps(Kernel, after, p)
      /\ after.stdout[p].pending = << >>
      /\ after.hung \/ after.stdout[p].ready = << >>
      /\ Unread(Kernel.stdout[p]) = << >> => after = SyncProc(Kernel, p)
  BY <1>3, FlushedKeeps
<1>5. /\ after \in KernelStates /\ Consistent(after)
      /\ after.pc \in [Procs -> Places] /\ after.stdout \in [Procs -> Channels(StdoutMessages)]
      /\ \A q \in Procs : after.pc[q] = pc[q] \/ (pc[q] = "free" /\ after.pc[q] = "init")
      /\ \A q \in Procs \ {p} : after.stdout[q] = stdout[q]
  BY <1>4, StateParts, KernelParts DEF CallKeeps
<1>6. after.pc[p] = from
  BY <1>1, <1>5
<1>7. Kernel' \in KernelStates /\ Consistent(Kernel')
  <2> DEFINE k2 == Kernel'
  <2>1. /\ k2.pc = pc' /\ k2.stdin = after.stdin /\ k2.stdout = after.stdout
        /\ k2.owner = after.owner /\ k2.hung = after.hung
    BY <1>2 DEF Kernel
  <2>2. CASE after.hung
    <3>1. k2 = after
      BY <1>2, <1>5, <2>2 DEF Kernel, KernelStates
    <3> QED BY <1>5, <3>1
  <2>3. CASE ~after.hung
    <3>1. to \in Places /\ to \notin Unborn /\ to \notin Filling
      BY DEF Places, Calling, Filling, Unborn
    <3>2. pc' = [after.pc EXCEPT ![p] = to]
      BY <1>2, <2>3
    <3>3. k2 \in KernelStates
      BY <1>2, <1>5, <3>1, <3>2 DEF Kernel, KernelStates
    <3> HIDE DEF k2
    <3>4. k2.pc[p] = to /\ OthersKept(after, k2, p)
      BY <1>5, <2>1, <3>2 DEF OthersKept
    <3>5. FilledAt(k2, p)
      <4>1. FilledAt(after, p) /\ after.pc[p] \notin Filling
        BY <1>5, <1>6 DEF Consistent, FilledInOrder, Filling
      <4> QED BY <2>1, <3>1, <3>4, <4>1 DEF FilledAt
    <3>6. ToldAt(k2, p)
      BY <1>5, <2>1 DEF Consistent, OwnerTold, ToldAt
    <3>7. SpawnsFrom(k2.stdout[p], after.stdout[p])
      BY <2>1, SpawnsUnmoved
    <3>8. after.pc[p] # "free"
      BY <1>6
    <3>9. Consistent(k2)
      BY <1>5, <2>1, <3>1, <3>3, <3>4, <3>5, <3>6, <3>7, <3>8, LocalChange
    <3> QED BY <3>3, <3>9 DEF k2
  <2> QED BY <2>2, <2>3
<1>8. ASSUME NEW q \in Procs PROVE DropsAt(drops'[q], pc'[q], stdout'[q])
  <2>1. DropsAt(drops[q], pc[q], stdout[q]) /\ drops'[q] = drops[q] /\ drops[q] \in {0, 1}
    BY <1>1, SameAtProcess
  <2>2. CASE q # p
    <3>1. stdout'[q] = stdout[q] /\ (pc'[q] = pc[q] \/ (pc[q] = "free" /\ pc'[q] = "init"))
      BY <1>2, <1>5, <2>2
    <3>2. CASE pc'[q] = pc[q]
      BY <2>1, <3>1, <3>2
    <3>3. CASE pc[q] = "free" /\ pc'[q] = "init"
      BY <2>1, <3>3 DEF DropsAt, Unborn
    <3> QED BY <3>1, <3>2, <3>3
  <2>3. CASE q = p
    <3>1. stdout[p] \in Channels(StdoutMessages) /\ Kernel.stdout[p] = stdout[p]
      BY StateParts
    <3>2. ASSUME Unread(stdout[p]) = << >>
          PROVE  ~after.hung /\ stdout'[p].held = << >>
      <4>1. after = SyncProc(Kernel, p)
        BY <1>4, <3>1, <3>2
      <4>2. /\ after.hung = Kernel.hung
            /\ after.stdout = [Kernel.stdout EXCEPT ![p] = Synced(Kernel.stdout[p])]
        BY <1>3, <4>1, SyncProcKeeps
      <4>3. after.stdout[p] = Synced(stdout[p])
        BY <3>1, <4>2, StateParts
      <4> QED BY <1>2, <1>3, <3>1, <4>2, <4>3, SyncedChannel
    <3>3. from \notin Unborn /\ from \notin {"retry", "wait"} /\ to \notin Unborn
      BY DEF Unborn
    <3>4. ASSUME drops[p] = 1, from \in {"run", "full"} PROVE Unread(stdout[p]) = << >>
      BY <1>1, <2>1, <2>3, <3>4 DEF DropsAt
    <3>5. CASE after.hung
      <4>1. pc'[p] = from
        BY <1>2, <1>6, <3>5
      <4>2. drops[p] = 1 => from \notin {"run", "full"}
        BY <3>2, <3>4, <3>5
      <4> QED BY <2>1, <2>3, <3>3, <4>1, <4>2 DEF DropsAt
    <3>6. CASE ~after.hung
      <4>1. pc'[p] = to
        BY <1>2, <1>5, <3>6
      <4>2. Unread(stdout'[p]) = << >>
        <5>1. << >> \o << >> = << >>
          OBVIOUS
        <5> QED BY <1>2, <1>4, <3>6, <5>1 DEF Unread
      <4>3. drops[p] = 1 /\ to = "retry" => stdout'[p].held = << >>
        BY <3>2, <3>4
      <4> QED BY <2>1, <2>3, <3>3, <4>1, <4>2, <4>3 DEF DropsAt
    <3> QED BY <3>5, <3>6
  <2> QED BY <2>2, <2>3
<1>9. drops' \in [Procs -> {0, 1}] /\ DropsSpaced'
  BY <1>1, <1>8 DEF DropsSpaced, IInv
<1> QED BY <1>7, <1>9 DEF IInv

\* The interrupt syncs what it finds, at any point of a call of the library.
LEMMA KeyIRQKeeps ==
  ASSUME IInv, KeyIRQ
  PROVE  IInv'
<1> DEFINE k == Kernel
           k2 == Kernel'
<1>1. /\ k \in KernelStates /\ Consistent(k)
      /\ k.pc = pc /\ k.stdin = stdin /\ k.stdout = stdout /\ k.owner = keyboardOwner
  BY StateParts
<1>2. /\ pc' = pc /\ drops' = drops /\ keyboardOwner' = keyboardOwner /\ hung' = hung
      /\ \A p \in Procs : stdin'[p] = Synced(stdin[p]) /\ stdout'[p] = Synced(stdout[p])
      /\ stdin' = [p \in Procs |-> Synced(stdin[p])]
      /\ stdout' = [p \in Procs |-> Synced(stdout[p])]
  BY DEF KeyIRQ
<1>3. ASSUME NEW p \in Procs
      PROVE  /\ stdin[p] \in Channels(StdinMessages) /\ stdout[p] \in Channels(StdoutMessages)
             /\ Synced(stdin[p]) \in Channels(StdinMessages)
             /\ Synced(stdout[p]) \in Channels(StdoutMessages)
  <2>1. stdin[p] \in Channels(StdinMessages) /\ stdout[p] \in Channels(StdoutMessages)
    BY StateParts
  <2> QED BY <2>1, SyncedChannel
<1>4. /\ k2.pc = pc /\ k2.stdin = stdin' /\ k2.stdout = stdout' /\ k2.owner = keyboardOwner
      /\ k2 \in KernelStates
  <2>1. stdin' \in [Procs -> Channels(StdinMessages)] /\ stdout' \in [Procs -> Channels(StdoutMessages)]
    BY <1>2, <1>3
  <2> QED BY <1>2, <2>1, StateParts DEF Kernel, KernelStates
<1> HIDE DEF k, k2
<1>5. NewbornWait(k2)
  <2>1. Synced(NewChannel) = NewChannel
    BY DEF Synced, NewChannel
  <2>2. Synced(BirthStdin) = BirthStdin
    BY Birth DEF Synced
  <2> QED BY <1>1, <1>2, <1>4, <2>1, <2>2 DEF Consistent, NewbornWait
<1>6. FilledInOrder(k2)
  <2>1. ASSUME NEW p \in Procs PROVE FilledAt(k2, p)
    <3>1. FilledAt(k, p)
      BY <1>1 DEF Consistent, FilledInOrder
    <3> QED BY <1>1, <1>2, <1>4, <3>1, FilledAfterSync
  <2> QED BY <2>1 DEF FilledInOrder
<1>7. OwnerTold(k2)
  <2>1. ASSUME NEW p \in Procs PROVE ToldAt(k2, p)
    <3>1. ToldAt(k, p)
      BY <1>1 DEF Consistent, OwnerTold
    <3> QED BY <1>1, <1>2, <1>4, <3>1, ToldAfterSync
  <2> QED BY <2>1 DEF OwnerTold
<1>8. SpawnsFit(k2)
  <2>1. \A p \in Procs : Spawns(k2.stdout[p]) = Spawns(k.stdout[p])
    BY <1>1, <1>2, <1>3, <1>4, SpawnsAfterSync
  <2> QED BY <1>1, <1>4, <2>1 DEF Consistent, SpawnsFit
<1>9. ASSUME NEW p \in Procs PROVE DropsAt(drops'[p], pc'[p], stdout'[p])
  <2>1. DropsAt(drops[p], pc[p], stdout[p])
    BY DEF IInv, DropsSpaced
  <2>2. Unread(stdout'[p]) = Unread(stdout[p]) /\ stdout'[p].held = << >>
    BY <1>2, <1>3, SyncedChannel
  <2> QED BY <1>2, <2>1, <2>2 DEF DropsAt
<1>10. drops' \in [Procs -> {0, 1}] /\ DropsSpaced'
  BY <1>2, <1>9 DEF IInv, DropsSpaced
<1> QED BY <1>4, <1>5, <1>6, <1>7, <1>8, <1>10 DEF IInv, Consistent, k2

LEMMA InitHolds == Init => IInv
<1> SUFFICES ASSUME Init PROVE IInv
  OBVIOUS
<1> DEFINE k == Kernel
<1>1. NewChannel \in Channels(StdinMessages) /\ NewChannel \in Channels(StdoutMessages)
  <2>1. << >> \in Seq(StdinMessages) /\ << >> \in Seq(StdoutMessages)
    BY EmptySeq
  <2> QED BY <2>1 DEF NewChannel, Channels
<1>2. /\ k.pc = [p \in Procs |-> IF p = 1 THEN "init" ELSE "free"]
      /\ k.stdin = [p \in Procs |-> IF p = 1 THEN BirthStdin ELSE NewChannel]
      /\ k.stdout = [p \in Procs |-> NewChannel]
      /\ k.owner = NoProc
  BY DEF Init, Kernel
<1>3. k \in KernelStates
  <2>1. "init" \in Places /\ "free" \in Places
    BY DEF Places, Unborn
  <2> QED BY <1>1, <2>1, Birth DEF Init, Kernel, KernelStates
<1> HIDE DEF k
<1>4. NewbornWait(k)
  BY <1>2 DEF NewbornWait, Unborn
<1>5. Contents(NewChannel) = << >> /\ Unread(NewChannel) = << >>
  BY DEF Contents, Unread, NewChannel
<1>6. FilledInOrder(k)
  <2>1. Settled(NewChannel)
    BY EmptyFilled DEF Settled, NewChannel
  <2> QED BY <1>2, <2>1 DEF FilledInOrder, FilledAt, Filling
<1>7. OwnerTold(k)
  <2>1. Told(NewChannel) = {}
    BY <1>5 DEF Told
  <2>2. \A p \in Procs : Told(k.stdin[p]) = {}
    BY <1>2, <2>1, Birth
  <2> QED BY <2>2 DEF OwnerTold, ToldAt
<1>8. SpawnsFit(k)
  <2>1. Spawns(NewChannel) = {}
    BY <1>5 DEF Spawns
  <2> QED BY <1>2, <2>1 DEF SpawnsFit
<1>9. drops = [p \in Procs |-> 0] /\ pc = [p \in Procs |-> IF p = 1 THEN "init" ELSE "free"]
  BY DEF Init
<1>10. DropsSpaced
  BY <1>9 DEF DropsSpaced, DropsAt
<1> QED BY <1>3, <1>4, <1>6, <1>7, <1>8, <1>9, <1>10 DEF IInv, Consistent, k

LEMMA NextKeeps == IInv /\ [Next]_vars => IInv'
<1> SUFFICES ASSUME IInv, [Next]_vars PROVE IInv'
  OBVIOUS
<1>1. ASSUME NEW p \in Procs, ProcessStep(p) PROVE IInv'
  <2>1. CASE StartProgram(p)
    BY <2>1, StartProgramKeeps
  <2>2. CASE PrintText(p)
    BY <2>2, PrintTextKeeps
  <2>3. CASE PrintChar(p)
    BY <2>3, PrintCharKeeps
  <2>4. CASE RetryChar(p)
    BY <2>4, RetryCharKeeps
  <2>5. CASE Spawn(p)
    BY <2>5, SpawnAskKeeps
  <2>6. CASE OpenStream(p)
    BY <2>6, OpenStreamKeeps
  <2>7. CASE FillMessage(p)
    BY <2>7, FillMessageKeeps
  <2>8. CASE ReadReply(p)
    BY <2>8, ReadReplyKeeps
  <2>9. CASE Flush(p)
    BY <2>9, FlushStreamsKeeps DEF Flush
  <2> QED BY <1>1, <2>1, <2>2, <2>3, <2>4, <2>5, <2>6, <2>7, <2>8, <2>9 DEF ProcessStep
<1>2. CASE KeyIRQ
  BY <1>2, KeyIRQKeeps
<1>3. CASE UNCHANGED vars
  BY <1>3 DEF vars, IInv, Kernel, DropsSpaced
<1> QED BY <1>1, <1>2, <1>3 DEF Next, DiskPoll

\* Every state reached is consistent: this is the invariant the theorems below rest on.
THEOREM StateStaysConsistent == Spec => []IInv
<1>1. Init => IInv
  BY InitHolds
<1>2. IInv /\ [Next]_vars => IInv'
  BY NextKeeps
<1> QED BY <1>1, <1>2, PTL DEF Spec

\* However many processes are spawned and whatever the interrupts publish, a process that
\* is about to start finds the pointer of its stdout at the head of its stdin.
THEOREM PointerAlwaysDelivered == Spec => []StdoutPointerDelivered
<1>1. IInv => StdoutPointerDelivered
  <2> SUFFICES ASSUME IInv, NEW p \in Procs, pc[p] = "init"
               PROVE  stdin[p].ready # << >> /\ Head(stdin[p].ready) = "stdout"
    BY DEF StdoutPointerDelivered
  <2>1. stdin[p] = BirthStdin
    BY StateParts DEF Consistent, NewbornWait
  <2> QED BY <2>1, Birth
<1> QED BY <1>1, StateStaysConsistent, PTL

\* The kernel handles no message whose body is missing, for any number of processes and
\* messages in flight.
THEOREM OnlyFilledEverHandled == Spec => []OnlyFilledHandled
<1>1. IInv => OnlyFilledHandled
  <2> SUFFICES ASSUME IInv, NEW p \in Procs, NEW i \in DOMAIN stdout[p].held
               PROVE  stdout[p].held[i].filled
    BY DEF OnlyFilledHandled
  <2>1. FilledAt(Kernel, p) /\ Kernel.stdout = stdout /\ stdout[p] \in Channels(StdoutMessages)
    BY StateParts DEF Consistent, FilledInOrder
  <2>2. AllFilled(stdout[p].held)
    BY <2>1 DEF FilledAt, Settled, HalfWritten
  <2>3. i \in 1..Len(stdout[p].held)
    <3>1. stdout[p].held \in Seq(StdoutMessages)
      BY <2>1, ChannelSequences
    <3> QED BY <3>1
  <2> QED BY <2>2, <2>3 DEF AllFilled
<1> QED BY <1>1, StateStaysConsistent, PTL

\* However many processes ask, only the one whose stream the interrupt writes to is told
\* of the keyboard, and once.
THEOREM KeyboardAlwaysCapturedOnce == Spec => []KeyboardCapturedOnce
<1>1. IInv => KeyboardCapturedOnce
  <2> SUFFICES ASSUME IInv, NEW p \in Procs,
                      LET s    == stdin[p].held \o stdin[p].ready \o stdin[p].pending
                          told == {i \in DOMAIN s : s[i] = "keyboard"}
                      IN  told # {}
               PROVE  LET s    == stdin[p].held \o stdin[p].ready \o stdin[p].pending
                          told == {i \in DOMAIN s : s[i] = "keyboard"}
                      IN  keyboardOwner = p /\ Cardinality(told) = 1
    BY DEF KeyboardCapturedOnce
  <2> DEFINE s == Contents(stdin[p])
  <2>1. s \in Seq(StdinMessages) /\ ToldAt(Kernel, p)
        /\ Kernel.stdin = stdin /\ Kernel.owner = keyboardOwner
    BY StateParts, ChannelSequences DEF Consistent, OwnerTold
  <2>2. DOMAIN s = 1..Len(s)
    BY <2>1
  <2>3. {i \in DOMAIN s : s[i] = "keyboard"} = Told(stdin[p])
    BY <2>2 DEF Told
  <2>4. Told(stdin[p]) # {}
    BY <2>3 DEF Contents
  <2>5. PICK i \in Told(stdin[p]) : TRUE
    BY <2>4
  <2>6. keyboardOwner = p /\ Told(stdin[p]) = {i}
    BY <2>1, <2>5 DEF ToldAt
  <2>7. Cardinality({i}) = 1
    BY FS_Singleton
  <2> QED BY <2>3, <2>6, <2>7 DEF Contents
<1> QED BY <1>1, StateStaysConsistent, PTL

\* Whatever the capacity of the streams, printCharAt never loses two characters in a row.
THEOREM DropsNeverInARow == Spec => []NoTwoDropsInARow
<1>1. IInv => NoTwoDropsInARow
  BY DEF IInv, NoTwoDropsInARow
<1> QED BY <1>1, StateStaysConsistent, PTL
=============================================================================
