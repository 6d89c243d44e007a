----------------------------- MODULE CommonLemmas -----------------------------
(****************************************************************************)
(* What several of the proofs need: what stands for induction in those about*)
(* loops and trees (a set of natural numbers has a least one), sequences as *)
(* parts of a numbering, and what a recursion that follows links computes.  *)
(****************************************************************************)
EXTENDS Integers, FiniteSetTheorems, SequenceTheorems, TLAPS

\* A set of natural numbers has a least one: what lies below it is the least of sets
\* ordered by inclusion.
LEMMA LeastOfSet ==
  ASSUME NEW S \in SUBSET Nat, S # {}
  PROVE  \E m \in S : \A k \in S : m <= k
<1> DEFINE below == {0..k : k \in S}
           order == StrictSubsetOrdering(Nat)
<1>1. below \subseteq FiniteSubsetsOf(Nat) /\ below # {}
  <2>1. ASSUME NEW k \in S PROVE 0..k \in FiniteSubsetsOf(Nat)
    <3>1. k \in Int /\ 0..k \subseteq Nat
      OBVIOUS
    <3>2. IsFiniteSet(0..k)
      BY <3>1, FS_Interval
    <3> QED BY <3>1, <3>2 DEF FiniteSubsetsOf
  <2>2. \A y \in below : y \in FiniteSubsetsOf(Nat)
    BY <2>1
  <2> QED BY <2>2
<1>2. PICK x \in below : \A y \in below : << y, x >> \notin order
  <2>1. IsWellFoundedOn(order, FiniteSubsetsOf(Nat))
    BY FS_StrictSubsetOrderingWellFounded
  <2> HIDE DEF below, order
  <2> QED BY <2>1, <1>1, WFMin
<1>3. PICK m \in S : x = 0..m
  BY <1>2
<1>4. ASSUME NEW k \in S PROVE m <= k
  <2>1. << 0..k, 0..m >> \notin order
    BY <1>2, <1>3
  <2>2. ~(0..k \subseteq 0..m /\ 0..k # 0..m)
    BY <2>1 DEF StrictSubsetOrdering
  <2> QED BY <2>2
<1> QED BY <1>4

\* What holds of 0, and of each number up to a last one if it holds of the number before,
\* holds of all of them.
LEMMA UpTo ==
  ASSUME NEW N \in Nat, NEW holds, 0 \in holds,
         \A k \in 1..N : k - 1 \in holds => k \in holds
  PROVE  0..N \subseteq holds
<1> DEFINE fails == (0..N) \ holds
<1>1. CASE fails = {}
  BY <1>1
<1>2. CASE fails # {}
  <2>1. PICK k \in fails : \A j \in fails : k <= j
    <3>1. fails \in SUBSET Nat
      OBVIOUS
    <3> QED BY <1>2, <3>1, LeastOfSet
  <2>2. k \in 1..N /\ k - 1 \notin fails
    BY <2>1
  <2> QED BY <2>1, <2>2
<1> QED BY <1>1, <1>2

\* A loop of N rounds that takes a value of S to another, and its history from the start.
Loop(step, N, S) == step \in [1..N -> [S -> S]]

History(f, N, S, start, step) ==
  /\ f \in [0..N -> S]
  /\ f[0] = start
  /\ \A n \in 1..N : f[n] = step[n][f[n - 1]]

LEMMA Rounds ==
  ASSUME NEW N \in Nat, NEW S, NEW start \in S, NEW step, Loop(step, N, S)
  PROVE  \E f : History(f, N, S, start, step)
<1> USE DEF Loop
<1> DEFINE Begins(f, k) ==
             f[0] = start /\ \A n \in 1..k : f[n] = step[n][f[n - 1]]
           holds == {k \in 0..N : \E f \in [0..N -> S] : Begins(f, k)}
<1>1. 0 \in holds
  <2> DEFINE f == [n \in 0..N |-> start]
  <2>1. f \in [0..N -> S] /\ Begins(f, 0)
    OBVIOUS
  <2> HIDE DEF f, Begins
  <2> QED BY <2>1
<1>2. ASSUME NEW k \in 1..N, k - 1 \in holds PROVE k \in holds
  <2>1. PICK f \in [0..N -> S] : Begins(f, k - 1)
    BY <1>2
  <2>2. k \in 0..N /\ k - 1 \in 0..N /\ k # 0 /\ k - 1 # k
    OBVIOUS
  <2> DEFINE x == step[k][f[k - 1]]
             g == [f EXCEPT ![k] = x]
  <2>3. x \in S
    BY <2>2
  <2> HIDE DEF x
  <2>4. g \in [0..N -> S] /\ g[k] = x /\ \A n \in 0..N : n # k => g[n] = f[n]
    BY <2>2, <2>3
  <2> HIDE DEF g
  <2>5. ASSUME NEW n \in 1..k PROVE g[n] = step[n][g[n - 1]]
    <3>1. n \in 0..N /\ n - 1 \in 0..N /\ n - 1 # k
      OBVIOUS
    <3>2. g[n - 1] = f[n - 1]
      BY <2>4, <3>1
    <3>3. CASE n = k
      BY <2>4, <3>2, <3>3 DEF x
    <3>4. CASE n # k
      <4>1. n \in 1..(k - 1)
        BY <3>4
      <4>2. f[n] = step[n][f[n - 1]]
        BY <2>1, <4>1
      <4> QED BY <2>4, <3>1, <3>2, <3>4, <4>2
    <3> QED BY <3>3, <3>4
  <2>6. g[0] = start
    BY <2>1, <2>2, <2>4
  <2>7. Begins(g, k)
    BY <2>5, <2>6
  <2> HIDE DEF Begins
  <2> QED BY <2>2, <2>4, <2>7
<1>3. 0..N \subseteq holds
  <2> HIDE DEF holds
  <2> QED BY <1>1, <1>2, UpTo
<1>4. N \in 0..N
  OBVIOUS
<1> HIDE DEF Begins
<1>5. PICK f \in [0..N -> S] : Begins(f, N)
  BY <1>3, <1>4
<1>6. History(f, N, S, start, step)
  BY <1>5 DEF Begins, History
<1> QED BY <1>6

-----------------------------------------------------------------------------
\* Sequences as functions of their places.
LEMMA SeqOfPlaces ==
  ASSUME NEW X, NEW n \in Nat, NEW s \in [1..n -> X]
  PROVE  s \in Seq(X) /\ Len(s) = n
OBVIOUS

LEMMA SamePlaces ==
  ASSUME NEW X, NEW s \in Seq(X), NEW t \in Seq(X), Len(s) = Len(t),
         \A n \in 1..Len(s) : s[n] = t[n]
  PROVE  s = t
BY SeqEqual

\* The items of a numbering from the a-th on, up to the b-th.
Items(g, a, b) == [n \in 1..(b - a) |-> g[a + n - 1]]

LEMMA ItemsType ==
  ASSUME NEW X, NEW N \in Nat, NEW g \in [0..(N - 1) -> X], NEW a \in 0..N, NEW b \in a..N
  PROVE  /\ Items(g, a, b) \in [1..(b - a) -> X]
         /\ Items(g, a, b) \in Seq(X)
         /\ Len(Items(g, a, b)) = b - a
         /\ b - a \in Nat
<1>1. b - a \in Nat /\ \A n \in 1..(b - a) : a + n - 1 \in 0..(N - 1)
  OBVIOUS
<1>2. Items(g, a, b) \in [1..(b - a) -> X]
  BY <1>1 DEF Items
<1> QED BY <1>1, <1>2, SeqOfPlaces

LEMMA ItemsTypes ==
  ASSUME NEW X, NEW N \in Nat, NEW g \in [0..(N - 1) -> X]
  PROVE  \A x \in 0..N : \A y \in x..N : Items(g, x, y) \in Seq(X) /\ Len(Items(g, x, y)) = y - x
BY ItemsType

\* Side by side they are one part.
LEMMA ItemsJoin ==
  ASSUME NEW X, NEW N \in Nat, NEW g \in [0..(N - 1) -> X],
         NEW a \in 0..N, NEW b \in a..N, NEW c \in b..N
  PROVE  Items(g, a, b) \o Items(g, b, c) = Items(g, a, c)
<1> DEFINE s == Items(g, a, b)
           t == Items(g, b, c)
           u == Items(g, a, c)
<1>1. /\ b \in 0..N /\ c \in a..N
      /\ b - a \in Nat /\ c - b \in Nat /\ (b - a) + (c - b) = c - a /\ c - a \in Nat
  OBVIOUS
<1>2. /\ s \in Seq(X) /\ Len(s) = b - a
      /\ t \in Seq(X) /\ Len(t) = c - b
      /\ u \in Seq(X) /\ Len(u) = c - a
  <2>1. \A x \in 0..N : \A y \in x..N :
          Items(g, x, y) \in Seq(X) /\ Len(Items(g, x, y)) = y - x
    BY ItemsTypes
  <2> QED BY <1>1, <2>1
<1>3. /\ \A n \in 1..(b - a) : s[n] = g[a + n - 1]
      /\ \A n \in 1..(c - b) : t[n] = g[b + n - 1]
      /\ \A n \in 1..(c - a) : u[n] = g[a + n - 1]
  BY DEF Items
<1> HIDE DEF s, t, u
<1>4. /\ s \o t \in Seq(X) /\ Len(s \o t) = c - a
      /\ \A n \in 1..(c - a) : (s \o t)[n] = IF n <= b - a THEN s[n] ELSE t[n - (b - a)]
  <2>1. \A x, y \in Seq(X) :
          /\ x \o y \in Seq(X)
          /\ Len(x \o y) = Len(x) + Len(y)
          /\ \A n \in 1..(Len(x) + Len(y)) :
               (x \o y)[n] = IF n <= Len(x) THEN x[n] ELSE y[n - Len(x)]
    BY ConcatProperties
  <2>2. /\ s \o t \in Seq(X)
        /\ Len(s \o t) = Len(s) + Len(t)
        /\ \A n \in 1..(Len(s) + Len(t)) :
             (s \o t)[n] = IF n <= Len(s) THEN s[n] ELSE t[n - Len(s)]
    BY <1>2, <2>1
  <2>3. Len(s) + Len(t) = c - a
    BY <1>1, <1>2
  <2> QED BY <1>2, <2>2, <2>3
<1>5. ASSUME NEW n \in 1..(c - a) PROVE (s \o t)[n] = u[n]
  <2>1. CASE n <= b - a
    <3>1. n \in 1..(b - a)
      BY <1>1, <2>1
    <3> QED BY <1>3, <1>4, <2>1, <3>1
  <2>2. CASE ~(n <= b - a)
    <3>1. n - (b - a) \in 1..(c - b) /\ b + (n - (b - a)) - 1 = a + n - 1
      BY <1>1, <2>2
    <3> QED BY <1>3, <1>4, <2>2, <3>1
  <2> QED BY <2>1, <2>2
<1>6. s \o t = u
  BY <1>2, <1>4, <1>5, SamePlaces
<1> QED BY <1>6 DEF s, t, u

\* One item more at the end, and one less at the start.
LEMMA ItemsLonger ==
  ASSUME NEW X, NEW N \in Nat, NEW g \in [0..(N - 1) -> X],
         NEW a \in 0..N, NEW b \in a..(N - 1)
  PROVE  Items(g, a, b + 1) = Append(Items(g, a, b), g[b])
<1> DEFINE s == Items(g, a, b)
           c == b + 1
           u == Items(g, a, c)
           e == g[b]
<1>1. /\ b \in a..N /\ c \in a..N /\ b - a \in Nat /\ c - a = (b - a) + 1
      /\ b \in 0..(N - 1) /\ c - a \in 1..(c - a) /\ a + (c - a) - 1 = b
  OBVIOUS
<1>2. /\ \A n \in 1..(b - a) : s[n] = g[a + n - 1]
      /\ \A n \in 1..(c - a) : u[n] = g[a + n - 1]
  BY DEF Items
<1>3. e \in X
  BY <1>1
<1> HIDE DEF c
<1>4. /\ s \in Seq(X) /\ Len(s) = b - a
      /\ u \in Seq(X) /\ Len(u) = c - a
  <2>1. \A x \in 0..N : \A y \in x..N :
          Items(g, x, y) \in Seq(X) /\ Len(Items(g, x, y)) = y - x
    BY ItemsTypes
  <2> QED BY <1>1, <2>1
<1>5. u[c - a] = e
  BY <1>1, <1>2
<1> HIDE DEF s, u, e
<1>6. /\ Append(s, e) \in Seq(X) /\ Len(Append(s, e)) = (b - a) + 1
      /\ \A n \in 1..(b - a) : Append(s, e)[n] = s[n]
      /\ Append(s, e)[(b - a) + 1] = e
  <2>1. \A x \in Seq(X), y \in X :
          /\ Append(x, y) \in Seq(X) /\ Len(Append(x, y)) = Len(x) + 1
          /\ \A n \in 1..Len(x) : Append(x, y)[n] = x[n]
          /\ Append(x, y)[Len(x) + 1] = y
    BY AppendProperties
  <2>2. /\ Append(s, e) \in Seq(X) /\ Len(Append(s, e)) = Len(s) + 1
        /\ \A n \in 1..Len(s) : Append(s, e)[n] = s[n]
        /\ Append(s, e)[Len(s) + 1] = e
    BY <1>3, <1>4, <2>1
  <2> QED BY <1>4, <2>2
<1>7. ASSUME NEW n \in 1..(c - a) PROVE Append(s, e)[n] = u[n]
  <2>1. CASE n = c - a
    BY <1>1, <1>5, <1>6, <2>1
  <2>2. CASE n # c - a
    <3>1. n \in 1..(b - a)
      BY <1>1, <2>2
    <3> QED BY <1>2, <1>6, <3>1
  <2> QED BY <2>1, <2>2
<1>8. Append(s, e) = u
  BY <1>1, <1>4, <1>6, <1>7, SamePlaces
<1> QED BY <1>8 DEF s, u, e, c

LEMMA ItemsShorter ==
  ASSUME NEW X, NEW N \in Nat, NEW g \in [0..(N - 1) -> X],
         NEW a \in 0..N, NEW b \in (a + 1)..N
  PROVE  /\ Items(g, a, b) # << >>
         /\ Head(Items(g, a, b)) = g[a]
         /\ Tail(Items(g, a, b)) = Items(g, a + 1, b)
<1> DEFINE s == Items(g, a, b)
           c == a + 1
           t == Items(g, c, b)
<1>1. /\ b \in a..N /\ c \in 0..N /\ b \in c..N
      /\ b - a \in Nat \ {0} /\ b - c = (b - a) - 1 /\ 1 \in 1..(b - a) /\ a + 1 - 1 = a
      /\ \A n \in 1..((b - a) - 1) : n + 1 \in 1..(b - a) /\ a + (n + 1) - 1 = c + n - 1
  OBVIOUS
<1>2. /\ \A n \in 1..(b - a) : s[n] = g[a + n - 1]
      /\ \A n \in 1..(b - c) : t[n] = g[c + n - 1]
  BY DEF Items
<1> HIDE DEF c
<1>3. /\ s \in Seq(X) /\ Len(s) = b - a
      /\ t \in Seq(X) /\ Len(t) = (b - a) - 1
  <2>1. \A x \in 0..N : \A y \in x..N :
          Items(g, x, y) \in Seq(X) /\ Len(Items(g, x, y)) = y - x
    BY ItemsTypes
  <2> QED BY <1>1, <2>1
<1>4. s[1] = g[a]
  BY <1>1, <1>2
<1> HIDE DEF s, t
<1>5. /\ s # << >> /\ Head(s) = s[1] /\ Tail(s) \in Seq(X) /\ Len(Tail(s)) = (b - a) - 1
      /\ \A n \in 1..((b - a) - 1) : Tail(s)[n] = s[n + 1]
  <2>1. \A x \in Seq(X) : x # << >> =>
          /\ Head(x) = x[1] /\ Tail(x) \in Seq(X) /\ Len(Tail(x)) = Len(x) - 1
          /\ \A n \in 1..(Len(x) - 1) : Tail(x)[n] = x[n + 1]
    OBVIOUS
  <2>2. s # << >>
    BY <1>1, <1>3
  <2> QED BY <1>3, <2>1, <2>2
<1>6. ASSUME NEW n \in 1..((b - a) - 1) PROVE Tail(s)[n] = t[n]
  BY <1>1, <1>2, <1>5
<1>7. Tail(s) = t
  BY <1>3, <1>5, <1>6, SamePlaces
<1> QED BY <1>4, <1>5, <1>7 DEF s, t, c

-----------------------------------------------------------------------------
LEMMA OneFirst ==
  ASSUME NEW X, NEW x \in X, NEW s \in Seq(X)
  PROVE  /\ << x >> \o s \in [1..(Len(s) + 1) -> X]
         /\ (<< x >> \o s)[1] = x
         /\ \A n \in 1..Len(s) : (<< x >> \o s)[n + 1] = s[n]
<1> DEFINE one == << x >>
           all == one \o s
<1>1. one \in Seq(X) /\ Len(one) = 1 /\ one[1] = x
  OBVIOUS
<1>2. Len(s) \in Nat
  OBVIOUS
<1> HIDE DEF one
<1>3. /\ all \in Seq(X) /\ Len(all) = Len(one) + Len(s)
      /\ \A n \in 1..(Len(one) + Len(s)) :
           all[n] = IF n <= Len(one) THEN one[n] ELSE s[n - Len(one)]
  BY <1>1, ConcatProperties
<1> HIDE DEF all
<1>4. Len(all) = Len(s) + 1 /\ all \in [1..(Len(s) + 1) -> X]
  <2>1. Len(all) = Len(s) + 1
    BY <1>1, <1>2, <1>3
  <2>2. all \in [1..Len(all) -> X]
    BY <1>3
  <2> QED BY <2>1, <2>2
<1>5. all[1] = one[1]
  BY <1>1, <1>2, <1>3
<1>6. ASSUME NEW n \in 1..Len(s) PROVE all[n + 1] = s[n]
  <2>1. n + 1 \in 1..(1 + Len(s)) /\ ~(n + 1 <= 1) /\ n + 1 - 1 = n
    BY <1>2
  <2> QED BY <1>1, <1>3, <2>1
<1> QED BY <1>1, <1>4, <1>5, <1>6 DEF one, all

\* The items at the places of S from one on, each linked to the next, up to the place
\* to, as a recursion that runs out of fuel after B of them finds them.
ItemThenRest(S, item, next, at, rest) ==
  << item[at] >> \o (IF next[at] \in S THEN rest[next[at]] ELSE << >>)

Links(chain, B, S, item, next, to) ==
  chain = [fuel \in 0..B |->
             [at \in S |-> IF at = to \/ fuel = 0 THEN << >>
                           ELSE ItemThenRest(S, item, next, at, chain[fuel - 1])]]

LEMMA LinksExist ==
  ASSUME NEW B \in Nat, NEW S, NEW item, NEW next, NEW to
  PROVE  \E chain : Links(chain, B, S, item, next, to)
<1> PICK X : \A at \in S : item[at] \in X
  <2>1. \A at \in S : item[at] \in {item[place] : place \in S}
    OBVIOUS
  <2> QED BY <2>1
<1> DEFINE T == [S -> Seq(X)]
           Row(fuel, rest) == [at \in S |-> IF at = to \/ fuel = 0 THEN << >>
                                            ELSE ItemThenRest(S, item, next, at, rest)]
           start == [at \in S |-> << >>]
           step == [n \in 1..B |-> [rest \in T |-> Row(n, rest)]]
<1>1. ASSUME NEW fuel, NEW rest \in T PROVE Row(fuel, rest) \in T
  <2>1. ASSUME NEW at \in S PROVE ItemThenRest(S, item, next, at, rest) \in Seq(X)
    <3> DEFINE tail == IF next[at] \in S THEN rest[next[at]] ELSE << >>
    <3>1. tail \in Seq(X) /\ item[at] \in X
      OBVIOUS
    <3>2. ItemThenRest(S, item, next, at, rest) = << item[at] >> \o tail
      BY DEF ItemThenRest
    <3> HIDE DEF tail
    <3> QED BY <3>1, <3>2
  <2>2. << >> \in Seq(X)
    OBVIOUS
  <2> QED BY <2>1, <2>2
<1>2. start \in T
  OBVIOUS
<1> HIDE DEF Row, T
<1>3. Loop(step, B, T)
  BY <1>1 DEF Loop
<1>4. \A n \in 1..B, rest \in T : step[n][rest] = Row(n, rest)
  OBVIOUS
<1> HIDE DEF step, start
<1>5. PICK f : History(f, B, T, start, step)
  BY <1>2, <1>3, Rounds
<1>6. ASSUME NEW n \in 0..B PROVE f[n] = Row(n, f[n - 1])
  <2>1. CASE n = 0
    <3>1. f[n] = start
      BY <1>5, <2>1 DEF History
    <3>2. Row(n, f[n - 1]) = start
      BY <2>1 DEF Row, start
    <3> QED BY <3>1, <3>2
  <2>2. CASE n # 0
    <3>1. n \in 1..B /\ n - 1 \in 0..B
      BY <2>2
    <3>2. f[n - 1] \in T /\ f[n] = step[n][f[n - 1]]
      BY <1>5, <3>1 DEF History
    <3> QED BY <1>4, <3>1, <3>2
  <2> QED BY <2>1, <2>2
<1>7. f \in [0..B -> T]
  BY <1>5 DEF History
<1>8. Links(f, B, S, item, next, to)
  BY <1>6, <1>7 DEF Row, Links
<1> QED BY <1>8

LEMMA LinksValue ==
  ASSUME NEW B, NEW S, NEW item, NEW next, NEW to,
         NEW chain, Links(chain, B, S, item, next, to)
  PROVE  \A fuel \in 0..B, at \in S :
           chain[fuel][at] = IF at = to \/ fuel = 0 THEN << >>
                             ELSE ItemThenRest(S, item, next, at, chain[fuel - 1])
<1>1. \A fuel \in 0..B :
        chain[fuel] = [at \in S |-> IF at = to \/ fuel = 0 THEN << >>
                                    ELSE ItemThenRest(S, item, next, at, chain[fuel - 1])]
  BY DEF Links
<1> QED BY <1>1

\* Places each of which the one before links to, up to a last one that is none of the
\* others, and the items on the way to it.
Walk(g, k, S, next, from, to) ==
  /\ g \in [0..k -> S]
  /\ g[0] = from /\ g[k] = to
  /\ \A n \in 1..k : g[n] = next[g[n - 1]]
  /\ \A n \in 0..(k - 1) : g[n] # g[k]

Along(item, g, k) == [n \in 1..k |-> item[g[n - 1]]]

LEMMA LinksSpelled ==
  ASSUME NEW B \in Nat, NEW S, NEW item, NEW next,
         NEW k \in 0..B, NEW g, NEW from, NEW to, Walk(g, k, S, next, from, to),
         NEW chain, Links(chain, B, S, item, next, to)
  PROVE  chain[B][from] = Along(item, g, k)
<1> PICK X : \A at \in S : item[at] \in X
  <2>1. \A at \in S : item[at] \in {item[place] : place \in S}
    OBVIOUS
  <2> QED BY <2>1
<1> DEFINE Last(m) == [n \in 1..m |-> item[g[k - m + n - 1]]]
<1>0. k \in Nat /\ k <= B
  OBVIOUS
<1>7. /\ g \in [0..k -> S]
      /\ g[0] = from /\ g[k] = to
      /\ \A n \in 1..k : g[n] = next[g[n - 1]]
      /\ \A n \in 0..(k - 1) : g[n] # g[k]
  BY DEF Walk
<1>1. \A fuel \in 0..B, at \in S :
        chain[fuel][at] = IF at = g[k] \/ fuel = 0 THEN << >>
                          ELSE ItemThenRest(S, item, next, at, chain[fuel - 1])
  <2>1. \A fuel \in 0..B, at \in S :
          chain[fuel][at] = IF at = to \/ fuel = 0 THEN << >>
                            ELSE ItemThenRest(S, item, next, at, chain[fuel - 1])
    BY LinksValue
  <2> QED BY <1>7, <2>1
<1> DEFINE holds == {m \in 0..k : chain[B - k + m][g[k - m]] = Last(m)}
<1>2. 0 \in holds
  <2>1. 0 \in 0..k /\ B - k + 0 \in 0..B /\ k - 0 = k /\ g[k] \in S
    BY <1>0, <1>7
  <2>2. chain[B - k + 0][g[k]] = << >>
    BY <1>1, <2>1
  <2>3. Last(0) = << >>
    OBVIOUS
  <2> HIDE DEF Last
  <2> QED BY <2>1, <2>2, <2>3
<1>3. ASSUME NEW m \in 1..k, m - 1 \in holds PROVE m \in holds
  <2> DEFINE at == g[k - m]
             after == g[k - m + 1]
             fuel == B - k + m
  <2>1. /\ k - m \in 0..(k - 1) /\ k - m \in 0..k
        /\ k - m + 1 \in 1..k /\ k - m + 1 - 1 = k - m
        /\ k - m + 1 = k - (m - 1) /\ k - m + 1 \in 0..k
        /\ fuel \in 0..B /\ fuel # 0 /\ fuel - 1 = B - k + (m - 1)
        /\ m \in Nat /\ m - 1 \in Nat
    BY <1>0
  <2>2. at \in S /\ after \in S /\ at # g[k]
    BY <1>7, <2>1
  <2>3. after = next[at]
    BY <1>7, <2>1
  <2>4. chain[fuel - 1][after] = Last(m - 1)
    BY <1>3, <2>1
  <2>5. chain[fuel][at] = ItemThenRest(S, item, next, at, chain[fuel - 1])
    BY <1>1, <2>1, <2>2
  <2>6. chain[fuel][at] = << item[at] >> \o Last(m - 1)
    <3> HIDE DEF Last, at, after, fuel
    <3> QED BY <2>2, <2>3, <2>4, <2>5 DEF ItemThenRest
  <2>7. << item[at] >> \o Last(m - 1) = Last(m)
    <3> DEFINE one == item[at]
               rest == Last(m - 1)
    <3>1. \A n \in 1..m : k - m + n - 1 \in 0..k
      BY <1>0, <2>1
    <3>2. \A n \in 1..(m - 1) : /\ k - (m - 1) + n - 1 \in 0..k
                                /\ k - (m - 1) + n - 1 = k - m + (n + 1) - 1
                                /\ n + 1 \in 1..m
      BY <1>0, <2>1
    <3>3. \A n \in 0..k : item[g[n]] \in X
      BY <1>7
    <3>4. one \in X
      BY <2>2
    <3>5. rest \in [1..(m - 1) -> X] /\ Last(m) \in [1..m -> X]
      BY <3>1, <3>2, <3>3
    <3>6. Last(m)[1] = one /\ \A n \in 1..(m - 1) : Last(m)[n + 1] = rest[n]
      <4>1. 1 \in 1..m /\ k - m + 1 - 1 = k - m
        BY <1>0, <2>1
      <4> QED BY <3>2, <4>1
    <3> HIDE DEF one, rest, Last
    <3>7. rest \in Seq(X) /\ Len(rest) = m - 1 /\ m - 1 + 1 = m
      BY <2>1, <3>5, SeqOfPlaces
    <3> DEFINE all == << one >> \o rest
    <3>8. /\ all \in [1..m -> X]
          /\ all[1] = one
          /\ \A n \in 1..(m - 1) : all[n + 1] = rest[n]
      <4>1. /\ all \in [1..(Len(rest) + 1) -> X]
            /\ all[1] = one
            /\ \A n \in 1..Len(rest) : all[n + 1] = rest[n]
        <5>1. \A x \in X, t \in Seq(X) :
                /\ << x >> \o t \in [1..(Len(t) + 1) -> X]
                /\ (<< x >> \o t)[1] = x
                /\ \A n \in 1..Len(t) : (<< x >> \o t)[n + 1] = t[n]
          BY OneFirst
        <5> QED BY <3>4, <3>7, <5>1
      <4> QED BY <3>7, <4>1
    <3> HIDE DEF all
    <3>9. ASSUME NEW n \in 1..m PROVE all[n] = Last(m)[n]
      <4>1. CASE n = 1
        BY <3>6, <3>8, <4>1
      <4>2. CASE n # 1
        <5>1. n - 1 \in 1..(m - 1) /\ (n - 1) + 1 = n
          BY <2>1, <4>2
        <5>2. all[(n - 1) + 1] = rest[n - 1] /\ Last(m)[(n - 1) + 1] = rest[n - 1]
          BY <3>6, <3>8, <5>1
        <5> QED BY <5>1, <5>2
      <4> QED BY <4>1, <4>2
    <3>10. all = Last(m)
      BY <3>5, <3>8, <3>9
    <3> QED BY <3>10 DEF all, one, rest
  <2> HIDE DEF Last
  <2>8. chain[B - k + m][g[k - m]] = Last(m)
    BY <2>6, <2>7
  <2> QED BY <2>1, <2>8
<1>4. k \in holds
  <2> HIDE DEF holds
  <2>1. 0..k \subseteq holds
    BY <1>0, <1>2, <1>3, UpTo
  <2> QED BY <1>0, <2>1
<1>5. chain[B][g[0]] = Last(k)
  <2>1. B - k + k = B /\ k - k = 0
    BY <1>0
  <2> HIDE DEF Last
  <2> QED BY <1>4, <2>1
<1>6. Last(k) = Along(item, g, k)
  <2>1. \A n \in 1..k : k - k + n - 1 = n - 1
    BY <1>0
  <2> QED BY <2>1 DEF Along
<1> QED BY <1>5, <1>6, <1>7
===============================================================================
