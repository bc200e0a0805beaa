--------------------------- MODULE DataPathProofs ---------------------------
(***************************************************************************)
(* Proofs that the caches and the write buffer of DataPath keep their      *)
(* invariant and do not show to a program, for any lines, values, ways and *)
(* size of the write buffer.                                               *)
(***************************************************************************)
EXTENDS DataPath, TLAPS

Puts == INSTANCE Lemmas WITH Op <- Put
WriteBacks == INSTANCE Lemmas WITH Op <- WrittenBack

Memories == [Address -> Val]
Caches == [Way -> CacheLine \union {Invalid}]

-----------------------------------------------------------------------------
(* What a drain of the write buffer leaves in memory.                      *)

Drain(m, s) == FoldLeft(Put, m, s)

\* The memories r after each element of s.
PutAlong(r, m, s, n) ==
  /\ r[0] = m /\ r[n] = Drain(m, s)
  /\ \A k \in 1 .. n : r[k] = Put(r[k-1], s[k])

LEMMA PutResults ==
  \A m, s : \A n \in Nat :
    DOMAIN s = 1 .. n =>
      \E r : PutAlong(r, m, s, n)
BY Puts!FoldResults
   DEF PutAlong, Drain, FoldLeft, MapThenFoldSet, Max,
       Puts!FoldLeft, Puts!MapThenFoldSet, Puts!Max

\* The entry at position i of s, of which the first n count, is the last for a.
LastFor(s, n, a, i) ==
  /\ i \in 1 .. n /\ s[i].pa = a
  /\ \A j \in i+1 .. n : s[j].pa # a

NoneFor(s, n, a) == \A i \in 1 .. n : s[i].pa # a

\* Memory f is m after the first n entries of s.
PutInto(f, m, s, n) ==
  /\ f \in Memories
  /\ \A a \in Address :
       \/ NoneFor(s, n, a) /\ f[a] = m[a]
       \/ \E i \in 1 .. n : LastFor(s, n, a, i) /\ f[a] = s[i].data

LEMMA PutIntoStep ==
  ASSUME NEW m \in Memories, NEW s, NEW f, NEW n \in Nat \ {0},
         s[n] \in WbEntry, PutInto(f, m, s, n-1)
  PROVE  PutInto(Put(f, s[n]), m, s, n)
<1> DEFINE e == s[n]
           g == Put(f, e)
<1>1. e.pa \in Address /\ e.data \in Val
  BY DEF WbEntry
<1>2. f \in Memories
  BY DEF PutInto
<1>3. g \in Memories
  BY <1>1, <1>2 DEF Put, Memories
<1>4. ASSUME NEW a \in Address
      PROVE  g[a] = IF e.pa = a THEN e.data ELSE f[a]
  BY <1>1, <1>2 DEF Put, Memories
<1> HIDE DEF g
<1>5. ASSUME NEW a \in Address
      PROVE  \/ NoneFor(s, n, a) /\ g[a] = m[a]
             \/ \E i \in 1 .. n : LastFor(s, n, a, i) /\ g[a] = s[i].data
  <2>1. CASE e.pa = a
    <3>1. LastFor(s, n, a, n) /\ g[a] = s[n].data
      BY <1>4, <2>1 DEF LastFor
    <3>2. n \in 1 .. n
      OBVIOUS
    <3> QED
      BY <3>1, <3>2
  <2>2. CASE e.pa # a /\ NoneFor(s, n-1, a) /\ f[a] = m[a]
    BY <1>4, <2>2 DEF NoneFor
  <2>3. ASSUME e.pa # a,
               NEW i \in 1 .. n-1, LastFor(s, n-1, a, i), f[a] = s[i].data
        PROVE  \E j \in 1 .. n : LastFor(s, n, a, j) /\ g[a] = s[j].data
    <3>1. LastFor(s, n, a, i) /\ i \in 1 .. n
      BY <2>3 DEF LastFor
    <3>2. g[a] = s[i].data
      BY <1>4, <2>3
    <3> QED
      BY <3>1, <3>2
  <2> QED
    BY <2>1, <2>2, <2>3 DEF PutInto
<1> QED
  BY <1>3, <1>5 DEF PutInto, g

\* A drain leaves the last entry of an address in memory, and nothing else
\* changes.
LEMMA DrainPuts ==
  ASSUME NEW m \in Memories, NEW s \in Seq(WbEntry)
  PROVE  PutInto(Drain(m, s), m, s, Len(s))
<1> DEFINE n == Len(s)
<1>1. n \in Nat /\ DOMAIN s = 1 .. n /\ \A k \in 1 .. n : s[k] \in WbEntry
  OBVIOUS
<1>2. PICK r : PutAlong(r, m, s, n)
  BY <1>1, PutResults
<1> DEFINE G == {k \in 0 .. n : PutInto(r[k], m, s, k)}
<1> HIDE DEF n
<1>3. 0 \in G
  BY <1>1, <1>2 DEF PutAlong, PutInto, NoneFor
<1>4. ASSUME NEW k \in 1 .. n, k-1 \in G
      PROVE  k \in G
  <2>1. PutInto(r[k-1], m, s, k-1) /\ s[k] \in WbEntry /\ k \in Nat \ {0}
    BY <1>1, <1>4
  <2>2. PutInto(Put(r[k-1], s[k]), m, s, k)
    BY <2>1, PutIntoStep
  <2> QED
    BY <1>1, <1>2, <2>2 DEF PutAlong
<1>5. n \in G
  <2> HIDE DEF G
  <2> QED
    BY <1>1, <1>3, <1>4, Puts!Inductive
<1> QED
  BY <1>2, <1>5 DEF PutAlong, n

LEMMA DrainType ==
  ASSUME NEW m \in Memories, NEW s \in Seq(WbEntry)
  PROVE  Drain(m, s) \in Memories
BY DrainPuts DEF PutInto

\* An address without an entry keeps its value.
LEMMA DrainNone ==
  ASSUME NEW m \in Memories, NEW s \in Seq(WbEntry), NEW a \in Address,
         \A i \in DOMAIN s : s[i].pa # a
  PROVE  Drain(m, s)[a] = m[a]
<1>1. Len(s) \in Nat /\ DOMAIN s = 1 .. Len(s)
  OBVIOUS
<1> QED
  BY <1>1, DrainPuts DEF PutInto, LastFor

\* Memory matters at the address only.
LEMMA DrainSame ==
  ASSUME NEW m \in Memories, NEW k \in Memories, NEW s \in Seq(WbEntry),
         NEW a \in Address, m[a] = k[a]
  PROVE  Drain(m, s)[a] = Drain(k, s)[a]
<1> DEFINE n == Len(s)
<1>1. n \in Nat
  OBVIOUS
<1>2. PutInto(Drain(m, s), m, s, n) /\ PutInto(Drain(k, s), k, s, n)
  BY DrainPuts
<1> HIDE DEF n
<1>3. CASE NoneFor(s, n, a)
  BY <1>2, <1>3 DEF PutInto, NoneFor, LastFor
<1>4. CASE ~NoneFor(s, n, a)
  <2>1. PICK i \in 1 .. n : LastFor(s, n, a, i) /\ Drain(m, s)[a] = s[i].data
    BY <1>2, <1>4 DEF PutInto
  <2>2. PICK j \in 1 .. n : LastFor(s, n, a, j) /\ Drain(k, s)[a] = s[j].data
    BY <1>2, <1>4 DEF PutInto
  <2>3. i = j
    BY <1>1, <2>1, <2>2 DEF LastFor
  <2> QED
    BY <2>1, <2>2, <2>3
<1> QED
  BY <1>3, <1>4

\* The newest entry is drained last.
LEMMA DrainAppend ==
  ASSUME NEW m \in Memories, NEW s \in Seq(WbEntry), NEW e \in WbEntry,
         NEW a \in Address
  PROVE  Drain(m, Append(s, e))[a] =
           IF e.pa = a THEN e.data ELSE Drain(m, s)[a]
<1> DEFINE n == Len(s)
           t == Append(s, e)
           f == Drain(m, s)
           g == Drain(m, t)
<1>1. /\ n \in Nat /\ t \in Seq(WbEntry) /\ Len(t) = n + 1 /\ t[n+1] = e
      /\ \A i \in 1 .. n : t[i] = s[i]
  OBVIOUS
<1>2. PutInto(f, m, s, n) /\ PutInto(g, m, t, n+1)
  BY <1>1, DrainPuts
<1> HIDE DEF n, t, f, g
<1>3. CASE e.pa = a
  <2>1. PICK i \in 1 .. n+1 : LastFor(t, n+1, a, i) /\ g[a] = t[i].data
    BY <1>1, <1>2, <1>3 DEF PutInto, NoneFor
  <2>2. i = n+1
    BY <1>1, <1>3, <2>1 DEF LastFor
  <2> QED
    BY <1>1, <1>3, <2>1, <2>2 DEF g, t
<1>4. CASE e.pa # a
  <2>1. CASE NoneFor(s, n, a)
    <3>1. NoneFor(t, n+1, a)
      BY <1>1, <1>4, <2>1 DEF NoneFor
    <3>2. g[a] = m[a]
      BY <1>2, <3>1 DEF PutInto, NoneFor, LastFor
    <3>3. f[a] = m[a]
      BY <1>2, <2>1 DEF PutInto, NoneFor, LastFor
    <3> QED
      BY <1>4, <3>2, <3>3 DEF f, g, t
  <2>2. CASE ~NoneFor(s, n, a)
    <3>1. PICK i \in 1 .. n : LastFor(s, n, a, i) /\ f[a] = s[i].data
      BY <1>2, <2>2 DEF PutInto
    <3>2. ~NoneFor(t, n+1, a)
      BY <1>1, <3>1 DEF NoneFor, LastFor
    <3>3. PICK j \in 1 .. n+1 : LastFor(t, n+1, a, j) /\ g[a] = t[j].data
      BY <1>2, <3>2 DEF PutInto
    <3>4. j \in 1 .. n
      BY <1>1, <1>4, <3>3 DEF LastFor
    <3>5. i = j
      BY <1>1, <3>1, <3>3, <3>4 DEF LastFor
    <3> QED
      BY <1>1, <1>4, <3>1, <3>3, <3>4, <3>5 DEF f, g, t
  <2> QED
    BY <2>1, <2>2
<1> QED
  BY <1>3, <1>4 DEF f, g, t

\* Writing the oldest entry out changes nothing of what a drain will leave.
LEMMA DrainHead ==
  ASSUME NEW m \in Memories, NEW s \in Seq(WbEntry), s # <<>>, NEW a \in Address
  PROVE  /\ Put(m, Head(s)) \in Memories
         /\ Drain(Put(m, Head(s)), Tail(s))[a] = Drain(m, s)[a]
<1> DEFINE n == Len(s)
           h == Head(s)
           t == Tail(s)
           p == Put(m, h)
           f == Drain(m, s)
           g == Drain(p, t)
<1>1. /\ n \in Nat \ {0} /\ t \in Seq(WbEntry) /\ Len(t) = n - 1 /\ h = s[1]
      /\ h \in WbEntry
  OBVIOUS
<1>2. \A i \in 1 .. n-1 : t[i] = s[i+1]
  OBVIOUS
<1>3. h.pa \in Address /\ h.data \in Val
  BY <1>1 DEF WbEntry
<1>4. p \in Memories /\ p[a] = IF h.pa = a THEN h.data ELSE m[a]
  BY <1>3 DEF Put, Memories
<1> HIDE DEF p
<1>5. PutInto(f, m, s, n) /\ PutInto(g, p, t, n-1)
  BY <1>1, <1>4, DrainPuts
<1> HIDE DEF n, t, f, g, h
<1>6. CASE NoneFor(t, n-1, a)
  <2>1. g[a] = p[a]
    BY <1>5, <1>6 DEF PutInto, NoneFor, LastFor
  <2>2. CASE h.pa = a
    <3>1. ~NoneFor(s, n, a)
      BY <1>1, <2>2 DEF NoneFor
    <3>2. PICK i \in 1 .. n : LastFor(s, n, a, i) /\ f[a] = s[i].data
      BY <1>5, <3>1 DEF PutInto
    <3>3. i = 1
      <4> SUFFICES ASSUME i # 1
                   PROVE  FALSE
        OBVIOUS
      <4>1. i-1 \in 1 .. n-1 /\ (i-1)+1 = i
        BY <1>1
      <4>2. t[i-1] = s[i]
        BY <1>2, <4>1
      <4> QED
        BY <1>6, <3>2, <4>1, <4>2 DEF NoneFor, LastFor
    <3> QED
      BY <1>1, <1>4, <2>1, <2>2, <3>2, <3>3 DEF f, g, p, t, h
  <2>3. CASE h.pa # a
    <3>1. NoneFor(s, n, a)
      <4> SUFFICES ASSUME NEW i \in 1 .. n, s[i].pa = a
                   PROVE  FALSE
        BY DEF NoneFor
      <4>1. i # 1
        BY <1>1, <2>3
      <4>2. i-1 \in 1 .. n-1 /\ (i-1)+1 = i
        BY <1>1, <4>1
      <4> QED
        BY <1>2, <1>6, <4>2 DEF NoneFor
    <3>2. f[a] = m[a]
      BY <1>5, <3>1 DEF PutInto, NoneFor, LastFor
    <3> QED
      BY <1>4, <2>1, <2>3, <3>2 DEF f, g, p, t, h
  <2> QED
    BY <2>2, <2>3
<1>7. CASE ~NoneFor(t, n-1, a)
  <2>1. PICK i \in 1 .. n-1 : LastFor(t, n-1, a, i) /\ g[a] = t[i].data
    BY <1>5, <1>7 DEF PutInto
  <2>2. s[i+1] = t[i] /\ i+1 \in 1 .. n
    BY <1>1, <1>2
  <2>3. ~NoneFor(s, n, a)
    BY <2>1, <2>2 DEF NoneFor, LastFor
  <2>4. PICK j \in 1 .. n : LastFor(s, n, a, j) /\ f[a] = s[j].data
    BY <1>5, <2>3 DEF PutInto
  <2>5. ~(j < i+1)
    BY <1>1, <2>1, <2>2, <2>4 DEF LastFor
  <2>6. ~(j > i+1)
    <3> SUFFICES ASSUME j > i+1
                 PROVE  FALSE
      OBVIOUS
    <3>1. j-1 \in i+1 .. n-1 /\ j-1 \in 1 .. n-1 /\ (j-1)+1 = j
      BY <1>1
    <3>2. t[j-1] = s[j]
      BY <1>2, <3>1
    <3> QED
      BY <2>1, <2>4, <3>1, <3>2 DEF LastFor
  <2>7. j = i+1
    BY <1>1, <2>5, <2>6
  <2> QED
    BY <1>4, <2>1, <2>2, <2>4, <2>7 DEF f, g, p, t, h
<1> QED
  BY <1>4, <1>6, <1>7 DEF f, g, p, t, h

-----------------------------------------------------------------------------
(* What an invalidation of a whole cache leaves in memory.                 *)

WriteBackLines(m, s) == FoldLeft(WrittenBack, m, s)

\* The memories r after each element of s.
WrittenBackAlong(r, m, s, n) ==
  /\ r[0] = m /\ r[n] = WriteBackLines(m, s)
  /\ \A k \in 1 .. n : r[k] = WrittenBack(r[k-1], s[k])

LEMMA WriteBackResults ==
  \A m, s : \A n \in Nat :
    DOMAIN s = 1 .. n =>
      \E r : WrittenBackAlong(r, m, s, n)
BY WriteBacks!FoldResults
   DEF WrittenBackAlong, WriteBackLines, FoldLeft, MapThenFoldSet, Max,
       WriteBacks!FoldLeft, WriteBacks!MapThenFoldSet, WriteBacks!Max

\* Line c of a cache has written to address a.
DirtyAt(c, a) == a[1] = c.line /\ a[2] \in c.dirty

LEMMA WrittenBackAt ==
  ASSUME NEW m \in Memories, NEW c \in CacheLine \union {Invalid}
  PROVE  /\ WrittenBack(m, c) \in Memories
         /\ \A a \in Address :
              WrittenBack(m, c)[a] = IF DirtyAt(c, a) THEN c.data[a[2]] ELSE m[a]
<1>1. DOMAIN m = Address
  BY DEF Memories
<1>2. ASSUME NEW a \in Address
      PROVE  WrittenBack(m, c)[a] = IF DirtyAt(c, a) THEN c.data[a[2]] ELSE m[a]
  BY <1>1 DEF WrittenBack, DirtyAt
<1>3. ASSUME NEW a \in Address, DirtyAt(c, a)
      PROVE  c.data[a[2]] \in Val
  <2>1. c.dirty # {}
    BY <1>3 DEF DirtyAt
  <2>2. c \in CacheLine
    BY <2>1 DEF Invalid
  <2>3. c.dirty \subseteq Halves /\ c.data \in [Halves -> Val]
    BY <2>2 DEF CacheLine
  <2> QED
    BY <1>3, <2>3 DEF DirtyAt
<1>4. \A a \in Address : WrittenBack(m, c)[a] \in Val
  BY <1>2, <1>3 DEF Memories
<1>5. WrittenBack(m, c) = [a \in Address |-> WrittenBack(m, c)[a]]
  BY <1>1 DEF WrittenBack
<1> QED
  BY <1>2, <1>4, <1>5 DEF Memories

\* Memory f is m after the lines in the first n ways of a cache.
WrittenInto(f, m, cache, n) ==
  /\ f \in Memories
  /\ \A a \in Address :
       /\ (\A w \in 0 .. n-1 : ~DirtyAt(cache[w], a)) => f[a] = m[a]
       /\ \A w \in 0 .. n-1 : DirtyAt(cache[w], a) => f[a] = cache[w].data[a[2]]

\* As long as no line is in two ways, an invalidation of all writes the dirty
\* halves of every way, in whatever order.
LEMMA WriteBackAll ==
  ASSUME NEW m \in Memories, NEW cache \in Caches, NoDuplicate(cache)
  PROVE  WrittenInto(WrittenBackAll(m, cache), m, cache, Ways)
<1> DEFINE s == [i \in 1 .. Ways |-> cache[i-1]]
<1>1. /\ Ways \in Nat /\ DOMAIN s = 1 .. Ways
      /\ \A k \in 1 .. Ways : s[k] = cache[k-1] /\ k-1 \in Way
  BY SizeAssumption DEF Way
<1>2. PICK r : WrittenBackAlong(r, m, s, Ways)
  <2> HIDE DEF s
  <2> QED
    BY <1>1, WriteBackResults
<1>3. r[Ways] = WrittenBackAll(m, cache)
  BY <1>2 DEF WrittenBackAlong, WrittenBackAll, WriteBackLines, s
<1> HIDE DEF s
<1> DEFINE G == {k \in 0 .. Ways : WrittenInto(r[k], m, cache, k)}
<1>4. 0 \in G
  BY <1>1, <1>2 DEF WrittenBackAlong, WrittenInto
<1>5. ASSUME NEW k \in 1 .. Ways, k-1 \in G
      PROVE  k \in G
  <2> DEFINE f == r[k-1]
             c == cache[k-1]
  <2>1. WrittenInto(f, m, cache, k-1) /\ k-1 \in Way
    BY <1>1, <1>5
  <2>2. c \in CacheLine \union {Invalid} /\ f \in Memories
    BY <2>1 DEF Caches, WrittenInto
  <2>3. r[k] = WrittenBack(f, c)
    BY <1>1, <1>2 DEF WrittenBackAlong
  <2>4. /\ r[k] \in Memories
        /\ \A a \in Address : r[k][a] = IF DirtyAt(c, a) THEN c.data[a[2]] ELSE f[a]
    <3> HIDE DEF f, c
    <3> QED
      BY <2>2, <2>3, WrittenBackAt
  <2>5. ASSUME NEW a \in Address, NEW w \in 0 .. k-2, DirtyAt(cache[w], a)
        PROVE  ~DirtyAt(c, a)
    <3>1. w \in Way /\ w # k-1
      BY <1>1, <2>1 DEF Way
    <3>2. cache[w].line # None
      <4>1. a[1] \in Lines
        BY DEF Address
      <4> QED
        BY <2>5, <4>1, NoneAssumption DEF DirtyAt
    <3> QED
      BY <2>1, <2>5, <3>1, <3>2 DEF DirtyAt, NoDuplicate
  <2>6. \A w \in 0 .. k-1 : w = k-1 \/ w \in 0 .. k-2
    BY <1>1
  <2>7. 0 .. (k-1)-1 = 0 .. k-2 /\ k-1 \in 0 .. k-1 /\ 0 .. k-2 \subseteq 0 .. k-1
    BY <1>1
  <2>8. ASSUME NEW a \in Address
        PROVE  /\ (\A w \in 0 .. k-1 : ~DirtyAt(cache[w], a)) => r[k][a] = m[a]
               /\ \A w \in 0 .. k-1 : DirtyAt(cache[w], a) => r[k][a] = cache[w].data[a[2]]
    <3>1. ASSUME \A w \in 0 .. k-1 : ~DirtyAt(cache[w], a)
          PROVE  r[k][a] = m[a]
      BY <2>1, <2>4, <2>7, <3>1, Zenon DEF WrittenInto
    <3>2. ASSUME NEW w \in 0 .. k-1, DirtyAt(cache[w], a)
          PROVE  r[k][a] = cache[w].data[a[2]]
      <4>1. CASE w = k-1
        BY <2>4, <3>2, <4>1
      <4>2. CASE w \in 0 .. k-2
        <5>1. f[a] = cache[w].data[a[2]]
          BY <2>1, <2>7, <3>2, <4>2, Zenon DEF WrittenInto
        <5>2. ~DirtyAt(c, a)
          BY <2>5, <3>2, <4>2, Zenon
        <5> HIDE DEF f, c
        <5> QED
          BY <2>4, <5>1, <5>2
      <4> QED
        BY <2>6, <4>1, <4>2
    <3> QED
      BY <3>1, <3>2
  <2>9. k \in 0 .. Ways
    BY <1>1
  <2> QED
    BY <2>4, <2>8, <2>9, Zenon DEF WrittenInto
<1>6. Ways \in G
  <2> HIDE DEF G
  <2> QED
    BY <1>1, <1>4, <1>5, WriteBacks!Inductive
<1> QED
  BY <1>3, <1>6

-----------------------------------------------------------------------------
(* What keeps the data cache, the write buffer and memory coherent.  The   *)
(* definitions are those of DataPath, of the values instead of the         *)
(* variables, so that the parts of an action can be taken one by one.      *)

\* Pending and CleanAgrees, with the types they need.
Coherent(f, en, m, dc, s) ==
  /\ f \in [Lines -> SUBSET {"c", "b"}] /\ en \in {"on", "off"}
  /\ m \in Memories /\ dc \in Caches
  /\ s \in Seq(WbEntry) /\ Len(s) =< WbNum
  /\ NoDuplicate(dc)
  /\ \A w \in Way : dc[w].line # None => "c" \in f[dc[w].line]
  /\ \A i \in DOMAIN s : "b" \in f[s[i].pa[1]] /\ ~Hit(dc, s[i].pa[1])
  /\ en = "off" => s = <<>> /\ \A w \in Way : dc[w].dirty = {}
  /\ \A w \in Way :
       en = "on" /\ dc[w].line \in Lines \ CodeLines =>
         \A h \in Halves \ dc[w].dirty : dc[w].data[h] = m[<<dc[w].line, h>>]

\* Visible.
View(en, m, dc, s, a) ==
  IF en = "on" /\ Hit(dc, a[1]) THEN dc[Search(dc, a[1])].data[a[2]] ELSE Drain(m, s)[a]

LEMMA DataAddresses ==
  ASSUME NEW a \in DataAddress
  PROVE  /\ a \in Address
         /\ a[1] \in Lines \ CodeLines /\ a[2] \in Halves /\ a[1] # None
BY NoneAssumption DEF DataAddress, Address

LEMMA AddressPair ==
  ASSUME NEW a \in Address, NEW l, l = a[1]
  PROVE  <<l, a[2]>> = a
BY DEF Address

LEMMA SearchFinds ==
  ASSUME NEW dc, NoDuplicate(dc), NEW w \in Way, dc[w].line # None
  PROVE  Hit(dc, dc[w].line) /\ Search(dc, dc[w].line) = w
<1>1. \A x \in 0 .. w-1 : x \in Way /\ x # w
  BY SizeAssumption DEF Way
<1>2. \A x \in 0 .. w-1 : dc[x].line # dc[w].line
  BY <1>1 DEF NoDuplicate
<1>3. \A x \in Way : dc[x].line = dc[w].line => x = w
  BY DEF NoDuplicate
<1> QED
  BY <1>2, <1>3 DEF Hit, Search

\* What an access sees, by whether a way holds the address.
LEMMA ViewHit ==
  ASSUME NEW f, NEW en, NEW m, NEW dc, NEW s, Coherent(f, en, m, dc, s), en = "on",
         NEW w \in Way, NEW a \in Address, dc[w].line = a[1]
  PROVE  View(en, m, dc, s, a) = dc[w].data[a[2]]
<1>1. a[1] # None
  BY NoneAssumption DEF Address
<1> QED
  BY <1>1, SearchFinds DEF View, Coherent

LEMMA ViewMiss ==
  ASSUME NEW en, NEW m, NEW dc, NEW s, NEW a, ~(en = "on" /\ Hit(dc, a[1]))
  PROVE  View(en, m, dc, s, a) = Drain(m, s)[a]
BY DEF View

\* Two states in which every load of a data line returns the same.
SameView(en, m, dc, s, en2, m2, dc2, s2) ==
  \A a \in DataAddress : View(en2, m2, dc2, s2, a) = View(en, m, dc, s, a)

\* An address of a line in the data cache has no entry in the write buffer.
LEMMA NoEntryOfHit ==
  ASSUME NEW f, NEW en, NEW m, NEW dc, NEW s, Coherent(f, en, m, dc, s),
         NEW a \in Address, Hit(dc, a[1])
  PROVE  Drain(m, s)[a] = m[a]
<1>1. \A i \in DOMAIN s : s[i].pa # a
  BY DEF Coherent
<1> QED
  BY <1>1, DrainNone DEF Coherent

\* Nor has an address whose line is not bufferable.
LEMMA NoEntryOfUnbuffered ==
  ASSUME NEW f, NEW en, NEW m, NEW dc, NEW s, Coherent(f, en, m, dc, s),
         NEW a \in Address, "b" \notin f[a[1]]
  PROVE  Drain(m, s)[a] = m[a]
<1>1. \A i \in DOMAIN s : s[i].pa # a
  BY DEF Coherent
<1> QED
  BY <1>1, DrainNone DEF Coherent

LEMMA DrainEmpty ==
  ASSUME NEW m \in Memories, NEW a \in Address
  PROVE  Drain(m, <<>>)[a] = m[a]
<1>1. <<>> \in Seq(WbEntry) /\ DOMAIN <<>> = {}
  OBVIOUS
<1> QED
  BY <1>1, DrainNone

\* Memory may change where no data line is.
LEMMA CodeChange ==
  ASSUME NEW f, NEW en, NEW m, NEW dc, NEW s, Coherent(f, en, m, dc, s),
         NEW k \in Memories, \A a \in DataAddress : k[a] = m[a]
  PROVE  Coherent(f, en, k, dc, s) /\ SameView(en, m, dc, s, en, k, dc, s)
<1>1. ASSUME NEW l \in Lines \ CodeLines, NEW h \in Halves
      PROVE  k[<<l, h>>] = m[<<l, h>>]
  BY DEF DataAddress
<1>2. Coherent(f, en, k, dc, s)
  BY <1>1 DEF Coherent
<1>3. ASSUME NEW a \in DataAddress
      PROVE  View(en, k, dc, s, a) = View(en, m, dc, s, a)
  <2>1. a \in Address /\ k[a] = m[a]
    BY DataAddresses
  <2>2. Drain(k, s)[a] = Drain(m, s)[a]
    BY <2>1, DrainSame DEF Coherent
  <2> QED
    BY <2>2 DEF View
<1> QED
  BY <1>2, <1>3 DEF SameView

\* mmu_wb_drain_all
LEMMA DrainKeeps ==
  ASSUME NEW f, NEW en, NEW m, NEW dc, NEW s, Coherent(f, en, m, dc, s)
  PROVE  /\ Coherent(f, en, Drain(m, s), dc, <<>>)
         /\ SameView(en, m, dc, s, en, Drain(m, s), dc, <<>>)
<1> DEFINE k == Drain(m, s)
<1>1. k \in Memories
  BY DrainType DEF Coherent
<1>2. ASSUME NEW w \in Way, dc[w].line \in Lines, NEW h \in Halves
      PROVE  k[<<dc[w].line, h>>] = m[<<dc[w].line, h>>]
  <2>1. <<dc[w].line, h>> \in Address /\ Hit(dc, <<dc[w].line, h>>[1])
    BY <1>2 DEF Address, Hit
  <2> QED
    BY <2>1, NoEntryOfHit
<1>3. ASSUME NEW a \in DataAddress
      PROVE  View(en, k, dc, <<>>, a) = View(en, m, dc, s, a)
  <2>1. Drain(k, <<>>)[a] = k[a]
    BY <1>1, DrainEmpty, DataAddresses
  <2> QED
    BY <2>1 DEF View
<1> HIDE DEF k
<1>4. <<>> \in Seq(WbEntry) /\ Len(<<>>) = 0 /\ DOMAIN <<>> = {} /\ 0 =< WbNum
  BY SizeAssumption
<1>5. Coherent(f, en, k, dc, <<>>)
  BY <1>1, <1>2, <1>4 DEF Coherent
<1> QED
  BY <1>3, <1>5 DEF SameView, k

LEMMA InvalidLine ==
  Invalid.line = None /\ Invalid.dirty = {}
BY DEF Invalid

\* A way written back and emptied, by an invalidation or an eviction.
LEMMA EvictKeeps ==
  ASSUME NEW f, NEW en, NEW m, NEW dc, NEW s, Coherent(f, en, m, dc, s),
         NEW w \in Way
  PROVE  LET k  == WrittenBack(m, dc[w])
             d2 == [dc EXCEPT ![w] = Invalid]
         IN  Coherent(f, en, k, d2, s) /\ SameView(en, m, dc, s, en, k, d2, s)
<1> DEFINE k  == WrittenBack(m, dc[w])
           d2 == [dc EXCEPT ![w] = Invalid]
<1>1. /\ k \in Memories
      /\ \A a \in Address : k[a] = IF DirtyAt(dc[w], a) THEN dc[w].data[a[2]] ELSE m[a]
  <2>1. m \in Memories /\ dc[w] \in CacheLine \union {Invalid}
    BY DEF Coherent, Caches
  <2> QED
    BY <2>1, WrittenBackAt
<1>2. /\ d2 \in Caches /\ d2[w] = Invalid
      /\ \A x \in Way : x # w => d2[x] = dc[x]
  BY DEF Coherent, Caches
<1> HIDE DEF k, d2
<1>3. \A l \in Lines : Hit(d2, l) => Hit(dc, l)
  BY <1>2, InvalidLine, NoneAssumption DEF Hit
<1>4. ASSUME NEW x \in Way, x # w, NEW a \in Address, dc[x].line = a[1]
      PROVE  k[a] = m[a]
  <2>1. a[1] # None
    BY NoneAssumption DEF Address
  <2>2. dc[w].line # a[1]
    BY <1>4, <2>1 DEF Coherent, NoDuplicate
  <2> QED
    BY <1>1, <2>2 DEF DirtyAt
<1>5. Coherent(f, en, k, d2, s)
  <2>1. NoDuplicate(d2)
    BY <1>2, InvalidLine DEF Coherent, NoDuplicate
  <2>2. \A i \in DOMAIN s : "b" \in f[s[i].pa[1]] /\ ~Hit(d2, s[i].pa[1])
    <3>1. ASSUME NEW i \in DOMAIN s
          PROVE  s[i].pa[1] \in Lines
      <4>1. s[i] \in WbEntry
        BY DEF Coherent
      <4> QED
        BY <4>1 DEF WbEntry, Address
    <3> QED
      BY <1>3, <3>1 DEF Coherent
  <2>3. ASSUME NEW x \in Way, en = "on", d2[x].line \in Lines \ CodeLines,
               NEW h \in Halves \ d2[x].dirty
        PROVE  d2[x].data[h] = k[<<d2[x].line, h>>]
    <3>1. x # w /\ d2[x] = dc[x]
      BY <1>2, <2>3, InvalidLine, NoneAssumption
    <3> DEFINE a == <<dc[x].line, h>>
    <3>2. a \in Address /\ dc[x].line = a[1]
      BY <2>3, <3>1 DEF Address
    <3>3. k[a] = m[a]
      BY <1>4, <3>1, <3>2
    <3> QED
      BY <2>3, <3>1, <3>3 DEF Coherent
  <2>4. \A x \in Way : d2[x].line # None => "c" \in f[d2[x].line]
    BY <1>2, InvalidLine DEF Coherent
  <2>5. en = "off" => s = <<>> /\ \A x \in Way : d2[x].dirty = {}
    BY <1>2, InvalidLine DEF Coherent
  <2> QED
    BY <1>1, <1>2, <2>1, <2>2, <2>3, <2>4, <2>5 DEF Coherent
<1>6. ASSUME NEW a \in DataAddress
      PROVE  View(en, k, d2, s, a) = View(en, m, dc, s, a)
  <2>0. /\ a \in Address
        /\ a[1] \in Lines \ CodeLines /\ a[2] \in Halves /\ a[1] # None
    BY DataAddresses
  <2>1. CASE en = "on" /\ dc[w].line = a[1]
    <3>1. en = "on" /\ Hit(dc, a[1])
      BY <2>1 DEF Coherent, Hit
    <3>2. View(en, m, dc, s, a) = dc[w].data[a[2]]
      BY <2>0, <2>1, <3>1, ViewHit
    <3>3. ~Hit(d2, a[1])
      BY <1>2, <2>0, <2>1, InvalidLine DEF Coherent, NoDuplicate, Hit
    <3>4. Drain(k, s)[a] = k[a]
      <4>1. \A i \in DOMAIN s : s[i].pa # a
        BY <3>1 DEF Coherent
      <4> QED
        BY <1>1, <2>0, <4>1, DrainNone DEF Coherent
    <3>5. k[a] = dc[w].data[a[2]]
      <4>1. CASE a[2] \in dc[w].dirty
        BY <1>1, <2>0, <2>1, <4>1 DEF DirtyAt
      <4>2. CASE a[2] \notin dc[w].dirty
        <5>1. dc[w].data[a[2]] = m[<<dc[w].line, a[2]>>]
          BY <2>0, <2>1, <4>2 DEF Coherent
        <5>2. <<dc[w].line, a[2]>> = a
          BY <2>0, <2>1, AddressPair
        <5> QED
          BY <1>1, <2>0, <2>1, <4>2, <5>1, <5>2 DEF DirtyAt
      <4> QED
        BY <4>1, <4>2
    <3> QED
      BY <3>2, <3>3, <3>4, <3>5, ViewMiss
  <2>2. CASE en = "on" /\ dc[w].line # a[1] /\ Hit(dc, a[1])
    <3>1. PICK x \in Way : dc[x].line = a[1]
      BY <2>2 DEF Hit
    <3>2. en = "on" /\ x # w /\ d2[x] = dc[x]
      BY <1>2, <2>2, <3>1 DEF Coherent
    <3>3. View(en, m, dc, s, a) = dc[x].data[a[2]]
      BY <2>0, <3>1, <3>2, ViewHit
    <3>4. View(en, k, d2, s, a) = d2[x].data[a[2]]
      BY <1>5, <2>0, <3>1, <3>2, ViewHit
    <3> QED
      BY <3>2, <3>3, <3>4
  <2>3. CASE ~(en = "on" /\ Hit(dc, a[1]))
    <3>1. ~(en = "on" /\ Hit(d2, a[1]))
      BY <1>3, <2>0, <2>3
    <3>2. ~DirtyAt(dc[w], a)
      BY <2>3 DEF Coherent, DirtyAt, Hit
    <3>3. k[a] = m[a]
      BY <1>1, <2>0, <3>2
    <3>4. Drain(k, s)[a] = Drain(m, s)[a]
      BY <1>1, <2>0, <3>3, DrainSame DEF Coherent
    <3> QED
      BY <2>3, <3>1, <3>4, ViewMiss
  <2> QED
    BY <2>1, <2>2, <2>3 DEF Hit
<1> QED
  BY <1>5, <1>6 DEF SameView, k, d2

\* The allocation of a way for a line read from memory.
LEMMA FillKeeps ==
  ASSUME NEW f, NEW en, NEW m, NEW dc, NEW s, Coherent(f, en, m, dc, s), en = "on",
         NEW w \in Way, dc[w] = Invalid,
         NEW l \in Lines, ~Hit(dc, l), "c" \in f[l], \A i \in DOMAIN s : s[i].pa[1] # l
  PROVE  LET d2 == [dc EXCEPT ![w] = Filled(m, l)]
         IN  Coherent(f, en, m, d2, s) /\ SameView(en, m, dc, s, en, m, d2, s)
<1> DEFINE d2 == [dc EXCEPT ![w] = Filled(m, l)]
<1>1. /\ Filled(m, l) \in CacheLine
      /\ Filled(m, l).line = l /\ Filled(m, l).dirty = {}
      /\ \A h \in Halves : Filled(m, l).data[h] = m[<<l, h>>]
  BY DEF Filled, CacheLine, Coherent, Memories, Address
<1>2. /\ d2 \in Caches /\ d2[w] = Filled(m, l)
      /\ \A x \in Way : x # w => d2[x] = dc[x]
  BY <1>1 DEF Coherent, Caches
<1> HIDE DEF d2
<1>3. \A j : Hit(d2, j) => j = l \/ Hit(dc, j)
  BY <1>1, <1>2 DEF Hit
<1>4. Coherent(f, en, m, d2, s)
  <2>1. NoDuplicate(d2)
    BY <1>1, <1>2 DEF Coherent, NoDuplicate, Hit
  <2>2. \A i \in DOMAIN s : "b" \in f[s[i].pa[1]] /\ ~Hit(d2, s[i].pa[1])
    BY <1>3 DEF Coherent
  <2>3. \A x \in Way : d2[x].line \in Lines \ CodeLines =>
          \A h \in Halves \ d2[x].dirty : d2[x].data[h] = m[<<d2[x].line, h>>]
    BY <1>1, <1>2 DEF Coherent
  <2>4. \A x \in Way : d2[x].line # None => "c" \in f[d2[x].line]
    BY <1>1, <1>2 DEF Coherent
  <2> QED
    BY <1>2, <2>1, <2>2, <2>3, <2>4 DEF Coherent
<1>5. ASSUME NEW a \in DataAddress
      PROVE  View(en, m, d2, s, a) = View(en, m, dc, s, a)
  <2>0. a \in Address /\ a[2] \in Halves
    BY DataAddresses
  <2>1. CASE a[1] = l
    <3>1. View(en, m, d2, s, a) = m[a]
      <4>1. View(en, m, d2, s, a) = d2[w].data[a[2]]
        BY <1>1, <1>2, <1>4, <2>0, <2>1, ViewHit
      <4>2. <<l, a[2]>> = a
        BY <2>0, <2>1, AddressPair
      <4> QED
        BY <1>1, <1>2, <2>0, <4>1, <4>2
    <3>2. \A i \in DOMAIN s : s[i].pa # a
      BY <2>1, <2>0
    <3>3. Drain(m, s)[a] = m[a]
      BY <2>0, <3>2, DrainNone DEF Coherent
    <3> QED
      BY <2>1, <3>1, <3>3, ViewMiss
  <2>2. CASE a[1] # l /\ Hit(dc, a[1])
    <3>1. PICK x \in Way : dc[x].line = a[1]
      BY <2>2 DEF Hit
    <3>2. x # w
      BY <3>1, InvalidLine, DataAddresses
    <3> QED
      BY <1>2, <1>4, <2>0, <3>1, <3>2, ViewHit
  <2>3. CASE a[1] # l /\ ~Hit(dc, a[1])
    BY <1>3, <2>3 DEF View
  <2> QED
    BY <2>1, <2>2, <2>3
<1> QED
  BY <1>4, <1>5 DEF SameView, d2

\* Every way written back and emptied, by an invalidation of the whole cache.
LEMMA EvictAllKeeps ==
  ASSUME NEW f, NEW en, NEW m, NEW dc, NEW s, Coherent(f, en, m, dc, s)
  PROVE  LET k  == WrittenBackAll(m, dc)
             d2 == [w \in Way |-> Invalid]
         IN  Coherent(f, en, k, d2, s) /\ SameView(en, m, dc, s, en, k, d2, s)
<1> DEFINE k  == WrittenBackAll(m, dc)
           d2 == [w \in Way |-> Invalid]
<1>1. WrittenInto(k, m, dc, Ways)
  BY WriteBackAll DEF Coherent
<1>2. d2 \in Caches /\ \A x \in Way : d2[x] = Invalid
  BY DEF Caches
<1>3. 0 .. Ways-1 = Way
  BY DEF Way
<1> HIDE DEF k, d2
<1>4. k \in Memories
  BY <1>1 DEF WrittenInto
<1>5. \A l \in Lines : ~Hit(d2, l)
  BY <1>2, InvalidLine, NoneAssumption DEF Hit
<1>6. Coherent(f, en, k, d2, s)
  <2>1. NoDuplicate(d2)
    BY <1>2, InvalidLine DEF NoDuplicate
  <2>2. ASSUME NEW i \in DOMAIN s
        PROVE  "b" \in f[s[i].pa[1]] /\ ~Hit(d2, s[i].pa[1])
    <3>1. s[i] \in WbEntry
      BY DEF Coherent
    <3>2. s[i].pa[1] \in Lines
      BY <3>1 DEF WbEntry, Address
    <3> QED
      BY <1>5, <3>2 DEF Coherent
  <2>3. \A x \in Way : d2[x].line \notin Lines /\ d2[x].dirty = {} /\ d2[x].line = None
    BY <1>2, InvalidLine, NoneAssumption
  <2> QED
    BY <1>2, <1>4, <2>1, <2>2, <2>3 DEF Coherent
<1>7. ASSUME NEW a \in DataAddress
      PROVE  View(en, k, d2, s, a) = View(en, m, dc, s, a)
  <2>0. /\ a \in Address
        /\ a[1] \in Lines \ CodeLines /\ a[2] \in Halves /\ a[1] # None
    BY DataAddresses
  <2>1. View(en, k, d2, s, a) = Drain(k, s)[a]
    BY <1>5, <2>0, ViewMiss
  <2>2. CASE en = "on" /\ Hit(dc, a[1])
    <3>1. PICK w \in Way : dc[w].line = a[1]
      BY <2>2 DEF Hit
    <3>2. View(en, m, dc, s, a) = dc[w].data[a[2]]
      BY <2>0, <2>2, <3>1, ViewHit
    <3>3. Drain(k, s)[a] = k[a]
      <4>1. \A i \in DOMAIN s : s[i].pa # a
        BY <2>2 DEF Coherent
      <4> QED
        BY <1>4, <2>0, <4>1, DrainNone DEF Coherent
    <3>4. CASE a[2] \in dc[w].dirty
      <4>1. k[a] = dc[w].data[a[2]]
        BY <1>1, <1>3, <2>0, <3>1, <3>4 DEF WrittenInto, DirtyAt
      <4> QED
        BY <2>1, <3>2, <3>3, <4>1
    <3>5. CASE a[2] \notin dc[w].dirty
      <4>1. \A x \in Way : ~DirtyAt(dc[x], a)
        BY <2>0, <3>1, <3>5 DEF Coherent, NoDuplicate, DirtyAt
      <4>2. k[a] = m[a]
        BY <1>1, <1>3, <2>0, <4>1 DEF WrittenInto
      <4>3. dc[w].data[a[2]] = m[<<dc[w].line, a[2]>>]
        BY <2>0, <2>2, <3>1, <3>5 DEF Coherent
      <4>4. <<dc[w].line, a[2]>> = a
        BY <2>0, <3>1, AddressPair
      <4> QED
        BY <2>1, <3>2, <3>3, <4>2, <4>3, <4>4
    <3> QED
      BY <3>4, <3>5
  <2>3. CASE ~(en = "on" /\ Hit(dc, a[1]))
    <3>1. \A x \in Way : ~DirtyAt(dc[x], a)
      BY <2>0, <2>3 DEF Coherent, DirtyAt, Hit
    <3>2. k[a] = m[a]
      BY <1>1, <1>3, <2>0, <3>1 DEF WrittenInto
    <3>3. Drain(k, s)[a] = Drain(m, s)[a]
      BY <1>4, <2>0, <3>2, DrainSame DEF Coherent
    <3> QED
      BY <2>1, <2>3, <3>3, ViewMiss
  <2> QED
    BY <2>2, <2>3
<1> QED
  BY <1>6, <1>7 DEF SameView, k, d2

\* A way written back and kept, by a clean.
LEMMA CleanKeeps ==
  ASSUME NEW f, NEW en, NEW m, NEW dc, NEW s, Coherent(f, en, m, dc, s),
         NEW w \in Way
  PROVE  LET k  == WrittenBack(m, dc[w])
             d2 == [dc EXCEPT ![w].dirty = {}]
         IN  Coherent(f, en, k, d2, s) /\ SameView(en, m, dc, s, en, k, d2, s)
<1> DEFINE k  == WrittenBack(m, dc[w])
           d2 == [dc EXCEPT ![w].dirty = {}]
<1>1. /\ k \in Memories
      /\ \A a \in Address : k[a] = IF DirtyAt(dc[w], a) THEN dc[w].data[a[2]] ELSE m[a]
  <2>1. m \in Memories /\ dc[w] \in CacheLine \union {Invalid}
    BY DEF Coherent, Caches
  <2> QED
    BY <2>1, WrittenBackAt
<1>2. /\ d2 \in Caches /\ d2[w].dirty = {}
      /\ \A x \in Way : d2[x].line = dc[x].line /\ d2[x].data = dc[x].data
      /\ \A x \in Way : x # w => d2[x] = dc[x]
  <2>1. dc \in [Way -> CacheLine \union {Invalid}]
    BY DEF Coherent, Caches
  <2>2. CASE dc[w] \in CacheLine
    BY <2>1, <2>2 DEF Caches, CacheLine
  <2>3. CASE dc[w] = Invalid
    <3>1. [dc[w] EXCEPT !.dirty = {}] = Invalid
      BY <2>3 DEF Invalid
    <3> QED
      BY <2>1, <2>3, <3>1, InvalidLine DEF Caches
  <2> QED
    BY <2>1, <2>2, <2>3
<1> HIDE DEF k, d2
<1>3. \A l : Hit(d2, l) <=> Hit(dc, l)
  BY <1>2 DEF Hit
<1>4. ASSUME NEW x \in Way, x # w, NEW a \in Address, dc[x].line = a[1]
      PROVE  k[a] = m[a]
  <2>1. a[1] # None
    BY NoneAssumption DEF Address
  <2>2. dc[w].line # a[1]
    BY <1>4, <2>1 DEF Coherent, NoDuplicate
  <2> QED
    BY <1>1, <2>2 DEF DirtyAt
<1>5. Coherent(f, en, k, d2, s)
  <2>1. NoDuplicate(d2)
    BY <1>2 DEF Coherent, NoDuplicate
  <2>2. \A i \in DOMAIN s : "b" \in f[s[i].pa[1]] /\ ~Hit(d2, s[i].pa[1])
    BY <1>3 DEF Coherent
  <2>3. ASSUME NEW x \in Way, en = "on", d2[x].line \in Lines \ CodeLines,
               NEW h \in Halves \ d2[x].dirty
        PROVE  d2[x].data[h] = k[<<d2[x].line, h>>]
    <3> DEFINE a == <<dc[x].line, h>>
    <3>1. /\ a \in Address /\ dc[x].line = a[1] /\ a[2] = h
          /\ d2[x].line = dc[x].line /\ d2[x].data = dc[x].data
      BY <1>2, <2>3 DEF Address
    <3>2. CASE x # w
      <4>1. k[a] = m[a]
        BY <1>4, <3>1, <3>2
      <4> QED
        BY <1>2, <2>3, <3>1, <3>2, <4>1 DEF Coherent
    <3>3. CASE x = w /\ h \in dc[w].dirty
      BY <1>1, <3>1, <3>3 DEF DirtyAt
    <3>4. CASE x = w /\ h \notin dc[w].dirty
      <4>1. k[a] = m[a]
        BY <1>1, <3>1, <3>4 DEF DirtyAt
      <4> QED
        BY <2>3, <3>1, <3>4, <4>1 DEF Coherent
    <3> QED
      BY <3>2, <3>3, <3>4
  <2>4. \A x \in Way : d2[x].line # None => "c" \in f[d2[x].line]
    BY <1>2 DEF Coherent
  <2>5. en = "off" => s = <<>> /\ \A x \in Way : d2[x].dirty = {}
    BY <1>2 DEF Coherent
  <2> QED
    BY <1>1, <1>2, <2>1, <2>2, <2>3, <2>4, <2>5 DEF Coherent
<1>6. ASSUME NEW a \in DataAddress
      PROVE  View(en, k, d2, s, a) = View(en, m, dc, s, a)
  <2>0. a \in Address
    BY DataAddresses
  <2>1. CASE en = "on" /\ Hit(dc, a[1])
    <3>1. PICK x \in Way : dc[x].line = a[1]
      BY <2>1 DEF Hit
    <3>2. View(en, m, dc, s, a) = dc[x].data[a[2]]
      BY <2>0, <2>1, <3>1, ViewHit
    <3>3. View(en, k, d2, s, a) = d2[x].data[a[2]]
      BY <1>2, <1>5, <2>0, <2>1, <3>1, ViewHit
    <3> QED
      BY <1>2, <3>2, <3>3
  <2>2. CASE ~(en = "on" /\ Hit(dc, a[1]))
    <3>1. ~(en = "on" /\ Hit(d2, a[1]))
      BY <1>3, <2>2
    <3>2. ~DirtyAt(dc[w], a)
      BY <2>2 DEF Coherent, DirtyAt, Hit
    <3>3. k[a] = m[a]
      BY <1>1, <2>0, <3>2
    <3>4. Drain(k, s)[a] = Drain(m, s)[a]
      BY <1>1, <2>0, <3>3, DrainSame DEF Coherent
    <3> QED
      BY <2>2, <3>1, <3>4, ViewMiss
  <2> QED
    BY <2>1, <2>2
<1> QED
  BY <1>5, <1>6 DEF SameView, k, d2

\* The oldest entry of the write buffer written out to make room.
LEMMA MakeRoomKeeps ==
  ASSUME NEW f, NEW en, NEW m, NEW dc, NEW s, Coherent(f, en, m, dc, s), s # <<>>
  PROVE  LET k == Put(m, Head(s))
         IN  /\ Coherent(f, en, k, dc, Tail(s))
             /\ SameView(en, m, dc, s, en, k, dc, Tail(s))
<1> DEFINE k == Put(m, Head(s))
           t == Tail(s)
           e == Head(s)
<1>1. /\ s \in Seq(WbEntry) /\ m \in Memories
      /\ t \in Seq(WbEntry) /\ Len(t) = Len(s) - 1 /\ Len(s) \in Nat /\ e = s[1]
      /\ 1 \in DOMAIN s /\ e \in WbEntry
      /\ \A i \in DOMAIN t : i+1 \in DOMAIN s /\ t[i] = s[i+1]
  BY DEF Coherent
<1>2. e.pa \in Address /\ e.data \in Val /\ ~Hit(dc, e.pa[1])
  BY <1>1 DEF WbEntry, Coherent
<1>3. k \in Memories /\ \A a \in Address : a # e.pa => k[a] = m[a]
  BY <1>1, <1>2 DEF Put, Memories
<1>4. \A a \in Address : Drain(k, t)[a] = Drain(m, s)[a]
  BY <1>1, DrainHead
<1> HIDE DEF k, t, e
<1>5. Coherent(f, en, k, dc, t)
  <2>1. ASSUME NEW x \in Way, en = "on", dc[x].line \in Lines \ CodeLines,
               NEW h \in Halves \ dc[x].dirty
        PROVE  dc[x].data[h] = k[<<dc[x].line, h>>]
    <3> DEFINE a == <<dc[x].line, h>>
    <3>1. a \in Address /\ dc[x].line = a[1]
      BY <2>1 DEF Address
    <3>2. a # e.pa
      BY <1>2, <3>1 DEF Hit
    <3>3. k[a] = m[a]
      BY <1>3, <3>1, <3>2
    <3> QED
      BY <2>1, <3>3 DEF Coherent
  <2>2. \A i \in DOMAIN t : "b" \in f[t[i].pa[1]] /\ ~Hit(dc, t[i].pa[1])
    BY <1>1 DEF Coherent
  <2>3. Len(t) =< WbNum /\ en # "off"
    BY <1>1, SizeAssumption DEF Coherent
  <2> QED
    BY <1>1, <1>3, <2>1, <2>2, <2>3 DEF Coherent
<1>6. ASSUME NEW a \in DataAddress
      PROVE  View(en, k, dc, t, a) = View(en, m, dc, s, a)
  BY <1>4, DataAddresses DEF View
<1> QED
  BY <1>5, <1>6 DEF SameView, k, t

-----------------------------------------------------------------------------
(* Stores.                                                                 *)

\* The second state differs from the first by a store of v to a.
StoredView(en, m, dc, s, m2, dc2, s2, a, v) ==
  \A b \in DataAddress :
    View(en, m2, dc2, s2, b) = IF b = a THEN v ELSE View(en, m, dc, s, b)

\* update_cache of the way that holds the address.
LEMMA Updates ==
  ASSUME NEW cache \in Caches, NEW a \in Address, NEW v \in Val
  PROVE  LET c2 == UpdatedOnHit(cache, a, v)
         IN  /\ c2 \in Caches
             /\ \A w \in Way :
                  /\ c2[w].line = cache[w].line
                  /\ cache[w].line # a[1] => c2[w] = cache[w]
                  /\ cache[w].line = a[1] =>
                       /\ c2[w].dirty = cache[w].dirty \union {a[2]}
                       /\ c2[w].data[a[2]] = v
                       /\ \A h \in Halves : h # a[2] => c2[w].data[h] = cache[w].data[h]
<1> DEFINE c2 == UpdatedOnHit(cache, a, v)
<1>1. a[1] \in Lines /\ a[1] # None /\ a[2] \in Halves
  BY NoneAssumption DEF Address
<1>2. ASSUME NEW w \in Way
      PROVE  /\ c2[w] \in CacheLine \union {Invalid}
             /\ c2[w].line = cache[w].line
             /\ cache[w].line # a[1] => c2[w] = cache[w]
             /\ cache[w].line = a[1] =>
                  /\ c2[w].dirty = cache[w].dirty \union {a[2]}
                  /\ c2[w].data[a[2]] = v
                  /\ \A h \in Halves : h # a[2] => c2[w].data[h] = cache[w].data[h]
  <2>1. CASE cache[w].line = a[1]
    <3>1. cache[w] \in CacheLine
      BY <1>1, <2>1, InvalidLine DEF Caches
    <3>2. c2[w] = Updated(cache[w], a[2], v)
      BY <2>1 DEF UpdatedOnHit
    <3>3. /\ c2[w].line = cache[w].line
          /\ c2[w].dirty = cache[w].dirty \union {a[2]}
          /\ c2[w].data = [cache[w].data EXCEPT ![a[2]] = v]
          /\ c2[w] = [line |-> c2[w].line, dirty |-> c2[w].dirty, data |-> c2[w].data]
      <4> HIDE DEF c2
      <4> QED
        BY <3>1, <3>2 DEF Updated, CacheLine
    <3>4. /\ cache[w].line \in Lines /\ cache[w].dirty \subseteq Halves
          /\ cache[w].data \in [Halves -> Val]
      BY <3>1 DEF CacheLine
    <3> HIDE DEF c2
    <3>5. c2[w].data \in [Halves -> Val]
      BY <3>3, <3>4
    <3>6. c2[w] \in CacheLine
      BY <1>1, <3>3, <3>4, <3>5 DEF CacheLine
    <3> QED
      BY <1>1, <2>1, <3>3, <3>4, <3>6
  <2>2. CASE cache[w].line # a[1]
    BY <2>2 DEF UpdatedOnHit, Caches
  <2> QED
    BY <2>1, <2>2
<1>3. c2 = [w \in Way |-> c2[w]]
  BY DEF UpdatedOnHit
<1> HIDE DEF c2
<1>4. c2 \in Caches
  BY <1>2, <1>3 DEF Caches
<1> QED
  BY <1>2, <1>4 DEF c2

LEMMA StoreHitKeeps ==
  ASSUME NEW f, NEW en, NEW m, NEW dc, NEW s, Coherent(f, en, m, dc, s), en = "on",
         NEW a \in Address, NEW v \in Val, Hit(dc, a[1])
  PROVE  LET d2 == UpdatedOnHit(dc, a, v)
         IN  Coherent(f, en, m, d2, s) /\ StoredView(en, m, dc, s, m, d2, s, a, v)
<1> DEFINE d2 == UpdatedOnHit(dc, a, v)
<1>1. /\ d2 \in Caches
      /\ \A w \in Way :
           /\ d2[w].line = dc[w].line
           /\ dc[w].line # a[1] => d2[w] = dc[w]
           /\ dc[w].line = a[1] =>
                /\ d2[w].dirty = dc[w].dirty \union {a[2]}
                /\ d2[w].data[a[2]] = v
                /\ \A h \in Halves : h # a[2] => d2[w].data[h] = dc[w].data[h]
  BY Updates DEF Coherent
<1> HIDE DEF d2
<1>2. \A l : Hit(d2, l) <=> Hit(dc, l)
  BY <1>1 DEF Hit
<1>3. Coherent(f, en, m, d2, s)
  <2>1. NoDuplicate(d2)
    BY <1>1 DEF Coherent, NoDuplicate
  <2>2. \A i \in DOMAIN s : "b" \in f[s[i].pa[1]] /\ ~Hit(d2, s[i].pa[1])
    BY <1>2 DEF Coherent
  <2>3. ASSUME NEW x \in Way, d2[x].line \in Lines \ CodeLines,
               NEW h \in Halves \ d2[x].dirty
        PROVE  d2[x].data[h] = m[<<d2[x].line, h>>]
    <3>1. h \notin dc[x].dirty /\ d2[x].data[h] = dc[x].data[h]
      BY <1>1, <2>3
    <3> QED
      BY <1>1, <2>3, <3>1 DEF Coherent
  <2>4. \A x \in Way : d2[x].line # None => "c" \in f[d2[x].line]
    BY <1>1 DEF Coherent
  <2> QED
    BY <1>1, <2>1, <2>2, <2>3, <2>4 DEF Coherent
<1>4. ASSUME NEW b \in DataAddress
      PROVE  View(en, m, d2, s, b) = IF b = a THEN v ELSE View(en, m, dc, s, b)
  <2>0. b \in Address /\ b[2] \in Halves
    BY DataAddresses
  <2>1. CASE Hit(dc, b[1])
    <3>1. PICK w \in Way : dc[w].line = b[1]
      BY <2>1 DEF Hit
    <3>2. View(en, m, dc, s, b) = dc[w].data[b[2]]
      BY <2>0, <3>1, ViewHit
    <3>3. View(en, m, d2, s, b) = d2[w].data[b[2]]
      BY <1>1, <1>3, <2>0, <3>1, ViewHit
    <3>4. CASE b = a
      BY <1>1, <3>1, <3>3, <3>4
    <3>5. CASE b # a
      <4>1. ~(b[1] = a[1] /\ b[2] = a[2])
        BY <2>0, <3>5 DEF Address
      <4> QED
        BY <1>1, <2>0, <3>1, <3>2, <3>3, <3>5, <4>1
    <3> QED
      BY <3>4, <3>5
  <2>2. CASE ~Hit(dc, b[1])
    BY <1>2, <2>2 DEF View
  <2> QED
    BY <2>1, <2>2
<1> QED
  BY <1>3, <1>4 DEF StoredView, d2

\* The entry appended by mmu_wb_write_bytes.
LEMMA EnqueueKeeps ==
  ASSUME NEW f, NEW en, NEW m, NEW dc, NEW s, Coherent(f, en, m, dc, s), en = "on",
         NEW a \in Address, NEW v \in Val, ~Hit(dc, a[1]), "b" \in f[a[1]],
         Len(s) < WbNum
  PROVE  LET s2 == Append(s, [pa |-> a, data |-> v])
         IN  Coherent(f, en, m, dc, s2) /\ StoredView(en, m, dc, s, m, dc, s2, a, v)
<1> DEFINE e  == [pa |-> a, data |-> v]
           s2 == Append(s, e)
<1>1. e \in WbEntry /\ e.pa = a /\ e.data = v
  BY DEF WbEntry
<1> HIDE DEF e
<1>2. /\ s \in Seq(WbEntry) /\ s2 \in Seq(WbEntry) /\ Len(s2) = Len(s) + 1
      /\ Len(s) \in Nat
      /\ \A i \in DOMAIN s2 : s2[i] = e \/ (i \in DOMAIN s /\ s2[i] = s[i])
  BY <1>1 DEF Coherent
<1>3. ASSUME NEW b \in Address
      PROVE  Drain(m, s2)[b] = IF b = a THEN v ELSE Drain(m, s)[b]
  BY <1>1, <1>2, DrainAppend DEF Coherent
<1> HIDE DEF s2
<1>4. Coherent(f, en, m, dc, s2)
  <2>1. \A i \in DOMAIN s2 : "b" \in f[s2[i].pa[1]] /\ ~Hit(dc, s2[i].pa[1])
    BY <1>1, <1>2 DEF Coherent
  <2>2. Len(s2) =< WbNum
    BY <1>2, SizeAssumption
  <2> QED
    BY <1>2, <2>1, <2>2 DEF Coherent
<1>5. ASSUME NEW b \in DataAddress
      PROVE  View(en, m, dc, s2, b) = IF b = a THEN v ELSE View(en, m, dc, s, b)
  <2>1. b \in Address
    BY DataAddresses
  <2>2. CASE Hit(dc, b[1])
    BY <2>2 DEF View
  <2>3. CASE ~Hit(dc, b[1])
    BY <1>3, <2>1, <2>3 DEF View
  <2> QED
    BY <2>2, <2>3
<1> QED
  BY <1>4, <1>5 DEF StoredView, s2, e

\* A store that goes to memory.
LEMMA StoreThroughKeeps ==
  ASSUME NEW f, NEW en, NEW m, NEW dc, Coherent(f, en, m, dc, <<>>),
         NEW a \in Address, NEW v \in Val, ~(en = "on" /\ Hit(dc, a[1]))
  PROVE  LET k == [m EXCEPT ![a] = v]
         IN  /\ Coherent(f, en, k, dc, <<>>)
             /\ StoredView(en, m, dc, <<>>, k, dc, <<>>, a, v)
<1> DEFINE k == [m EXCEPT ![a] = v]
<1>1. /\ k \in Memories /\ m \in Memories
      /\ \A b \in Address : k[b] = IF b = a THEN v ELSE m[b]
  BY DEF Coherent, Memories
<1> HIDE DEF k
<1>2. Coherent(f, en, k, dc, <<>>)
  <2>1. ASSUME NEW x \in Way, en = "on", dc[x].line \in Lines \ CodeLines,
               NEW h \in Halves \ dc[x].dirty
        PROVE  dc[x].data[h] = k[<<dc[x].line, h>>]
    <3> DEFINE b == <<dc[x].line, h>>
    <3>1. b \in Address /\ dc[x].line = b[1]
      BY <2>1 DEF Address
    <3>2. b # a
      BY <2>1, <3>1 DEF Hit
    <3>3. k[b] = m[b]
      BY <1>1, <3>1, <3>2
    <3> QED
      BY <2>1, <3>3 DEF Coherent
  <2> QED
    BY <1>1, <2>1 DEF Coherent
<1>3. ASSUME NEW b \in DataAddress
      PROVE  View(en, k, dc, <<>>, b) = IF b = a THEN v ELSE View(en, m, dc, <<>>, b)
  <2>1. b \in Address
    BY DataAddresses
  <2>2. Drain(k, <<>>)[b] = k[b] /\ Drain(m, <<>>)[b] = m[b]
    BY <1>1, <2>1, DrainEmpty
  <2>3. CASE en = "on" /\ Hit(dc, b[1])
    BY <2>3 DEF View
  <2>4. CASE ~(en = "on" /\ Hit(dc, b[1]))
    BY <1>1, <2>1, <2>2, <2>4, ViewMiss
  <2> QED
    BY <2>3, <2>4
<1> QED
  BY <1>2, <1>3 DEF StoredView, k

-----------------------------------------------------------------------------
(* The control register.                                                   *)

LEMMA TurnOffKeeps ==
  ASSUME NEW f, NEW m, NEW dc, Coherent(f, "on", m, dc, <<>>),
         \A w \in Way : dc[w].dirty = {}
  PROVE  Coherent(f, "off", m, dc, <<>>) /\ SameView("on", m, dc, <<>>, "off", m, dc, <<>>)
<1>1. Coherent(f, "off", m, dc, <<>>)
  BY DEF Coherent
<1>2. ASSUME NEW a \in DataAddress
      PROVE  View("off", m, dc, <<>>, a) = View("on", m, dc, <<>>, a)
  <2>0. /\ a \in Address
        /\ a[1] \in Lines \ CodeLines /\ a[2] \in Halves /\ a[1] # None
    BY DataAddresses
  <2>1. CASE Hit(dc, a[1])
    <3>1. PICK w \in Way : dc[w].line = a[1]
      BY <2>1 DEF Hit
    <3>2. View("on", m, dc, <<>>, a) = dc[w].data[a[2]]
      BY <2>0, <3>1, ViewHit
    <3>3. dc[w].data[a[2]] = m[<<dc[w].line, a[2]>>]
      BY <2>0, <3>1 DEF Coherent
    <3>4. <<dc[w].line, a[2]>> = a
      BY <2>0, <3>1, AddressPair
    <3>5. Drain(m, <<>>)[a] = m[a]
      BY <2>0, DrainEmpty DEF Coherent
    <3> QED
      BY <3>2, <3>3, <3>4, <3>5, ViewMiss
  <2>2. CASE ~Hit(dc, a[1])
    BY <2>2 DEF View
  <2> QED
    BY <2>1, <2>2
<1> QED
  BY <1>1, <1>2 DEF SameView

LEMMA TurnOnKeeps ==
  ASSUME NEW f, NEW m, NEW dc, NEW s, Coherent(f, "off", m, dc, s),
         \A w \in Way : dc[w].line = None
  PROVE  Coherent(f, "on", m, dc, s) /\ SameView("off", m, dc, s, "on", m, dc, s)
<1>1. Coherent(f, "on", m, dc, s)
  BY NoneAssumption DEF Coherent
<1>2. ASSUME NEW a \in DataAddress
      PROVE  View("on", m, dc, s, a) = View("off", m, dc, s, a)
  BY DataAddresses DEF View, Hit
<1> QED
  BY <1>1, <1>2 DEF SameView

-----------------------------------------------------------------------------
(* The invariant by its parts, and the actions.                            *)

mode == IF enabled THEN "on" ELSE "off"

Data == Coherent(flags, mode, mem, dcache, wb)
Instructions == icache \in Caches /\ NoDuplicate(icache) /\ FetchedOnly
Others ==
  /\ dcycle \in Way /\ icycle \in Way /\ enabled \in BOOLEAN
  /\ result \in {<<>>} \union (Address \X Val)

\* What an action does to the loads of data lines.
Unseen == SameView(mode, mem, dcache, wb, mode', mem', dcache', wb')
Stored(a, v) ==
  /\ mode' = mode
  /\ StoredView(mode, mem, dcache, wb, mem', dcache', wb', a, v)

LEMMA InvParts == IInv => Data /\ Instructions /\ Others
BY DEF IInv, TypeOK, Pending, Clean, CleanAgrees, Data, Instructions, Others,
       mode, Coherent, Memories, Caches

LEMMA PartsInv == Data' /\ Instructions' /\ Others' => IInv'
BY DEF IInv, TypeOK, Pending, Clean, CleanAgrees, Data, Instructions, Others,
       mode, Coherent, Memories, Caches

LEMMA ViewOfVisible ==
  ASSUME NEW a
  PROVE  /\ Visible(a) = View(mode, mem, dcache, wb, a)
         /\ Visible(a)' = View(mode', mem', dcache', wb', a)
BY DEF Visible, View, mode, Drained, Drain

LEMMA SameViewAgain ==
  ASSUME NEW en, NEW m, NEW dc, NEW s, NEW en2, NEW m2, NEW dc2, NEW s2,
         NEW en3, NEW m3, NEW dc3, NEW s3,
         SameView(en, m, dc, s, en2, m2, dc2, s2),
         SameView(en2, m2, dc2, s2, en3, m3, dc3, s3)
  PROVE  SameView(en, m, dc, s, en3, m3, dc3, s3)
BY DEF SameView

LEMMA SameViewSelf ==
  ASSUME NEW en, NEW m, NEW dc, NEW s
  PROVE  SameView(en, m, dc, s, en, m, dc, s)
BY DEF SameView

\* A line of the instruction cache written back.
LEMMA CodeWrittenBack ==
  ASSUME NEW m \in Memories, Instructions, NEW w \in Way
  PROVE  /\ WrittenBack(m, icache[w]) \in Memories
         /\ \A a \in DataAddress : WrittenBack(m, icache[w])[a] = m[a]
<1>1. icache[w] \in CacheLine \union {Invalid}
  BY DEF Instructions, Caches
<1>2. /\ WrittenBack(m, icache[w]) \in Memories
      /\ \A a \in Address :
           WrittenBack(m, icache[w])[a] =
             IF DirtyAt(icache[w], a) THEN icache[w].data[a[2]] ELSE m[a]
  BY <1>1, WrittenBackAt
<1>3. ASSUME NEW a \in DataAddress
      PROVE  a \in Address /\ ~DirtyAt(icache[w], a)
  BY DataAddresses DEF Instructions, FetchedOnly, DirtyAt
<1> QED
  BY <1>2, <1>3

LEMMA CodeAllWrittenBack ==
  ASSUME NEW m \in Memories, Instructions
  PROVE  /\ WrittenBackAll(m, icache) \in Memories
         /\ \A a \in DataAddress : WrittenBackAll(m, icache)[a] = m[a]
<1>1. WrittenInto(WrittenBackAll(m, icache), m, icache, Ways)
  BY WriteBackAll DEF Instructions
<1>2. ASSUME NEW a \in DataAddress
      PROVE  a \in Address /\ \A w \in 0 .. Ways-1 : ~DirtyAt(icache[w], a)
  BY DataAddresses DEF Instructions, FetchedOnly, DirtyAt, Way
<1> QED
  BY <1>1, <1>2 DEF WrittenInto

\* Lines of the instruction cache emptied.
LEMMA InstructionsEmptied ==
  ASSUME Instructions, icache' \in Caches,
         \A w \in Way : icache'[w] = icache[w] \/ icache'[w] = Invalid
  PROVE  Instructions'
BY InvalidLine DEF Instructions, NoDuplicate, FetchedOnly

LEMMA NextWayType ==
  ASSUME NEW cycle \in Way
  PROVE  NextWay(cycle) \in Way
<1>1. cycle + 1 \in Nat /\ Ways \in Nat /\ Ways > 0
  BY SizeAssumption DEF Way
<1>2. (cycle + 1) % Ways \in 0 .. Ways-1
  BY <1>1
<1> QED
  BY <1>2 DEF NextWay, Way

LEMMA LoadMissKeeps ==
  ASSUME Data, Others, NEW a \in Address, enabled, enabled' = enabled,
         flags' = flags, ~Hit(dcache, a[1]), LoadMiss(a)
  PROVE  /\ Data' /\ Unseen /\ dcycle' \in Way
         /\ result' \in Address \X Val
         /\ a \in DataAddress => result' = <<a, View(mode, mem, dcache, wb, a)>>
<1> DEFINE l  == a[1]
           m1 == IF "b" \in flags[l] THEN Drained(mem) ELSE mem
           s1 == IF "b" \in flags[l] THEN <<>> ELSE wb
           m2 == IF "c" \in flags[l] THEN WrittenBack(m1, dcache[dcycle]) ELSE m1
           d2 == [dcache EXCEPT ![dcycle] = Invalid]
           d3 == [d2 EXCEPT ![dcycle] = Filled(m2, l)]
<1>1. l \in Lines /\ l # None /\ a[2] \in Halves /\ <<l, a[2]>> = a
  BY NoneAssumption, AddressPair DEF Address
<1>2. /\ mode = "on" /\ mode' = mode /\ wb' = s1 /\ mem' = m2
      /\ result' = <<a, m2[a]>>
  BY DEF mode, LoadMiss
<1>3. Coherent(flags, mode, m1, dcache, s1) /\ SameView(mode, mem, dcache, wb, mode, m1, dcache, s1)
  <2>1. CASE "b" \in flags[l]
    <3>1. m1 = Drain(mem, wb) /\ s1 = <<>>
      BY <2>1 DEF Drained, Drain
    <3> QED
      BY <3>1, DrainKeeps DEF Data
  <2>2. CASE "b" \notin flags[l]
    BY <2>2, SameViewSelf DEF Data
  <2> QED
    BY <2>1, <2>2
<1>4. \A i \in DOMAIN s1 : s1[i].pa[1] # l
  <2>1. CASE "b" \in flags[l]
    BY <2>1
  <2>2. CASE "b" \notin flags[l]
    BY <2>2 DEF Data, Coherent
  <2> QED
    BY <2>1, <2>2
<1>5. m1 \in Memories
  BY <1>3 DEF Coherent
<1> HIDE DEF m1, s1
<1>6. CASE "c" \notin flags[l]
  <2>1. m2 = m1 /\ dcache' = dcache /\ dcycle' = dcycle
    BY <1>6 DEF LoadMiss
  <2>2. Data' /\ Unseen
    <3>1. mem' = m1 /\ dcache' = dcache /\ wb' = s1 /\ mode' = mode
      BY <1>2, <2>1
    <3> QED
      BY <1>3, <3>1 DEF Data, Unseen
  <2>3. result' \in Address \X Val
    BY <1>2, <1>5, <2>1 DEF Memories
  <2>4. ASSUME a \in DataAddress
        PROVE  m1[a] = View(mode, mem, dcache, wb, a)
    <3>1. View(mode, m1, dcache, s1, a) = Drain(m1, s1)[a]
      BY ViewMiss
    <3>2. \A i \in DOMAIN s1 : s1[i].pa # a
      BY <1>4
    <3>3. Drain(m1, s1)[a] = m1[a]
      BY <1>3, <3>2, DrainNone DEF Coherent
    <3> QED
      BY <1>3, <2>4, <3>1, <3>3 DEF SameView
  <2> QED
    BY <1>2, <2>1, <2>2, <2>3, <2>4 DEF Others
<1>7. CASE "c" \in flags[l]
  <2>1. m2 = WrittenBack(m1, dcache[dcycle]) /\ dcycle \in Way
    BY <1>7 DEF Others
  <2>2. dcache' = d3 /\ dcycle' = NextWay(dcycle)
    <3>1. dcache' = [dcache EXCEPT ![dcycle] = Filled(m2, l)] /\ dcycle' = NextWay(dcycle)
      BY <1>7 DEF LoadMiss, m1
    <3>2. dcache \in Caches
      BY DEF Data, Coherent
    <3> HIDE DEF m2
    <3> QED
      BY <3>1, <3>2 DEF Caches
  <2>3. dcycle' \in Way
    BY <2>1, <2>2, NextWayType
  <2> HIDE DEF m2, d3
  <2>4. Coherent(flags, mode, m2, d2, s1) /\ SameView(mode, m1, dcache, s1, mode, m2, d2, s1)
    BY <1>3, <2>1, EvictKeeps
  <2>5. d2[dcycle] = Invalid /\ ~Hit(d2, l)
    <3>1. dcache \in Caches
      BY DEF Data, Coherent
    <3> QED
      BY <1>1, <2>1, <3>1, InvalidLine DEF Caches, Hit
  <2> HIDE DEF d2
  <2>6. Coherent(flags, mode, m2, d3, s1) /\ SameView(mode, m2, d2, s1, mode, m2, d3, s1)
    BY <1>1, <1>2, <1>4, <1>7, <2>1, <2>4, <2>5, FillKeeps DEF d3
  <2>7. SameView(mode, mem, dcache, wb, mode, m2, d3, s1)
    BY <1>3, <2>4, <2>6, SameViewAgain
  <2>8. Data' /\ Unseen
    BY <1>2, <2>2, <2>6, <2>7 DEF Data, Unseen, m2
  <2>9. m2 \in Memories
    BY <2>4 DEF Coherent
  <2>10. result' \in Address \X Val
    BY <1>2, <2>9 DEF Memories, m2
  <2>11. ASSUME a \in DataAddress
         PROVE  m2[a] = View(mode, mem, dcache, wb, a)
    <3>1. d3[dcycle].line = l /\ d3[dcycle].data[a[2]] = m2[a]
      <4>1. d2 \in Caches
        BY <2>4 DEF Coherent
      <4> QED
        BY <1>1, <2>1, <4>1 DEF Caches, Filled, d3
    <3>2. View(mode, m2, d3, s1, a) = d3[dcycle].data[a[2]]
      BY <1>2, <2>1, <2>6, <3>1, ViewHit
    <3> QED
      BY <2>7, <2>11, <3>1, <3>2 DEF SameView
  <2> QED
    BY <1>2, <2>3, <2>8, <2>10, <2>11 DEF m2
<1> QED
  BY <1>6, <1>7

LEMMA LoadKeeps ==
  ASSUME Data, Instructions, Others, NEW a \in Address, Load(a)
  PROVE  /\ Data' /\ Instructions' /\ Others' /\ Unseen
         /\ result' # <<>> /\ result'[1] = a
         /\ a \in DataAddress => result' = <<a, View(mode, mem, dcache, wb, a)>>
<1>0. /\ flags' = flags /\ icache' = icache /\ icycle' = icycle /\ enabled' = enabled
      /\ mode' = mode
  BY DEF Load, mode
<1>1. Instructions'
  BY <1>0 DEF Instructions, NoDuplicate, FetchedOnly
<1>2. /\ Data' /\ Unseen /\ dcycle' \in Way /\ result' \in Address \X Val
      /\ a \in DataAddress => result' = <<a, View(mode, mem, dcache, wb, a)>>
  <2>1. CASE ~enabled
    <3>1. UNCHANGED <<mem, dcache, dcycle, wb>> /\ result' = <<a, mem[a]>>
      BY <2>1 DEF Load
    <3>2. mode = "off" /\ wb = <<>> /\ mem \in Memories
      BY <2>1 DEF mode, Data, Coherent
    <3>3. Data' /\ Unseen
      BY <1>0, <3>1, SameViewSelf DEF Data, Unseen
    <3>4. View(mode, mem, dcache, wb, a) = mem[a]
      BY <3>2, ViewMiss, DrainEmpty
    <3>5. result' \in Address \X Val
      BY <3>1, <3>2 DEF Memories
    <3> QED
      BY <3>1, <3>3, <3>4, <3>5 DEF Others
  <2>2. CASE enabled /\ Hit(dcache, a[1])
    <3>1. /\ UNCHANGED <<mem, dcache, dcycle, wb>>
          /\ result' = <<a, dcache[Search(dcache, a[1])].data[a[2]]>>
      BY <2>2 DEF Load
    <3>2. PICK w \in Way : dcache[w].line = a[1]
      BY <2>2 DEF Hit
    <3>3. a[1] # None /\ a[1] \in Lines /\ a[2] \in Halves
      BY NoneAssumption DEF Address
    <3>4. Search(dcache, a[1]) = w
      BY <3>2, <3>3, SearchFinds DEF Data, Coherent
    <3>5. mode = "on"
      BY <2>2 DEF mode
    <3>6. View(mode, mem, dcache, wb, a) = dcache[w].data[a[2]]
      BY <3>2, <3>5, ViewHit DEF Data
    <3>7. dcache[w].data[a[2]] \in Val
      <4>1. dcache[w] \in CacheLine
        BY <3>2, <3>3, InvalidLine DEF Data, Coherent, Caches
      <4> QED
        BY <3>3, <4>1 DEF CacheLine
    <3>8. Data' /\ Unseen
      BY <1>0, <3>1, SameViewSelf DEF Data, Unseen
    <3> QED
      BY <3>1, <3>4, <3>6, <3>7, <3>8 DEF Others
  <2>3. CASE enabled /\ ~Hit(dcache, a[1])
    <3>1. LoadMiss(a)
      BY <2>3 DEF Load
    <3> QED
      BY <1>0, <2>3, <3>1, LoadMissKeeps
  <2> QED
    BY <2>1, <2>2, <2>3
<1>3. result' # <<>>
  BY <1>2
<1>4. result'[1] = a
  BY DEF Load, LoadMiss
<1> QED
  BY <1>0, <1>1, <1>2, <1>3, <1>4 DEF Others

LEMMA StoreKeeps ==
  ASSUME Data, Instructions, Others, NEW a \in Address, NEW v \in Val, Store(a, v)
  PROVE  Data' /\ Instructions' /\ Others' /\ Stored(a, v)
<1>0. /\ flags' = flags /\ dcycle' = dcycle /\ icycle' = icycle /\ enabled' = enabled
      /\ mode' = mode /\ icache' = UpdatedOnHit(icache, a, v) /\ result' = <<>>
  BY DEF Store, mode
<1>1. Instructions'
  <2>1. icache' \in Caches /\ \A w \in Way : icache'[w].line = icache[w].line
    BY <1>0, Updates DEF Instructions
  <2> QED
    BY <2>1 DEF Instructions, NoDuplicate, FetchedOnly
<1>2. Others'
  BY <1>0 DEF Others
<1>3. CASE ~enabled
  <2>1. mode = "off" /\ wb = <<>>
    BY <1>3 DEF mode, Data, Coherent
  <2>2. mem' = [mem EXCEPT ![a] = v] /\ dcache' = dcache /\ wb' = <<>>
    BY <1>3, <2>1 DEF Store
  <2>3. /\ Coherent(flags, mode, [mem EXCEPT ![a] = v], dcache, <<>>)
        /\ StoredView(mode, mem, dcache, <<>>, [mem EXCEPT ![a] = v], dcache, <<>>, a, v)
    BY <2>1, StoreThroughKeeps DEF Data
  <2> QED
    BY <1>0, <1>1, <1>2, <2>1, <2>2, <2>3 DEF Data, Stored
<1>4. CASE enabled /\ Hit(dcache, a[1])
  <2>1. mode = "on"
    BY <1>4 DEF mode
  <2>2. dcache' = UpdatedOnHit(dcache, a, v) /\ mem' = mem /\ wb' = wb
    BY <1>4 DEF Store
  <2>3. /\ Coherent(flags, mode, mem, UpdatedOnHit(dcache, a, v), wb)
        /\ StoredView(mode, mem, dcache, wb, mem, UpdatedOnHit(dcache, a, v), wb, a, v)
    BY <1>4, <2>1, StoreHitKeeps DEF Data
  <2> QED
    BY <1>0, <1>1, <1>2, <2>2, <2>3 DEF Data, Stored
<1>5. CASE enabled /\ ~Hit(dcache, a[1])
  <2>1. mode = "on"
    BY <1>5 DEF mode
  <2>2. StoreMiss(a, v) /\ dcache' = dcache
    BY <1>5 DEF Store
  <2>3. CASE "b" \notin flags[a[1]]
    <3> DEFINE d == Drain(mem, wb)
               k == [d EXCEPT ![a] = v]
    <3>1. mem' = k /\ wb' = <<>>
      BY <2>2, <2>3 DEF StoreMiss, Drained, Drain
    <3>2. /\ Coherent(flags, mode, d, dcache, <<>>)
          /\ SameView(mode, mem, dcache, wb, mode, d, dcache, <<>>)
      BY DrainKeeps DEF Data
    <3> HIDE DEF d
    <3>3. /\ Coherent(flags, mode, k, dcache, <<>>)
          /\ StoredView(mode, d, dcache, <<>>, k, dcache, <<>>, a, v)
      BY <1>5, <3>2, StoreThroughKeeps
    <3> HIDE DEF k
    <3>4. StoredView(mode, mem, dcache, wb, k, dcache, <<>>, a, v)
      BY <3>2, <3>3 DEF SameView, StoredView
    <3> QED
      BY <1>0, <1>1, <1>2, <2>2, <3>1, <3>3, <3>4 DEF Data, Stored
  <2>4. CASE "b" \in flags[a[1]] /\ Len(wb) # WbNum
    <3> DEFINE s2 == Append(wb, [pa |-> a, data |-> v])
    <3>1. mem' = mem /\ wb' = s2
      BY <2>2, <2>4 DEF StoreMiss, WbWrite
    <3>2. Len(wb) < WbNum
      BY <2>4, SizeAssumption DEF Data, Coherent
    <3>3. /\ Coherent(flags, mode, mem, dcache, s2)
          /\ StoredView(mode, mem, dcache, wb, mem, dcache, s2, a, v)
      BY <1>5, <2>1, <2>4, <3>2, EnqueueKeeps DEF Data
    <3> HIDE DEF s2
    <3> QED
      BY <1>0, <1>1, <1>2, <2>2, <3>1, <3>3 DEF Data, Stored
  <2>5. CASE "b" \in flags[a[1]] /\ Len(wb) = WbNum
    <3> DEFINE k  == Put(mem, Head(wb))
               s1 == Tail(wb)
               s2 == Append(s1, [pa |-> a, data |-> v])
    <3>1. mem' = k /\ wb' = s2
      BY <2>2, <2>5 DEF StoreMiss, WbWrite
    <3>2. wb # <<>> /\ Len(s1) < WbNum
      BY <2>5, SizeAssumption DEF Data, Coherent
    <3>3. /\ Coherent(flags, mode, k, dcache, s1)
          /\ SameView(mode, mem, dcache, wb, mode, k, dcache, s1)
      BY <3>2, MakeRoomKeeps DEF Data
    <3> HIDE DEF k, s1
    <3>4. /\ Coherent(flags, mode, k, dcache, s2)
          /\ StoredView(mode, k, dcache, s1, k, dcache, s2, a, v)
      BY <1>5, <2>1, <2>5, <3>2, <3>3, EnqueueKeeps
    <3> HIDE DEF s2
    <3>5. StoredView(mode, mem, dcache, wb, k, dcache, s2, a, v)
      BY <3>3, <3>4 DEF SameView, StoredView
    <3> QED
      BY <1>0, <1>1, <1>2, <2>2, <3>1, <3>4, <3>5 DEF Data, Stored
  <2> QED
    BY <2>3, <2>4, <2>5
<1> QED
  BY <1>3, <1>4, <1>5

\* What the other actions have in common: a load of a data line would return
\* what it did.
Quiet == Data' /\ Instructions' /\ Others' /\ Unseen /\ result' = <<>>

LEMMA FetchKeeps ==
  ASSUME Data, Instructions, Others, NEW l \in CodeLines, Fetch(l)
  PROVE  Quiet
<1> DEFINE k == WrittenBack(mem, icache[icycle])
<1>0. /\ UNCHANGED <<flags, dcache, dcycle, wb, enabled>> /\ mode' = mode
      /\ mem' = k /\ icache' = [icache EXCEPT ![icycle] = Filled(k, l)]
      /\ icycle' = NextWay(icycle) /\ result' = <<>> /\ ~Hit(icache, l)
  BY DEF Fetch, mode
<1>1. mem \in Memories /\ icycle \in Way /\ l \in Lines
  BY LinesAssumption DEF Data, Coherent, Others
<1>2. k \in Memories /\ \A a \in DataAddress : k[a] = mem[a]
  BY <1>1, CodeWrittenBack
<1> HIDE DEF k
<1>3. Data' /\ Unseen
  BY <1>0, <1>2, CodeChange DEF Data, Unseen
<1>4. Filled(k, l) \in CacheLine /\ Filled(k, l).line = l
  BY <1>1, <1>2 DEF Filled, CacheLine, Memories, Address
<1>5. Instructions'
  <2>1. /\ icache' \in Caches /\ icache'[icycle] = Filled(k, l)
        /\ \A w \in Way : w # icycle => icache'[w] = icache[w]
    BY <1>0, <1>1, <1>4 DEF Instructions, Caches
  <2>2. NoDuplicate(icache')
    BY <1>0, <1>4, <2>1 DEF Instructions, NoDuplicate, Hit
  <2>3. FetchedOnly'
    BY <1>4, <2>1 DEF Instructions, FetchedOnly
  <2> QED
    BY <2>1, <2>2, <2>3 DEF Instructions, NoDuplicate
<1>6. Others'
  BY <1>0, <1>1, NextWayType DEF Others
<1> QED
  BY <1>0, <1>3, <1>5, <1>6 DEF Quiet

\* The operations of coprocessor 15 that only write back, clean and empty.
LEMMA OperationKeeps ==
  ASSUME Data, Instructions, Others, Operation, enabled' = enabled,
         \/ WbDrain
         \/ \E w \in Way : DCacheClean(w) \/ DCacheInvalidate(w) \/ ICacheInvalidate(w)
         \/ DCacheInvalidateAll \/ ICacheInvalidateAll \/ InvalidateBoth
  PROVE  Quiet
<1>0. /\ flags' = flags /\ dcycle' = dcycle /\ icycle' = icycle /\ mode' = mode
      /\ result' = <<>> /\ Others'
  BY DEF Operation, mode, Others
<1>1. mem \in Memories /\ \A w \in Way : Invalid \in CacheLine \union {Invalid}
  BY DEF Data, Coherent
<1>2. ASSUME icache' = icache
      PROVE  Instructions'
  BY <1>2 DEF Instructions, NoDuplicate, FetchedOnly
<1>3. CASE WbDrain
  <2>1. UNCHANGED <<dcache, icache>> /\ mem' = Drain(mem, wb) /\ wb' = <<>>
    BY <1>3 DEF WbDrain, Drained, Drain
  <2>2. Data' /\ Unseen
    BY <1>0, <2>1, DrainKeeps DEF Data, Unseen
  <2> QED
    BY <1>0, <1>2, <2>1, <2>2 DEF Quiet
<1>4. ASSUME NEW w \in Way, DCacheClean(w)
      PROVE  Quiet
  <2> DEFINE k  == WrittenBack(mem, dcache[w])
             d2 == [dcache EXCEPT ![w].dirty = {}]
  <2>1. UNCHANGED <<icache, wb>> /\ mem' = k /\ dcache' = d2
    BY <1>4 DEF DCacheClean
  <2>2. Coherent(flags, mode, k, d2, wb) /\ SameView(mode, mem, dcache, wb, mode, k, d2, wb)
    BY CleanKeeps DEF Data
  <2> HIDE DEF k, d2
  <2>3. Data' /\ Unseen
    BY <1>0, <2>1, <2>2 DEF Data, Unseen
  <2> QED
    BY <1>0, <1>2, <2>1, <2>3 DEF Quiet
<1>5. ASSUME NEW w \in Way, DCacheInvalidate(w)
      PROVE  Quiet
  <2> DEFINE k  == WrittenBack(mem, dcache[w])
             d2 == [dcache EXCEPT ![w] = Invalid]
  <2>1. UNCHANGED <<icache, wb>> /\ mem' = k /\ dcache' = d2
    BY <1>5 DEF DCacheInvalidate
  <2>2. Coherent(flags, mode, k, d2, wb) /\ SameView(mode, mem, dcache, wb, mode, k, d2, wb)
    BY EvictKeeps DEF Data
  <2> HIDE DEF k, d2
  <2>3. Data' /\ Unseen
    BY <1>0, <2>1, <2>2 DEF Data, Unseen
  <2> QED
    BY <1>0, <1>2, <2>1, <2>3 DEF Quiet
<1>6. ASSUME NEW w \in Way, ICacheInvalidate(w)
      PROVE  Quiet
  <2> DEFINE k == WrittenBack(mem, icache[w])
  <2>1. UNCHANGED <<dcache, wb>> /\ mem' = k /\ icache' = [icache EXCEPT ![w] = Invalid]
    BY <1>6 DEF ICacheInvalidate
  <2>2. k \in Memories /\ \A a \in DataAddress : k[a] = mem[a]
    BY <1>1, CodeWrittenBack
  <2> HIDE DEF k
  <2>3. Data' /\ Unseen
    BY <1>0, <2>1, <2>2, CodeChange DEF Data, Unseen
  <2>4. icache' \in Caches /\ \A x \in Way : icache'[x] = icache[x] \/ icache'[x] = Invalid
    BY <2>1 DEF Instructions, Caches
  <2>5. Instructions'
    BY <2>4, InstructionsEmptied
  <2> QED
    BY <1>0, <2>3, <2>5 DEF Quiet
<1>7. CASE DCacheInvalidateAll
  <2> DEFINE k  == WrittenBackAll(mem, dcache)
             d2 == [w \in Way |-> Invalid]
  <2>1. UNCHANGED <<icache, wb>> /\ mem' = k /\ dcache' = d2
    BY <1>7 DEF DCacheInvalidateAll
  <2>2. Coherent(flags, mode, k, d2, wb) /\ SameView(mode, mem, dcache, wb, mode, k, d2, wb)
    BY EvictAllKeeps DEF Data
  <2> HIDE DEF k, d2
  <2>3. Data' /\ Unseen
    BY <1>0, <2>1, <2>2 DEF Data, Unseen
  <2> QED
    BY <1>0, <1>2, <2>1, <2>3 DEF Quiet
<1>8. CASE ICacheInvalidateAll
  <2> DEFINE k == WrittenBackAll(mem, icache)
  <2>1. UNCHANGED <<dcache, wb>> /\ mem' = k /\ icache' = [w \in Way |-> Invalid]
    BY <1>8 DEF ICacheInvalidateAll
  <2>2. k \in Memories /\ \A a \in DataAddress : k[a] = mem[a]
    BY <1>1, CodeAllWrittenBack
  <2> HIDE DEF k
  <2>3. Data' /\ Unseen
    BY <1>0, <2>1, <2>2, CodeChange DEF Data, Unseen
  <2>4. icache' \in Caches /\ \A x \in Way : icache'[x] = Invalid
    BY <2>1 DEF Caches
  <2>5. Instructions'
    BY <2>4, InstructionsEmptied
  <2> QED
    BY <1>0, <2>3, <2>5 DEF Quiet
<1>9. CASE InvalidateBoth
  <2> DEFINE k  == WrittenBackAll(mem, icache)
             k2 == WrittenBackAll(k, dcache)
             d2 == [w \in Way |-> Invalid]
  <2>1. wb' = wb /\ mem' = k2 /\ dcache' = d2 /\ icache' = d2
    BY <1>9 DEF InvalidateBoth
  <2>2. k \in Memories /\ \A a \in DataAddress : k[a] = mem[a]
    BY <1>1, CodeAllWrittenBack
  <2> HIDE DEF k
  <2>3. /\ Coherent(flags, mode, k, dcache, wb)
        /\ SameView(mode, mem, dcache, wb, mode, k, dcache, wb)
    BY <2>2, CodeChange DEF Data
  <2>4. Coherent(flags, mode, k2, d2, wb) /\ SameView(mode, k, dcache, wb, mode, k2, d2, wb)
    BY <2>3, EvictAllKeeps
  <2>5. icache' \in Caches /\ \A x \in Way : icache'[x] = Invalid
    BY <2>1 DEF Caches
  <2> HIDE DEF k2, d2
  <2>6. SameView(mode, mem, dcache, wb, mode, k2, d2, wb)
    BY <2>3, <2>4, SameViewAgain
  <2>7. Data' /\ Unseen
    BY <1>0, <2>1, <2>4, <2>6 DEF Data, Unseen
  <2>8. Instructions'
    BY <2>5, InstructionsEmptied
  <2> QED
    BY <1>0, <2>7, <2>8 DEF Quiet
<1> QED
  BY <1>3, <1>4, <1>5, <1>6, <1>7, <1>8, <1>9

LEMMA ControlKeeps ==
  ASSUME Data, Instructions, Others, WriteControl
  PROVE  Quiet
<1>0. /\ UNCHANGED <<flags, mem, dcache, icache, dcycle, icycle, wb>>
      /\ enabled' = ~enabled /\ result' = <<>>
  BY DEF WriteControl, Operation
<1>1. Instructions' /\ Others'
  BY <1>0 DEF Instructions, NoDuplicate, FetchedOnly, Others
<1>2. CASE enabled
  <2>1. mode = "on" /\ mode' = "off" /\ wb = <<>> /\ \A w \in Way : dcache[w].dirty = {}
    BY <1>0, <1>2 DEF WriteControl, Clean, mode
  <2>2. Data' /\ Unseen
    BY <1>0, <2>1, TurnOffKeeps DEF Data, Unseen
  <2> QED
    BY <1>0, <1>1, <2>2 DEF Quiet
<1>3. CASE ~enabled
  <2>1. mode = "off" /\ mode' = "on" /\ \A w \in Way : dcache[w].line = None
    BY <1>0, <1>3 DEF WriteControl, mode
  <2>2. Data' /\ Unseen
    BY <1>0, <2>1, TurnOnKeeps DEF Data, Unseen
  <2> QED
    BY <1>0, <1>1, <2>2 DEF Quiet
<1> QED
  BY <1>2, <1>3

-----------------------------------------------------------------------------
(* The theorems.                                                           *)

LEMMA InitParts == Init => Data /\ Instructions /\ Others /\ mode = "off" /\ wb = <<>>
<1> SUFFICES ASSUME Init
             PROVE  Data /\ Instructions /\ Others /\ mode = "off" /\ wb = <<>>
  OBVIOUS
<1>1. /\ mode = "off" /\ wb = <<>> /\ enabled = FALSE /\ result = <<>>
      /\ dcycle = 0 /\ icycle = 0 /\ icache = dcache
      /\ \A w \in Way : dcache[w] = Invalid
      /\ dcache \in Caches /\ mem \in Memories
      /\ flags \in [Lines -> SUBSET {"c", "b"}]
  BY DEF Init, mode, Caches, Memories
<1>2. NoDuplicate(dcache)
  BY <1>1, InvalidLine DEF NoDuplicate
<1>3. Data
  <2>1. wb \in Seq(WbEntry) /\ Len(wb) =< WbNum /\ DOMAIN wb = {}
    BY <1>1, SizeAssumption
  <2> QED
    BY <1>1, <1>2, <2>1, InvalidLine DEF Data, Coherent
<1>4. Instructions
  BY <1>1, <1>2, InvalidLine DEF Instructions, FetchedOnly
<1>5. 0 \in Way
  BY SizeAssumption DEF Way
<1> QED
  BY <1>1, <1>3, <1>4, <1>5 DEF Others

\* Every step keeps the invariant and is a load, a store or nothing to see.
LEMMA NextParts ==
  ASSUME Data, Instructions, Others, [Next]_vars
  PROVE  /\ Data' /\ Instructions' /\ Others'
         /\ \/ \E a \in Address :
                 /\ Unseen /\ result' # <<>> /\ result'[1] = a
                 /\ a \in DataAddress => result' = <<a, View(mode, mem, dcache, wb, a)>>
            \/ \E a \in Address, v \in Val : Stored(a, v) /\ result' = <<>>
            \/ Unseen /\ result' \in {<<>>, result}
<1>1. ASSUME NEW a \in Address, Load(a)
      PROVE  /\ Data' /\ Instructions' /\ Others' /\ Unseen
             /\ result' # <<>> /\ result'[1] = a
             /\ a \in DataAddress => result' = <<a, View(mode, mem, dcache, wb, a)>>
  BY <1>1, LoadKeeps
<1>2. ASSUME NEW a \in Address, NEW v \in Val, Store(a, v)
      PROVE  Data' /\ Instructions' /\ Others' /\ Stored(a, v) /\ result' = <<>>
  BY <1>2, StoreKeeps DEF Store
<1>3. ASSUME NEW l \in CodeLines, Fetch(l)
      PROVE  Quiet
  BY <1>3, FetchKeeps
<1>4. CASE \/ WbDrain
           \/ \E w \in Way : DCacheClean(w) \/ DCacheInvalidate(w) \/ ICacheInvalidate(w)
           \/ DCacheInvalidateAll \/ ICacheInvalidateAll \/ InvalidateBoth
  <2>1. Operation /\ enabled' = enabled
    BY <1>4 DEF WbDrain, DCacheClean, DCacheInvalidate, ICacheInvalidate,
                DCacheInvalidateAll, ICacheInvalidateAll, InvalidateBoth
  <2> QED
    BY <1>4, <2>1, OperationKeeps DEF Quiet
<1>5. CASE WriteControl
  BY <1>5, ControlKeeps DEF Quiet
<1>6. CASE UNCHANGED vars
  <2>1. /\ flags' = flags /\ mem' = mem /\ dcache' = dcache /\ icache' = icache
        /\ dcycle' = dcycle /\ icycle' = icycle /\ wb' = wb /\ enabled' = enabled
        /\ result' = result
    BY <1>6 DEF vars, caches
  <2>2. mode' = mode
    BY <2>1 DEF mode
  <2>3. Data' /\ Instructions' /\ Others' /\ Unseen
    BY <2>1, <2>2, SameViewSelf
       DEF Data, Instructions, Others, Unseen, NoDuplicate, FetchedOnly
  <2> QED
    BY <2>1, <2>3
<1> QED
  BY <1>1, <1>2, <1>3, <1>4, <1>5, <1>6 DEF Next, Quiet

(***************************************************************************)
(* What memory lacks is pending where it belongs: a clean half of a data   *)
(* line agrees with memory, no line is in two ways, and what waits in the  *)
(* write buffer belongs to bufferable lines the cache does not hold.       *)
(***************************************************************************)
THEOREM DataPathInvariance == Spec => []IInv
<1>1. Init => IInv
  <2> SUFFICES ASSUME Init
               PROVE  IInv
    OBVIOUS
  <2>1. Data /\ Instructions /\ Others
    BY InitParts
  <2> QED
    BY <2>1 DEF IInv, TypeOK, Pending, Clean, CleanAgrees, Data, Instructions,
                Others, mode, Coherent, Memories, Caches
<1>2. IInv /\ [Next]_vars => IInv'
  BY InvParts, NextParts, PartsInv
<1> QED
  BY <1>1, <1>2, PTL DEF Spec

\* What the program sees of the data lines.
content == [a \in DataAddress |-> Visible(a)]
returned == IF result # <<>> /\ result[1] \in DataAddress THEN result ELSE <<>>

LEMMA ContentAt ==
  /\ DOMAIN content = DataAddress /\ DOMAIN content' = DataAddress
  /\ \A a \in DataAddress : /\ content[a] = View(mode, mem, dcache, wb, a)
                            /\ content'[a] = View(mode', mem', dcache', wb', a)
BY ViewOfVisible DEF content

LEMMA ContentUnseen ==
  ASSUME Unseen
  PROVE  content' = content
BY ContentAt DEF Unseen, SameView, content

LEMMA StepRefines ==
  ASSUME IInv, [Next]_vars
  PROVE  [MemoryOf!Next]_<<content, returned>>
<1>1. CASE \E a \in Address :
             /\ Unseen /\ result' # <<>> /\ result'[1] = a
             /\ a \in DataAddress => result' = <<a, View(mode, mem, dcache, wb, a)>>
  <2>1. PICK a \in Address :
          /\ Unseen /\ result' # <<>> /\ result'[1] = a
          /\ a \in DataAddress => result' = <<a, View(mode, mem, dcache, wb, a)>>
    BY <1>1
  <2>2. content' = content
    BY <2>1, ContentUnseen
  <2>3. CASE a \in DataAddress
    <3>1. returned' = <<a, content[a]>>
      BY <2>1, <2>3, ContentAt DEF returned
    <3>2. MemoryOf!Load(a)
      BY <2>2, <3>1 DEF MemoryOf!Load, content, returned
    <3> QED
      BY <2>3, <3>2 DEF MemoryOf!Next
  <2>4. CASE a \notin DataAddress
    <3>1. returned' = <<>>
      BY <2>1, <2>4 DEF returned
    <3>2. MemoryOf!Forget
      BY <2>2, <3>1 DEF MemoryOf!Forget, MemoryOf!NoResult, content, returned
    <3> QED
      BY <3>2 DEF MemoryOf!Next
  <2> QED
    BY <2>3, <2>4
<1>2. CASE \E a \in Address, v \in Val : Stored(a, v) /\ result' = <<>>
  <2>1. PICK a \in Address, v \in Val : Stored(a, v) /\ result' = <<>>
    BY <1>2
  <2>2. returned' = <<>>
    BY <2>1 DEF returned
  <2>3. \A b \in DataAddress : content'[b] = IF b = a THEN v ELSE content[b]
    BY <2>1, ContentAt DEF Stored, StoredView
  <2>4. content' = [content EXCEPT ![a] = v]
    <3>1. content = [b \in DataAddress |-> content[b]] /\ content' = [b \in DataAddress |-> content'[b]]
      BY DEF content
    <3> HIDE DEF content
    <3> QED
      BY <2>3, <3>1
  <2>5. CASE a \in DataAddress
    <3>1. MemoryOf!Store(a, v)
      BY <2>2, <2>4 DEF MemoryOf!Store, MemoryOf!NoResult, content, returned
    <3> QED
      BY <2>5, <3>1 DEF MemoryOf!Next
  <2>6. CASE a \notin DataAddress
    <3>1. content' = content
      <4>1. \A b \in DataAddress : content'[b] = content[b]
        BY <2>3, <2>6
      <4>2. content = [b \in DataAddress |-> content[b]] /\ content' = [b \in DataAddress |-> content'[b]]
        BY DEF content
      <4> QED
        BY <4>1, <4>2
    <3>2. MemoryOf!Forget
      BY <2>2, <3>1 DEF MemoryOf!Forget, MemoryOf!NoResult, content, returned
    <3> QED
      BY <3>2 DEF MemoryOf!Next
  <2> QED
    BY <2>5, <2>6
<1>3. CASE Unseen /\ result' = <<>>
  <2>1. content' = content /\ returned' = <<>>
    BY <1>3, ContentUnseen DEF returned
  <2>2. MemoryOf!Forget
    BY <2>1 DEF MemoryOf!Forget, MemoryOf!NoResult, content, returned
  <2> QED
    BY <2>2 DEF MemoryOf!Next
<1>4. CASE Unseen /\ result' = result
  <2>1. content' = content /\ returned' = returned
    BY <1>4, ContentUnseen DEF returned
  <2> QED
    BY <2>1
<1> QED
  BY <1>1, <1>2, <1>3, <1>4, InvParts, NextParts

LEMMA InitRefines == Init => MemoryOf!Init
<1> SUFFICES ASSUME Init
             PROVE  MemoryOf!Init
  OBVIOUS
<1>1. Data /\ mode = "off" /\ wb = <<>>
  BY InitParts
<1>2. ASSUME NEW a \in DataAddress
      PROVE  content[a] \in Val
  <2>1. content[a] = Drain(mem, wb)[a]
    BY <1>1, ContentAt, ViewMiss
  <2>2. a \in Address /\ mem \in Memories
    BY <1>1, DataAddresses DEF Data, Coherent
  <2> QED
    BY <1>1, <2>1, <2>2, DrainEmpty DEF Memories
<1>3. content \in [DataAddress -> Val]
  <2>1. content = [b \in DataAddress |-> content[b]]
    BY DEF content
  <2> QED
    BY <1>2, <2>1
<1>4. returned = <<>>
  BY DEF Init, returned
<1> QED
  BY <1>3, <1>4 DEF MemoryOf!Init, MemoryOf!NoResult, content, returned

(***************************************************************************)
(* For the lines that are not fetched from, every load returns the last    *)
(* value stored, whatever the flags of the lines, however many ways and    *)
(* entries there are, and in whatever order lines are evicted, drained,    *)
(* cleaned and invalidated.                                                *)
(***************************************************************************)
THEOREM DataPathImplementation == Spec => ImplementsMemory
<1>1. Init => MemoryOf!Init
  BY InitRefines
<1>2. IInv /\ [Next]_vars => [MemoryOf!Next]_<<content, returned>>
  BY StepRefines
<1> QED
  BY <1>1, <1>2, DataPathInvariance, PTL
     DEF Spec, ImplementsMemory, MemoryOf!Spec, content, returned
=============================================================================
