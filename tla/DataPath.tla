------------------------------ MODULE DataPath ------------------------------
(***************************************************************************)
(* The memory accesses of the ARM926EJ-S instruction set simulator         *)
(* (src/src/iss/arch/arm/arm926ejs.cpp) through its data cache,            *)
(* instruction cache and write buffer (src/src/iss/arch/arm/mmu/cache.cpp, *)
(* wb.cpp).                                                                *)
(*                                                                         *)
(* An address is a line and a half of it, each half one word, the grain of *)
(* the dirty flags.  Addresses are translated to themselves and accesses   *)
(* are of a word; a cache has one set.  Software drains and cleans before  *)
(* it turns the data cache off and invalidates it before it turns it on.   *)
(***************************************************************************)
EXTENDS Integers, Sequences, SequencesExt

CONSTANTS
  Lines,     \* line addresses
  CodeLines, \* the lines instructions are fetched from
  Halves,    \* the halves of a line
  Val,       \* what a word holds
  Ways,      \* ways of each cache
  WbNum      \* entries of the write buffer (8)

ASSUME LinesAssumption == CodeLines \subseteq Lines
ASSUME SizeAssumption == Ways \in Nat \ {0} /\ WbNum \in Nat \ {0}

VARIABLES
  flags,          \* the tlb_c_flag ("c") and tlb_b_flag ("b") of each line
  mem,            \* the memory on the bus
  dcache, icache, \* ways of the caches, see CacheLine
  dcycle, icycle, \* the next way to allocate
  wb,             \* the write buffer, oldest entry first
  enabled,        \* MMU_DCacheEnabled
  result          \* what the last load returned, <<>> after anything else

caches == <<dcache, icache, dcycle, icycle>>
vars == <<flags, mem, caches, wb, enabled, result>>

None == 0 \* tag 0 of an invalid line

\* The tag of a valid line has its valid flag set.
ASSUME NoneAssumption == None \notin Lines

Way == 0 .. Ways-1
Address == Lines \X Halves
DataAddress == (Lines \ CodeLines) \X Halves

CacheLine == [line : Lines, dirty : SUBSET Halves, data : [Halves -> Val]]
WbEntry == [pa : Address, data : Val]

\* What an invalid line holds is never looked at.
Invalid == [line |-> None, dirty |-> {}, data |-> <<>>]

Init ==
  /\ flags \in [Lines -> SUBSET {"c", "b"}]
  /\ mem \in [Address -> Val]
  /\ dcache = [w \in Way |-> Invalid] /\ icache = dcache
  /\ dcycle = 0 /\ icycle = 0
  /\ wb = <<>>
  /\ enabled = FALSE
  /\ result = <<>>

-----------------------------------------------------------------------------
(* Caches.                                                                 *)

Hit(cache, l) == \E w \in Way : cache[w].line = l

\* mmu_cache_search
Search(cache, l) ==
  CHOOSE w \in Way : cache[w].line = l /\ \A x \in 0 .. w-1 : cache[x].line # l

\* Slip: the last half is written at the address of the first.
WrittenBackFirst(m, c) ==
  [a \in DOMAIN m |->
     IF a[1] = c.line /\ a[2] = 1 /\ 2 \in c.dirty THEN c.data[2]
     ELSE IF a[1] = c.line /\ a[2] = 1 /\ 1 \in c.dirty THEN c.data[1] ELSE m[a]]

\* mmu_cache_write_back: memory m after the dirty halves of c are written.
WrittenBack(m, c) ==
  [a \in DOMAIN m |->
     IF a[1] = c.line /\ a[2] \in c.dirty THEN c.data[a[2]] ELSE m[a]]

Filled(m, l) ==
  [line |-> l, dirty |-> {}, data |-> [h \in Halves |-> m[<<l, h>>]]]

\* update_cache
Updated(c, h, v) == [c EXCEPT !.data[h] = v, !.dirty = @ \union {h}]

UpdatedOnHit(cache, a, v) ==
  [w \in Way |-> IF cache[w].line = a[1] THEN Updated(cache[w], a[2], v) ELSE cache[w]]

NextWay(cycle) == (cycle + 1) % Ways

-----------------------------------------------------------------------------
(* The write buffer.                                                       *)

Put(m, e) == [m EXCEPT ![e.pa] = e.data]

\* mmu_wb_drain_all
Drained(m) == FoldLeft(Put, m, wb)

\* Slip: the newest entry is flushed to make room.
WbWriteFlushesNewest(a, v) ==
  LET e == [pa |-> a, data |-> v]
  IN  IF Len(wb) = WbNum
      THEN mem' = Put(mem, wb[WbNum]) /\ wb' = Append(Front(wb), e)
      ELSE mem' = mem /\ wb' = Append(wb, e)

\* mmu_wb_write_bytes: a full buffer makes room by writing its oldest entry.
WbWrite(a, v) ==
  LET e == [pa |-> a, data |-> v]
  IN  IF Len(wb) = WbNum
      THEN mem' = Put(mem, Head(wb)) /\ wb' = Append(Tail(wb), e)
      ELSE mem' = mem /\ wb' = Append(wb, e)

-----------------------------------------------------------------------------
(* Accesses.                                                               *)

\* A load that misses drains the write buffer if its line is bufferable, and
\* allocates the line if it is cacheable.
LoadMiss(a) ==
  LET l  == a[1]
      m1 == IF "b" \in flags[l] THEN Drained(mem) ELSE mem
      m2 == IF "c" \in flags[l] THEN WrittenBack(m1, dcache[dcycle]) ELSE m1
  IN  /\ mem' = m2
      /\ wb' = IF "b" \in flags[l] THEN <<>> ELSE wb
      /\ result' = <<a, m2[a]>>
      /\ IF "c" \in flags[l]
         THEN /\ dcache' = [dcache EXCEPT ![dcycle] = Filled(m2, l)]
              /\ dcycle' = NextWay(dcycle)
         ELSE UNCHANGED <<dcache, dcycle>>

\* mmu_read
Load(a) ==
  /\ IF ~enabled
     THEN /\ result' = <<a, mem[a]>>
          /\ UNCHANGED <<mem, dcache, dcycle, wb>>
     ELSE IF Hit(dcache, a[1])
     THEN /\ result' = <<a, dcache[Search(dcache, a[1])].data[a[2]]>>
          /\ UNCHANGED <<mem, dcache, dcycle, wb>>
     ELSE LoadMiss(a)
  /\ UNCHANGED <<flags, icache, icycle, enabled>>

\* A store that misses goes to the write buffer or, after what is in the
\* buffer, to memory.  It allocates nothing.
StoreMiss(a, v) ==
  IF "b" \in flags[a[1]] THEN WbWrite(a, v)
  ELSE mem' = [Drained(mem) EXCEPT ![a] = v] /\ wb' = <<>>

\* mmu_write.  The instruction cache is updated whether enabled or not.
Store(a, v) ==
  /\ icache' = UpdatedOnHit(icache, a, v)
  /\ IF ~enabled
     THEN mem' = [mem EXCEPT ![a] = v] /\ UNCHANGED <<dcache, wb>>
     ELSE IF Hit(dcache, a[1])
     THEN dcache' = UpdatedOnHit(dcache, a, v) /\ UNCHANGED <<mem, wb>>
     ELSE StoreMiss(a, v) /\ UNCHANGED dcache
  /\ result' = <<>>
  /\ UNCHANGED <<flags, dcycle, icycle, enabled>>

\* mmu_load_instr with the instruction cache enabled.
Fetch(l) ==
  /\ ~Hit(icache, l) /\ "c" \in flags[l]
  /\ mem' = WrittenBack(mem, icache[icycle])
  /\ icache' = [icache EXCEPT ![icycle] = Filled(mem', l)]
  /\ icycle' = NextWay(icycle)
  /\ result' = <<>>
  /\ UNCHANGED <<flags, dcache, dcycle, wb, enabled>>

-----------------------------------------------------------------------------
(* Operations of coprocessor 15.                                           *)

Operation == result' = <<>> /\ UNCHANGED <<flags, dcycle, icycle>>

WbDrain ==
  /\ mem' = Drained(mem) /\ wb' = <<>>
  /\ UNCHANGED <<dcache, icache, enabled>>
  /\ Operation

\* By address or by index: any way can be meant.
DCacheClean(w) ==
  /\ mem' = WrittenBack(mem, dcache[w])
  /\ dcache' = [dcache EXCEPT ![w].dirty = {}]
  /\ UNCHANGED <<icache, wb, enabled>>
  /\ Operation

\* An invalidation writes the line back, as a clean-and-invalidate and a load
\* of the addresses meant to flush the cache (mmu_cache_soft_flush) do.
DCacheInvalidate(w) ==
  /\ mem' = WrittenBack(mem, dcache[w])
  /\ dcache' = [dcache EXCEPT ![w] = Invalid]
  /\ UNCHANGED <<icache, wb, enabled>>
  /\ Operation

WrittenBackAll(m, cache) ==
  FoldLeft(WrittenBack, m, [i \in 1 .. Ways |-> cache[i-1]])

DCacheInvalidateAll ==
  /\ mem' = WrittenBackAll(mem, dcache)
  /\ dcache' = [w \in Way |-> Invalid]
  /\ UNCHANGED <<icache, wb, enabled>>
  /\ Operation

ICacheInvalidate(w) ==
  /\ mem' = WrittenBack(mem, icache[w])
  /\ icache' = [icache EXCEPT ![w] = Invalid]
  /\ UNCHANGED <<dcache, wb, enabled>>
  /\ Operation

ICacheInvalidateAll ==
  /\ mem' = WrittenBackAll(mem, icache)
  /\ icache' = [w \in Way |-> Invalid]
  /\ UNCHANGED <<dcache, wb, enabled>>
  /\ Operation

\* The instruction cache first.
InvalidateBoth ==
  /\ mem' = WrittenBackAll(WrittenBackAll(mem, icache), dcache)
  /\ dcache' = [w \in Way |-> Invalid] /\ icache' = dcache'
  /\ UNCHANGED <<wb, enabled>>
  /\ Operation

Clean == wb = <<>> /\ \A w \in Way : dcache[w].dirty = {}

\* A write of the control register changes the enable and nothing else.
WriteControl ==
  /\ IF enabled THEN Clean ELSE \A w \in Way : dcache[w].line = None
  /\ enabled' = ~enabled
  /\ UNCHANGED <<mem, dcache, icache, wb>>
  /\ Operation

Next ==
  \/ \E a \in Address : Load(a) \/ \E v \in Val : Store(a, v)
  \/ \E l \in CodeLines : Fetch(l)
  \/ WbDrain
  \/ \E w \in Way : DCacheClean(w) \/ DCacheInvalidate(w) \/ ICacheInvalidate(w)
  \/ DCacheInvalidateAll \/ ICacheInvalidateAll \/ InvalidateBoth
  \/ WriteControl

Spec == Init /\ [][Next]_vars

-----------------------------------------------------------------------------

TypeOK ==
  /\ flags \in [Lines -> SUBSET {"c", "b"}]
  /\ mem \in [Address -> Val]
  /\ dcache \in [Way -> CacheLine \union {Invalid}]
  /\ icache \in [Way -> CacheLine \union {Invalid}]
  /\ dcycle \in Way /\ icycle \in Way
  /\ wb \in Seq(WbEntry) /\ Len(wb) =< WbNum
  /\ enabled \in BOOLEAN
  /\ result \in {<<>>} \union (Address \X Val)

\* A line is in one way of a cache at most.
NoDuplicate(cache) ==
  \A w, x \in Way : cache[w].line = cache[x].line => w = x \/ cache[w].line = None

\* What is pending belongs where it was put: cacheable lines in the cache,
\* bufferable ones in the buffer, and no line in both.
Pending ==
  /\ \A w \in Way : dcache[w].line # None => "c" \in flags[dcache[w].line]
  /\ \A i \in DOMAIN wb : /\ "b" \in flags[wb[i].pa[1]]
                          /\ ~Hit(dcache, wb[i].pa[1])
  /\ ~enabled => Clean

(***************************************************************************)
(* What memory lacks is in a dirty half or in the write buffer: a clean    *)
(* half of a data line agrees with memory.  Without this an eviction or an *)
(* invalidation of a clean line, or a transfer by the DMA controller after *)
(* cleaning, would see old data.                                           *)
(***************************************************************************)
CleanAgrees ==
  \A w \in Way :
    LET c == dcache[w]
    IN  enabled /\ c.line \in Lines \ CodeLines =>
          \A h \in Halves \ c.dirty : c.data[h] = mem[<<c.line, h>>]

\* The instruction cache holds what was fetched, so its write-backs reach no
\* data line.
FetchedOnly == \A w \in Way : icache[w].line \in CodeLines \union {None}

IInv ==
  /\ TypeOK
  /\ NoDuplicate(dcache) /\ NoDuplicate(icache) /\ FetchedOnly
  /\ Pending /\ CleanAgrees

\* What a load of a would return.
Visible(a) ==
  IF enabled /\ Hit(dcache, a[1]) THEN dcache[Search(dcache, a[1])].data[a[2]]
  ELSE Drained(mem)[a]

MemoryOf == INSTANCE Memory WITH
  Address <- DataAddress,
  content <- [a \in DataAddress |-> Visible(a)],
  result  <- IF result # <<>> /\ result[1] \in DataAddress THEN result ELSE <<>>

(***************************************************************************)
(* For the lines that are not fetched from, caches and write buffer do not *)
(* show: through evictions, drains and maintenance in any order, a load    *)
(* returns the last value stored, whatever the flags of the lines.         *)
(***************************************************************************)
ImplementsMemory == MemoryOf!Spec
=============================================================================
