------------------------------ MODULE AddrDec -------------------------------
(***************************************************************************)
(* The address decoder of the Bob, At91sam9261, Mc13224v and B2070         *)
(* platforms (src/src/tlm_blocks/Generic/AddrDec/AddrDec.h): a linked list *)
(* of disjoint address ranges, each bound to a slave, whose element hit by *)
(* an access moves to the head.                                            *)
(*                                                                         *)
(* An address stands for a 4 byte word, so the alignment assertions of     *)
(* check_range have no counterpart.  A slave answers a debug read up to its last  *)
(* word (TLM_DBG_EXEC in utils.h), so reading a chunk per matching range   *)
(* is reading word by word.  What a slave holds is abstracted to which     *)
(* word of which slave is reached.                                         *)
(***************************************************************************)
EXTENDS Integers, Sequences, SequencesExt

CONSTANTS
  Space,     \* addresses a master can use are 0 .. Space-1
  Window,    \* m_mask + 1: the decoder looks at the address modulo Window
  MaxSlaves, \* bound on the number of slaves bound
  MaxLen     \* bound on the words of a debug access

ASSUME SpaceAssumption == Space \in Nat \ {0} /\ Window \in 1 .. Space
ASSUME BoundAssumption == MaxSlaves \in Nat /\ MaxLen \in Nat

VARIABLES
  list,   \* the chained list from m_head on, a sequence of [start, end]
  access  \* the last access: its kind, address and the words it reached

decVars == <<list, access>>

Address == 0 .. Space-1

RangeOf(s, e) == [start |-> s, end |-> e]

NoRange == [start |-> -1, end |-> -1] \* NULL

Fill == [start |-> -1, word |-> -1]    \* a word set to 0xFFFFFFFF

DecInit ==
  /\ list = <<>>
  /\ access = [kind |-> "none", address |-> 0, words |-> <<>>]

-----------------------------------------------------------------------------

In(a, r) == r.start =< a /\ a < r.end

\* Slip: a new range around an old one is not seen.
ConflictsByStart(s, e, r) == r.start =< s /\ s < r.end

\* The two overlap cases of check_range.
Conflicts(s, e, r) ==
  \/ s < r.start /\ e > r.start
  \/ s >= r.start /\ s < r.end

CheckRange(l, s, e) == \E i \in DOMAIN l : Conflicts(s, e, l[i])

\* The position of the first element of l that contains a, 0 when none does.
Position(l, a) ==
  IF \E i \in DOMAIN l : In(a, l[i])
  THEN CHOOSE i \in DOMAIN l : In(a, l[i]) /\ \A j \in 1 .. i-1 : ~In(a, l[j])
  ELSE 0

\* Slip: the element is linked at the head before it is unlinked, so what
\* stood before it is lost.
MoveLosesPrefix(l, i) == <<l[i]>> \o SubSeq(l, i + 1, Len(l))

\* The element at position i unlinked and put at the head.
MoveToHead(l, i) == <<l[i]>> \o RemoveAt(l, i)

\* find_range: the element found, or NoRange, and the list it leaves.
FindRange(l, a) ==
  LET i == Position(l, a)
  IN  IF i = 0 THEN [found |-> NoRange, list |-> l]
               ELSE [found |-> l[i], list |-> MoveToHead(l, i)]

\* find_next_closest_range, whose first branch assigns NULL to closest.
NextClosest(l, a) ==
  LET closer(c, r) ==
        IF r.start > a /\ c # NoRange /\ c.start - a > r.start - a
        THEN r ELSE c
  IN  FoldLeft(closer, NoRange, l)

-----------------------------------------------------------------------------

\* Slaves are bound while the platform is built, before the first access.  A
\* range that overlaps an existing one is refused.
Bind(s, e) ==
  /\ access.kind = "none"
  /\ Len(list) < MaxSlaves
  /\ s < e
  /\ ~CheckRange(list, s, e)
  /\ list' = <<RangeOf(s, e)>> \o list
  /\ UNCHANGED access

\* slave_b_transport: the address is looked up masked, and forwarded as its
\* distance from the start of the range.  Addresses of no range are errors.
BTransport(a) ==
  LET f == FindRange(list, a % Window)
  IN  /\ list' = f.list
      /\ access' =
           [kind |-> "bus", address |-> a,
            words |-> IF f.found = NoRange THEN <<>>
                      ELSE <<[start |-> f.found.start,
                              word |-> a - f.found.start]>>]

\* Slip: the address is forwarded without subtracting the range's start.
DebugForwardsAddress(st, a) ==
  LET f == FindRange(st.list, a)
  IN  [st EXCEPT !.list = f.list,
                 !.words = Append(@, [start |-> f.found.start, word |-> a])]

\* slave_get_direct_mem_ptr: the lookup reorders the list like a bus access.
GetDirectMemPtr(a) ==
  /\ list' = FindRange(list, a % Window).list
  /\ access' = [kind |-> "dmi", address |-> a, words |-> <<>>]

\* One word of the debug loop.  st.end is the address after the access, st.gap
\* the one after the words being filled, st.list the list so far, st.words the
\* words so far.
DebugWord(st, a) ==
  LET f == FindRange(st.list, a)
      n == NextClosest(st.list, a)
  IN  IF a < st.gap THEN [st EXCEPT !.words = Append(@, Fill)]
      ELSE IF f.found # NoRange
      THEN [st EXCEPT !.list = f.list,
                      !.words = Append(@, [start |-> f.found.start,
                                           word |-> a - f.found.start])]
      ELSE [st EXCEPT !.gap = IF n = NoRange THEN st.end ELSE n.start,
                      !.words = Append(@, Fill)]

\* slave_dbg_transport: a read of len words from address a on, the address
\* masked once, at the start.
DbgTransport(a, len) ==
  LET first == a % Window
      st    == FoldLeft(DebugWord,
                        [list |-> list, gap |-> 0, words |-> <<>>, end |-> first + len],
                        [i \in 1 .. len |-> first + i - 1])
  IN  /\ list' = st.list
      /\ access' = [kind |-> "debug", address |-> a, words |-> st.words]

DecNext ==
  \/ \E s \in 0 .. Window-1, e \in 1 .. Window-1 : Bind(s, e)
  \/ \E a \in Address : BTransport(a)
  \/ \E a \in Address : GetDirectMemPtr(a)
  \/ \E a \in Address, len \in 1 .. MaxLen : DbgTransport(a, len)

DecSpec == DecInit /\ [][DecNext]_decVars

-----------------------------------------------------------------------------

(***************************************************************************)
(* No two elements of the list overlap, whatever was bound in whatever     *)
(* order and however accesses have reordered the list: the element an      *)
(* address is found in never depends on the order.                         *)
(***************************************************************************)
Disjoint ==
  \A i, j \in DOMAIN list : \A a \in Address :
    In(a, list[i]) /\ In(a, list[j]) => i = j

(***************************************************************************)
(* Moving an element to the head unlinks no other: once bound, a slave     *)
(* stays in the list, once, through every bus and debug access.            *)
(***************************************************************************)
NoSlaveLost ==
  [][/\ ToSet(list) \subseteq ToSet(list')
     /\ Len(list) = Len(list') \/ Len(list) + 1 = Len(list')]_list

\* The word of the memory map at address a, by the ranges alone.
Mapped(a) ==
  IF \E r \in ToSet(list) : In(a, r)
  THEN LET r == CHOOSE r \in ToSet(list) : In(a, r)
       IN  [start |-> r.start, word |-> a - r.start]
  ELSE Fill

(***************************************************************************)
(* Up to its first unmapped address, a debug access (gdb, ELF loading)     *)
(* reaches word by word what bus accesses reach, across as many slaves as  *)
(* it spans, and nothing behind a gap is taken for another slave's word.   *)
(***************************************************************************)
DebugAgrees ==
  access.kind = "debug" =>
    \A i \in DOMAIN access.words :
      LET at(j) == Mapped((access.address % Window) + j - 1)
      IN  \/ access.words[i] = at(i)
          \/ access.words[i] = Fill /\ \E j \in 1 .. i-1 : at(j) = Fill

(***************************************************************************)
(* What the comments on the debug loop say: the fill runs to "the next     *)
(* closest range", and "until the end" only when there is none.  Every     *)
(* word of a debug access is the word of the memory map.                   *)
(***************************************************************************)
DebugComplete ==
  access.kind = "debug" =>
    \A i \in DOMAIN access.words :
      access.words[i] = Mapped((access.address % Window) + i - 1)
=============================================================================
