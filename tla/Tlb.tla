--------------------------------- MODULE Tlb ---------------------------------
(***************************************************************************)
(* The translation lookaside buffer of the ARM simulators                  *)
(* (src/src/iss/arch/arm/mmu/tlb.cpp) and the page tables the software     *)
(* changes under it.                                                       *)
(*                                                                         *)
(* Addresses stand for the smallest pages.  A section is a range of them,  *)
(* mapped as a whole or by a table with a page for each; the other page    *)
(* sizes, the domains and the permissions are left out.                    *)
(***************************************************************************)
EXTENDS Integers

CONSTANTS
  Sections,       \* the number of sections
  Pages,          \* the pages of a section
  Frames,         \* physical sections
  Num,            \* the entries of the buffer
  BreakBeforeMake \* whether software unmaps and invalidates before it maps

ASSUME SizesAssumption ==
  Sections \in Nat \ {0} /\ Pages \in Nat \ {0} /\ Num \in Nat \ {0}
ASSUME DisciplineAssumption == BreakBeforeMake \in BOOLEAN

VARIABLES
  table,   \* table[s]: the first level descriptor, see Descriptor
  entries, \* tlb->entries
  cycle,   \* tlb->cycle
  stale    \* history: addresses remapped and not invalidated since

tlbVars == <<table, entries, cycle, stale>>

Section == 0 .. Sections-1
Addr == 0 .. Sections * Pages - 1
Page == 0 .. Pages-1
SectionOf(a) == a \div Pages
AddrsOf(s) == {a \in Addr : SectionOf(a) = s}

Fault == [kind |-> "fault"]
Descriptor ==
  {Fault}
  \union [kind : {"section"}, frame : Frames]
  \union [kind : {"pages"}, frame : [Page -> Frames \union {Fault}]]

Invalid == [mapping |-> "invalid"]
Entry == {Invalid} \union [mapping : {"section", "page"}, virt : Addr, frame : Frames]

TlbInit ==
  /\ table = [s \in Section |-> Fault]
  /\ entries = [i \in 0 .. Num-1 |-> Invalid]
  /\ cycle = 0
  /\ stale = {}

-----------------------------------------------------------------------------

\* Slip: the address is not masked to the size of the entry.
MatchesExactly(e, a) == e # Invalid /\ e.virt = a

Matches(e, a) ==
  \/ e.mapping = "page" /\ e.virt = a
  \/ e.mapping = "section" /\ SectionOf(e.virt) = SectionOf(a)

Hits(a) == {i \in DOMAIN entries : Matches(entries[i], a)}

\* mmu_tlb_search: the first entry that matches.
Search(a) == CHOOSE i \in Hits(a) : \A j \in Hits(a) : i =< j

\* The walk of translate: the entry for a, or Fault.
Walk(a) ==
  LET d == table[SectionOf(a)]
  IN  CASE d.kind = "fault"   -> Fault
        [] d.kind = "section" -> [mapping |-> "section", virt |-> SectionOf(a) * Pages,
                                  frame |-> d.frame]
        [] d.kind = "pages"   -> IF d.frame[a % Pages] = Fault THEN Fault
                                 ELSE [mapping |-> "page", virt |-> a,
                                       frame |-> d.frame[a % Pages]]

\* translate, when it loads an entry.  A hit and a fault change nothing.
Translate(a) ==
  /\ Hits(a) = {} /\ Walk(a) # Fault
  /\ entries' = [entries EXCEPT ![cycle] = Walk(a)]
  /\ cycle' = (cycle + 1) % Num
  /\ UNCHANGED <<table, stale>>

InvalidateEntry(a) ==
  /\ entries' = IF Hits(a) = {} THEN entries
                ELSE [entries EXCEPT ![Search(a)] = Invalid]
  /\ stale' = stale \ {a}
  /\ UNCHANGED <<table, cycle>>

InvalidateAll ==
  /\ entries' = [i \in DOMAIN entries |-> Invalid]
  /\ cycle' = 0
  /\ stale' = {}
  /\ UNCHANGED table

\* The software, by the discipline: a mapping is made where there was none
\* and what was there is invalidated.
Remap(s, d) ==
  /\ d # table[s]
  /\ BreakBeforeMake /\ d # Fault =>
       table[s] = Fault /\ stale \intersect AddrsOf(s) = {}
  /\ table' = [table EXCEPT ![s] = d]
  /\ stale' = stale \union
       {a \in AddrsOf(s) : Walk(a) # Fault \/ Hits(a) # {}}
  /\ UNCHANGED <<entries, cycle>>

TlbNext ==
  \/ \E a \in Addr : Translate(a) \/ InvalidateEntry(a)
  \/ InvalidateAll
  \/ \E s \in Section, d \in Descriptor : Remap(s, d)

TlbSpec == TlbInit /\ [][TlbNext]_tlbVars

-----------------------------------------------------------------------------

TlbTypeOK ==
  /\ table \in [Section -> Descriptor]
  /\ entries \in [0 .. Num-1 -> Entry]
  /\ cycle \in 0 .. Num-1
  /\ stale \subseteq Addr

(***************************************************************************)
(* An address that was not remapped since it was last invalidated is       *)
(* translated as the tables say, though its entry may have been loaded at  *)
(* any time and for another address.                                       *)
(***************************************************************************)
Fresh ==
  \A a \in Addr \ stale :
    Hits(a) # {} =>
      /\ Walk(a) # Fault
      /\ entries[Search(a)].frame = Walk(a).frame
      /\ entries[Search(a)].mapping = Walk(a).mapping

(***************************************************************************)
(* At most one entry matches an address.                                   *)
(***************************************************************************)
OneMatch == \A a \in Addr : \A i, j \in Hits(a) : i = j

(***************************************************************************)
(* The invariant of the buffer under the discipline.                       *)
(***************************************************************************)
TlbInv == TlbTypeOK /\ Fresh /\ OneMatch
=============================================================================
