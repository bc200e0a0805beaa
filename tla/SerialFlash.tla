---------------------------- MODULE SerialFlash -----------------------------
(***************************************************************************)
(* A serial flash as its users see it: while it is selected, the first     *)
(* word it is sent is a command, and every clock after the word brings the *)
(* next bit of the reply, in one access or in several.  The bits of a read *)
(* follow each other from its address on, those of the identity again and  *)
(* again.  An access is what it was when it was started.                   *)
(*                                                                         *)
(* Software has its part in it, without which it is promised nothing until *)
(* the next deselection: it leaves an access alone, deselects the flash    *)
(* before the next command, and goes on with a reply only where an access  *)
(* has ended it on a whole byte, or on a whole identity.                   *)
(***************************************************************************)
EXTENDS Integers

CONSTANTS
  FlashWords,  \* words sent to the flash: a command and an address
  FlashClocks, \* number of clocks of an access, and how many send the word
  FlashSize    \* the addresses, modulo which they are counted

VARIABLES
  request, \* the access that was started: None, Spoiled, or what it is
  stream,  \* the command being replied to and the bit it has come to
  reply    \* the word received last

flashVars == <<request, stream, reply>>

None == [kind |-> "none"]
Spoiled == [kind |-> "spoiled"]
Access == [kind : {"access"}, word : FlashWords, clocks : FlashClocks, last : BOOLEAN]

Idle == [op |-> "none", at |-> 0]
Lost == [op |-> "lost", at |-> 0]

\* n bits of the flash, of its identity, from a bit on, or others.
Data(a, n) == [from |-> "data", at |-> a, bits |-> n]
Identity(a, n) == [from |-> "id", at |-> a, bits |-> n]
Other == [from |-> "other", at |-> 0, bits |-> 0]

FlashInit == request = None /\ stream = Idle /\ reply = Other

-----------------------------------------------------------------------------

Begin == request = None /\ request' \in Access /\ UNCHANGED <<stream, reply>>

\* The flash is deselected, which is no part of an access.
Deselect == request = None /\ stream' = Idle /\ UNCHANGED <<request, reply>>

\* A command is left without a deselection.
Leave == request = None /\ stream' = Lost /\ UNCHANGED <<request, reply>>

Spoil == request # None /\ request' = Spoiled /\ stream' = Lost /\ UNCHANGED reply

\* What the flash replies to, and with how many clocks left for it.
Command(r) ==
  IF stream = Idle
  THEN [op |-> r.word.op, at |-> IF r.word.op = "read" THEN 8 * r.word.addr ELSE 0]
  ELSE stream

ReplyClocks(r) == r.clocks.bits - (IF stream = Idle THEN r.clocks.len ELSE 0)

\* n bits further on: behind the last address comes the first, and the two
\* bytes of the identity alternate.
Further(c, n) ==
  CASE c.op = "read" -> [c EXCEPT !.at = (@ + n) % (8 * FlashSize)]
    [] c.op = "id"   -> [c EXCEPT !.at = (@ + n) % 16]
    [] OTHER         -> c

\* Where software may go on with a reply after n bits of it.
Whole(op, n) == (op = "read" => n % 8 = 0) /\ (op = "id" => n % 16 = 0)

End ==
  LET c == Command(request)
      n == ReplyClocks(request)
  IN  /\ request \in Access /\ request' = None
      /\ stream' = IF request.last THEN Idle
                   ELSE IF Whole(c.op, n) THEN Further(c, n)
                   ELSE Lost
      /\ \/ c.op = "read" /\ reply' = Data(c.at, n)
         \/ c.op = "id" /\ n > 0 /\ reply' = Identity(c.at, n)
         \/ c.op \in {"none", "unknown"} /\ reply' = reply
         \/ c.op = "id" /\ n = 0 \* nothing is promised
         \/ c.op = "lost"

EndSpoiled ==
  /\ request = Spoiled /\ request' = None
  /\ stream' = Lost \* and nothing is promised of the reply

FlashNext == Begin \/ End \/ Deselect \/ Leave \/ Spoil \/ EndSpoiled

FlashSpec == FlashInit /\ [][FlashNext]_flashVars
=============================================================================
