-------------------------------- MODULE Spif --------------------------------
(***************************************************************************)
(* The SPI flash interface of the MC13224V platform                        *)
(* (src/src/tlm_blocks/Mc13224v/Spif): an access is started by a register  *)
(* write and made by a thread when its clocks have passed, from what the   *)
(* registers hold then.  Register accesses come at any point before that,  *)
(* and at the instant itself on either side of the thread.                 *)
(***************************************************************************)
EXTENDS Integers

CONSTANTS
  FlashWords,  \* words of TX_DATA: the opcode and the address in it
  FlashClocks, \* SCK_COUNT plus 1 (1 .. 256) and DATA_LENGTH (0 .. 127)
  FlashSize    \* the values of the current address (2^32)

NoWord == [op |-> "none", addr |-> 0] \* 0
NoClocks == [bits |-> 1, len |-> 0]   \* SCK_COUNT and DATA_LENGTH are 0

ASSUME FlashWordsAssumption ==
  /\ NoWord \in FlashWords
  /\ \A w \in FlashWords : w.op \in {"none", "read", "id", "unknown"} /\ w.addr \in Nat
ASSUME FlashClocksAssumption ==
  NoClocks \in FlashClocks /\ \A c \in FlashClocks : c.bits \in Nat /\ c.len \in Nat
ASSUME FlashSizeAssumption == FlashSize \in Nat \ {0} /\ FlashSize % 4 = 0

VARIABLES
  txData, clkCtrl, ssSetup, \* TX_DATA, CLK_CTRL without START, SS_SETUP
  rxData,                   \* RX_DATA: which bits it has
  spifInt, spifLine,        \* INT of STATUS, and the interrupt line
  active, opcode, curaddr,  \* m_flash; its event is pending while active
  failed,                   \* an error of the thread has ended the simulation
  started, lost             \* history: the access that was started, for as
                            \* long as it is left alone, and whether software
                            \* has left its part undone since the deselection

memFlash == <<active, opcode, curaddr>>
spifRegisters == <<txData, clkCtrl, ssSetup>>
spifVars == <<spifRegisters, rxData, spifInt, spifLine, memFlash, failed, started, lost>>

\* The command that goes on, as the users of the flash see it.
Stream ==
  IF lost \/ started = [kind |-> "spoiled"] THEN [op |-> "lost", at |-> 0]
  ELSE [op |-> opcode, at |-> IF opcode = "read" THEN 8 * curaddr ELSE 0]

Flash == INSTANCE SerialFlash
           WITH request <- started, stream <- Stream, reply <- rxData

SpifInit ==
  /\ txData = NoWord /\ clkCtrl = NoClocks /\ ssSetup = 0
  /\ rxData = Flash!Other /\ spifInt = FALSE /\ spifLine = FALSE
  /\ active = FALSE /\ opcode = "none" /\ curaddr = 0
  /\ failed = FALSE /\ started = Flash!None /\ lost = FALSE

-----------------------------------------------------------------------------

SpifCheckInt == spifLine' = spifInt'

\* A write that an access in flight takes notice of.
Disturb == started' = IF active THEN Flash!Spoiled ELSE started

WriteTxData(w) ==
  /\ ~failed
  /\ txData' = w
  /\ Disturb
  /\ UNCHANGED <<clkCtrl, ssSetup, rxData, spifInt, memFlash, failed, lost>>
  /\ SpifCheckInt

\* CLK_CTRL without START is stored, also during an access.
WriteClkCtrl(c) ==
  /\ ~failed
  /\ clkCtrl' = c
  /\ Disturb
  /\ UNCHANGED <<txData, ssSetup, rxData, spifInt, memFlash, failed, lost>>
  /\ SpifCheckInt

\* Slip: the interrupt of the last access stays.
StartKeepingInt(c) ==
  /\ ~failed /\ ~active
  /\ ssSetup \in {1, 2}
  /\ c.bits >= c.len
  /\ clkCtrl' = c
  /\ active' = TRUE
  /\ started' = [kind |-> "access", word |-> txData, clocks |-> c, last |-> ssSetup = 1]
  /\ UNCHANGED <<txData, ssSetup, rxData, spifInt, spifLine, opcode, curaddr, failed, lost>>

\* CLK_CTRL with START.  Starting during an access, without selecting the
\* flash, or with fewer clocks than bits to send ends the simulation.
Start(c) ==
  /\ ~failed /\ ~active
  /\ ssSetup \in {1, 2}
  /\ c.bits >= c.len
  /\ clkCtrl' = c
  /\ spifInt' = FALSE
  /\ active' = TRUE
  /\ started' = [kind |-> "access", word |-> txData, clocks |-> c, last |-> ssSetup = 1]
  /\ UNCHANGED <<txData, ssSetup, rxData, opcode, curaddr, failed, lost>>
  /\ SpifCheckInt

\* Slip: only an automatic deselection resets the opcode.
WriteSetupKeepingOpcode(s) ==
  /\ ~failed
  /\ ssSetup' = s
  /\ started' = IF active /\ s # ssSetup THEN Flash!Spoiled ELSE started
  /\ lost' = IF active \/ s = ssSetup THEN lost
             ELSE s # 3 /\ (lost \/ opcode # "none")
  /\ UNCHANGED <<txData, clkCtrl, rxData, spifInt, memFlash, failed>>
  /\ SpifCheckInt

\* SS is forced high by 3, which resets the opcode even during an access.
WriteSetup(s) ==
  /\ ~failed
  /\ ssSetup' = s
  /\ opcode' = IF s = 3 THEN "none" ELSE opcode
  /\ started' = IF active /\ s # ssSetup THEN Flash!Spoiled ELSE started
  /\ lost' = IF active THEN lost
             ELSE IF s = 3 THEN FALSE
             ELSE lost \/ (s # ssSetup /\ opcode # "none")
  /\ UNCHANGED <<txData, clkCtrl, rxData, spifInt, active, curaddr, failed>>
  /\ SpifCheckInt

ClearInt ==
  /\ ~failed
  /\ spifInt' = FALSE
  /\ UNCHANGED <<spifRegisters, rxData, memFlash, failed, started, lost>>
  /\ SpifCheckInt

-----------------------------------------------------------------------------

\* Whole bytes of n bits; C rounds to 0, and n is negative if DATA_LENGTH was
\* raised over SCK_COUNT during the access.
Bytes(n) == IF n >= 0 THEN n \div 8 ELSE -((-n) \div 8)

\* What RX_DATA is set to: bits from the current address on, or of the first
\* bytes of the identity, at every access anew.  A shift by 32 or more has no
\* defined outcome.
Reply(op, addr, n) ==
  CASE op = "read" /\ n >= 0 -> Flash!Data(8 * addr, n)
    [] op = "id" /\ n > 0    -> Flash!Identity(0, n)
    [] op \in {"none", "unknown"} -> rxData
    [] OTHER                 -> Flash!Other

\* thread_flash from the event to the next wait.
ThreadFlash ==
  LET first == opcode = "none"
      op    == IF first THEN txData.op ELSE opcode
      addr  == IF first /\ op = "read" THEN txData.addr ELSE curaddr
      n     == clkCtrl.bits - (IF first THEN clkCtrl.len ELSE 0)
      wrong == \/ first /\ op \in {"read", "id"} /\ clkCtrl.len # 32
               \/ first /\ op = "read" /\ addr % 4 # 0
               \/ n > 32
  IN  /\ active /\ ~failed
      /\ failed' = wrong
      /\ IF wrong
         THEN UNCHANGED <<rxData, spifInt, spifLine, memFlash, started, lost>>
         ELSE /\ rxData' = Reply(op, addr, n)
              /\ curaddr' = IF op = "read" THEN (addr + Bytes(n)) % FlashSize ELSE curaddr
              /\ opcode' = IF ssSetup < 2 THEN "none" ELSE op
              /\ active' = FALSE
              /\ spifInt' = TRUE
              /\ SpifCheckInt
              /\ started' = Flash!None
              /\ lost' = \/ started = Flash!Spoiled
                         \/ ssSetup >= 2 /\ (lost \/ ~Flash!Whole(op, n))
      /\ UNCHANGED spifRegisters

SpifWrites ==
  \/ \E w \in FlashWords : WriteTxData(w)
  \/ \E c \in FlashClocks : WriteClkCtrl(c) \/ Start(c)
  \/ \E s \in 0 .. 3 : WriteSetup(s)
  \/ ClearInt

SpifNext == SpifWrites \/ ThreadFlash

SpifSpec == SpifInit /\ [][SpifNext]_spifVars

\* The clocks of an access pass and its event is triggered.
SpifFairSpec == SpifSpec /\ WF_spifVars(ThreadFlash)

-----------------------------------------------------------------------------

SpifTypeOK ==
  /\ txData \in FlashWords /\ clkCtrl \in FlashClocks /\ ssSetup \in 0 .. 3
  /\ {spifInt, spifLine, active, failed, lost} \subseteq BOOLEAN
  /\ opcode \in {"none", "read", "id", "unknown"} /\ curaddr \in 0 .. FlashSize-1
  /\ started \in {Flash!None, Flash!Spoiled} \union Flash!Access

(***************************************************************************)
(* The interrupt announces an access that is over, never one in flight,    *)
(* and the registers of an access left alone are those it was started      *)
(* with, in a selection that lasts, and no fewer clocks than it has bits to *)
(* send; the line is that of the status.                                   *)
(***************************************************************************)
SpifInv ==
  /\ SpifTypeOK
  /\ spifInt => ~active
  /\ spifLine = spifInt
  /\ active <=> started # Flash!None
  /\ started \in Flash!Access =>
       /\ started.word = txData /\ started.clocks = clkCtrl
       /\ ssSetup = IF started.last THEN 1 ELSE 2
       /\ clkCtrl.bits >= clkCtrl.len

(***************************************************************************)
(* What software reads is what a serial flash replies to the accesses it   *)
(* has started: a command goes on over accesses until the deselection, no  *)
(* bit of it is skipped or repeated, and the next command is one.  This    *)
(* holds for accesses that end on whole bytes, or whole identities, while  *)
(* the flash stays selected: the code counts the address in bytes          *)
(* (Spif.cpp:108) and starts the identity anew at every access (:100), so  *)
(* after another access the next one repeats bits.                         *)
(***************************************************************************)
ImplementsFlash == Flash!FlashSpec

(***************************************************************************)
(* A started access comes to its interrupt, or to an error.                *)
(***************************************************************************)
AccessesAnswered == []<>(~active \/ failed)
=============================================================================
