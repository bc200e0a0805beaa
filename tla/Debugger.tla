------------------------------ MODULE Debugger ------------------------------
(***************************************************************************)
(* Debugging the ARM simulator: the instruction loop with its pipeline and *)
(* breakpoints (src/src/iss/arch/arm/base), the GDB stub it calls into     *)
(* (src/src/iss/gdbserver), the connection and the debugger at its other   *)
(* end.                                                                    *)
(*                                                                         *)
(* The stub runs in the thread of the simulator and uses the connection in *)
(* four places: to accept it, to poll for a stop request, to read commands *)
(* and to wait for the acknowledgement of a reply.  A packet is sent and   *)
(* read as a whole; what was sent has arrived.  The debugger is external:  *)
(* it sends a command when the last one is answered, acknowledges every    *)
(* reply it reads, takes a reply while the target runs for a stop, and may *)
(* go away for good in the middle of anything.  What it has sent may be    *)
(* lost then, and writing to the connection may end the program (SIGPIPE,  *)
(* which nothing ignores), at the first write or later.                    *)
(*                                                                         *)
(* The runs have three addresses, so that the pipeline wraps around and    *)
(* every jump is short, and one or two breakpoints.                        *)
(***************************************************************************)
EXTENDS Integers, Sequences, SequencesExt, FiniteSets

CONSTANTS
  Size,         \* the number of addresses, of one instruction each
  MaxBreak,     \* ARM_MAX_BREAKPOINTS
  MaxStops,     \* bound on the debugger's stop requests
  Leaves,       \* whether it may go away
  PcAtConnect,  \* whether it sets the PC before the first continue
  Spurious      \* whether it removes breakpoints it has not inserted

ASSUME SizeAssumption ==
  Size \in Nat \ {0} /\ MaxBreak \in Nat /\ MaxStops \in Nat
ASSUME ClientAssumption == {Leaves, PcAtConnect, Spurious} \subseteq BOOLEAN

VARIABLES
  pc, pipe,  \* m_PC; the addresses instr, m_Decoded, m_Loaded come from
  flush,     \* the address to refill the pipeline from, or NoFlush
  masked,    \* interrupts are masked
  changed,   \* m_PCChanged
  once,      \* m_Emulate is ONCE
  breaks,    \* m_BreakPts[0 .. m_NumBreakPts-1]
  at, from,  \* where the thread is, or "killed"; whether handlesig was called for a trap
  buf,       \* what handlesig has read and not handled
  resumed,   \* m_running_state
  reply,     \* the last packet sent
  conn,      \* "none", "connecting" or "open"
  toServer, toClient, \* the two directions of the connection
  client,    \* the debugger: "halted", "asked", "running" or "gone"
  command,   \* its last command
  requested, \* it has requested a stop since
  requests,  \* the stops it has requested
  stops,     \* it has seen the target stop
  wanted,    \* the breakpoints it has inserted
  ran        \* history: instructions since the target resumed, 2 for more

core == <<pc, pipe, flush, masked>>
debug == <<changed, once, breaks>>
stub == <<at, from, buf, resumed, reply>>
wire == <<conn, toServer, toClient>>
gdb == <<client, command, requested, requests, stops, wanted>>
vars == <<core, debug, stub, wire, gdb, ran>>

Addr == 0 .. Size-1
NoFlush == -1
Vector == 0
Ack == [type |-> "+"]
CtrlC == [type |-> "ctrl-c"]
Continue == [type |-> "c"]
Step == [type |-> "s"]
OnAddr(t) == [type : {t}, addr : Addr]
Command == {Continue, Step} \union OnAddr("Z") \union OnAddr("z") \union OnAddr("G")
Reply == {"stop", "OK", "E22"}
Breaks == ToSet(breaks)
Gone == client = "gone"
Killed == at = "killed"

Init ==
  /\ pc = 0 /\ pipe = <<0, 0, 0>> /\ flush = 0 /\ masked = TRUE
  /\ changed = FALSE /\ once = FALSE /\ breaks = <<>>
  /\ at = "next" /\ from = "connect" /\ buf = <<>> /\ resumed = TRUE
  /\ reply = "stop"
  /\ conn = "none" /\ toServer = <<>> /\ toClient = <<>>
  /\ client = "halted" /\ command = Continue /\ requested = FALSE
  /\ requests = 0 /\ stops = FALSE /\ wanted = {} /\ ran = 0

-----------------------------------------------------------------------------
\* arm::emulate

Plus(a, n) == (a + n) % Size

\* The pipeline advances, or is refilled.
Fetch ==
  /\ at = "next" /\ at' = "fetched"
  /\ IF flush = NoFlush
     THEN /\ pc' = Plus(pc, 1)
          /\ pipe' = <<pipe[2], pipe[3], Plus(pc, 3)>>
     ELSE /\ pc' = flush
          /\ pipe' = <<flush, Plus(flush, 1), Plus(flush, 2)>>
  /\ flush' = NoFlush
  /\ UNCHANGED <<masked, debug, from, buf, resumed, reply, wire, gdb, ran>>

\* An interrupt is taken before anything else is looked at.
Exception ==
  /\ at = "fetched" /\ at' = "next"
  /\ ~masked /\ masked' = TRUE
  /\ flush' = Vector
  /\ UNCHANGED <<pc, pipe, debug, from, buf, resumed, reply, wire, gdb, ran>>

\* put_packet up to its wait for the answer, put_buffer included.
PutPacket(r) ==
  /\ reply' = r
  /\ toClient' = IF Gone THEN toClient ELSE Append(toClient, r)
  /\ at' = "reply" \/ (Gone /\ at' = "killed")

\* handlesig from its start to its first read or wait.
HandleSig(caller) ==
  /\ once' = FALSE
  /\ from' = caller
  /\ buf' = <<>> /\ resumed' = FALSE
  /\ IF caller = "trap"
     THEN PutPacket("stop")
     ELSE at' = "read" /\ UNCHANGED <<reply, toClient>>

\* checkremote
CheckRemote ==
  /\ at = "fetched"
  /\ \/ /\ conn = "connecting" /\ conn' = "open"
        /\ HandleSig("connect")
     \/ /\ conn # "connecting"
        /\ at' = "remote"
        /\ UNCHANGED <<once, from, buf, resumed, reply, conn, toClient>>
  /\ UNCHANGED <<core, changed, breaks, toServer, gdb, ran>>

\* Slip: the loop over the breakpoints ends one too early.
TrappedButLast == once \/ \E i \in 1 .. Len(breaks)-1 : breaks[i] = pc

Trapped == once \/ pc \in Breaks

Trap ==
  /\ at = "remote" /\ conn = "open" /\ Trapped
  /\ HandleSig("trap")
  /\ UNCHANGED <<core, changed, breaks, conn, toServer, gdb, ran>>

\* checkctrlc reads all there is; a stop request is one that is alone.
Poll ==
  /\ at = "remote" /\ conn = "open" /\ ~Trapped
  /\ toServer' = <<>>
  /\ IF toServer = <<CtrlC>>
     THEN HandleSig("trap")
     ELSE /\ at' = "execute"
          /\ UNCHANGED <<once, from, buf, resumed, reply, toClient>>
  /\ UNCHANGED <<core, changed, breaks, conn, gdb, ran>>

NotConnected ==
  /\ at = "remote" /\ conn # "open"
  /\ at' = "execute"
  /\ UNCHANGED <<core, debug, from, buf, resumed, reply, wire, gdb, ran>>

\* The instruction: it may branch and it may mask or unmask interrupts.
Execute ==
  /\ at = "execute" /\ at' = "next"
  /\ flush' \in Addr \union {NoFlush}
  /\ masked' \in BOOLEAN
  /\ ran' = IF ran < 2 THEN ran + 1 ELSE ran
  /\ UNCHANGED <<pc, pipe, debug, from, buf, resumed, reply, wire, gdb>>

-----------------------------------------------------------------------------
\* gdbserver

\* A read finds that the debugger is gone when it has read what it has sent.
Closed == Gone /\ toServer = <<>>

\* Slip: the PC is written and the pipeline is kept.
ReturnPipelined ==
  /\ at = "read" /\ buf = <<>> /\ (resumed \/ Closed)
  /\ at' = IF from = "trap" THEN "execute" ELSE "remote"
  /\ changed' = IF from = "trap" THEN FALSE ELSE changed
  /\ UNCHANGED <<core, once, breaks, from, buf, resumed, reply, wire, gdb, ran>>

\* handlesig returns, resumed or alone.  A PC set during a trap flushes the
\* pipeline and skips the instruction; the first connection is followed by
\* the checks.
Return ==
  /\ at = "read" /\ buf = <<>> /\ (resumed \/ Closed)
  /\ \/ /\ from = "connect" /\ at' = "remote"
        /\ UNCHANGED <<flush, changed>>
     \/ /\ from = "trap" /\ ~changed /\ at' = "execute"
        /\ UNCHANGED <<flush, changed>>
     \/ /\ from = "trap" /\ changed /\ at' = "next"
        /\ flush' = pc /\ changed' = FALSE
  /\ UNCHANGED <<pc, pipe, masked, once, breaks, from, buf, resumed, reply, wire,
                 gdb, ran>>

Read ==
  /\ at = "read" /\ buf = <<>> /\ ~resumed /\ toServer # <<>>
  /\ buf' = toServer /\ toServer' = <<>>
  /\ UNCHANGED <<core, debug, at, from, resumed, reply, conn, toClient, gdb,
                 ran>>

\* Slip: the last breakpoint is not moved.
WithoutShort(a) == Front(breaks)

\* gdb_breakpoint_remove: the copies all go to the place of the breakpoint,
\* so the last one ends there.  Without a breakpoint at a the last one goes.
Without(a) ==
  IF breaks = <<>> THEN breaks
  ELSE [i \in 1 .. Len(breaks)-1 |->
          IF breaks[i] = a THEN Last(breaks) ELSE breaks[i]]

\* handle_packet, for commands with a reply.
Answer(p) ==
  \E r \in Reply :
    /\ \/ /\ p.type = "Z" /\ p.addr \in Breaks /\ r = "OK"
          /\ UNCHANGED <<breaks, pc, changed>>
       \/ /\ p.type = "Z" /\ p.addr \notin Breaks /\ Len(breaks) < MaxBreak
          /\ breaks' = Append(breaks, p.addr) /\ r = "OK"
          /\ UNCHANGED <<pc, changed>>
       \/ /\ p.type = "Z" /\ p.addr \notin Breaks /\ Len(breaks) = MaxBreak
          /\ r = "E22"
          /\ UNCHANGED <<breaks, pc, changed>>
       \/ /\ p.type = "z" /\ r = "OK"
          /\ breaks' = Without(p.addr)
          /\ UNCHANGED <<pc, changed>>
       \/ /\ p.type = "G" /\ r = "OK"
          /\ pc' = p.addr /\ changed' = (changed \/ p.addr # pc)
          /\ UNCHANGED breaks
    /\ PutPacket(r)
    /\ UNCHANGED <<once, resumed, ran>>

\* Slip: a step is a continue.
ResumeOnly(p) ==
  /\ resumed' = TRUE
  /\ ran' = 0
  /\ UNCHANGED <<once, breaks, pc, changed, reply, toClient, at>>

\* handle_packet, for commands that resume the target and are acknowledged.
Resume(p) ==
  /\ resumed' = TRUE
  /\ once' = (once \/ p = Step)
  /\ ran' = 0
  /\ at' = at \/ (Gone /\ at' = "killed")
  /\ UNCHANGED <<breaks, pc, changed, reply, toClient>>

\* read_byte for what was read, even after a command that resumes the target.
\* What is outside a packet is ignored.
Handle ==
  /\ at = "read" /\ buf # <<>>
  /\ buf' = Tail(buf)
  /\ LET p == Head(buf)
     IN  \/ p \in {Ack, CtrlC}
            /\ UNCHANGED <<once, breaks, pc, changed, reply, toClient, at,
                         resumed, ran>>
         \/ p \in {Continue, Step} /\ Resume(p)
         \/ p \in Command \ {Continue, Step} /\ Answer(p)
  /\ UNCHANGED <<pipe, flush, masked, from, conn, toServer, gdb>>

\* Slip: an error of the connection is taken for no answer yet.
WaitForAckForever ==
  /\ at = "reply"
  /\ \/ /\ toServer # <<>> /\ toServer' = Tail(toServer)
        /\ IF Head(toServer) = Ack
           THEN at' = "read" /\ UNCHANGED <<reply, toClient>>
           ELSE PutPacket(reply)
     \/ Closed /\ UNCHANGED <<at, reply, wire>>
  /\ UNCHANGED <<core, debug, from, buf, resumed, conn, gdb, ran>>

\* put_packet, from one character of the answer to the next, or to the end of
\* the connection, which no caller looks at.
WaitForAck ==
  /\ at = "reply"
  /\ \/ /\ toServer # <<>> /\ toServer' = Tail(toServer)
        /\ IF Head(toServer) = Ack
           THEN at' = "read" /\ UNCHANGED <<reply, toClient>>
           ELSE PutPacket(reply)
     \/ Closed /\ at' = "read" /\ UNCHANGED <<reply, wire>>
  /\ UNCHANGED <<core, debug, from, buf, resumed, conn, gdb, ran>>

-----------------------------------------------------------------------------
\* The debugger

Connect ==
  /\ conn = "none" /\ conn' = "connecting"
  /\ UNCHANGED <<core, debug, stub, toServer, toClient, gdb, ran>>

Ask(c) ==
  /\ client = "halted" /\ conn # "none"
  /\ c.type = "Z" => c.addr \notin wanted
  /\ c.type = "z" => c.addr \in wanted \/ Spurious
  /\ c.type = "G" => stops \/ PcAtConnect
  /\ client' = IF c \in {Continue, Step} THEN "running" ELSE "asked"
  /\ command' = c
  /\ requested' = FALSE
  /\ toServer' = Append(toServer, c)
  /\ UNCHANGED <<core, debug, stub, conn, toClient, requests, stops, wanted,
                 ran>>

RequestStop ==
  /\ client = "running" /\ ~requested /\ requests < MaxStops
  /\ requested' = TRUE /\ requests' = requests + 1
  /\ toServer' = Append(toServer, CtrlC)
  /\ UNCHANGED <<core, debug, stub, conn, toClient, client, command, stops,
                 wanted, ran>>

Receive ==
  /\ client \in {"asked", "running"} /\ toClient # <<>>
  /\ toClient' = Tail(toClient)
  /\ toServer' = Append(toServer, Ack)
  /\ client' = "halted"
  /\ stops' = (stops \/ client = "running")
  /\ wanted' =
       CASE Head(toClient) = "OK" /\ command.type = "Z" -> wanted \union {command.addr}
         [] Head(toClient) = "OK" /\ command.type = "z" -> wanted \ {command.addr}
         [] OTHER -> wanted
  /\ UNCHANGED <<core, debug, stub, conn, command, requested, requests, ran>>

\* It goes away, with or without what it has sent, and may have removed the
\* breakpoint it has asked to remove.
Leave ==
  /\ Leaves /\ ~Gone /\ conn # "none"
  /\ client' = "gone"
  /\ toServer' \in {toServer, <<>>} /\ toClient' = <<>>
  /\ wanted' = IF client = "asked" /\ command.type = "z"
               THEN wanted \ {command.addr} ELSE wanted
  /\ UNCHANGED <<core, debug, stub, conn, command, requested, requests, stops,
                 ran>>

Emulate ==
  Fetch \/ Exception \/ CheckRemote \/ Trap \/ Poll \/ NotConnected \/ Execute

Serve == Return \/ Read \/ Handle \/ WaitForAck

Client ==
  Connect \/ (\E c \in Command : Ask(c)) \/ RequestStop \/ Receive \/ Leave

Next ==
  \/ Emulate
  \/ Serve
  \/ ~Killed /\ Client
  \/ Killed /\ UNCHANGED vars

Spec == Init /\ [][Next]_vars

\* The simulator runs and the debugger reads what it is sent.
FairSpec == Spec /\ WF_vars(Emulate) /\ WF_vars(Serve) /\ WF_vars(Receive)

-----------------------------------------------------------------------------

TypeOK ==
  /\ reply \in Reply
  /\ pc \in Addr /\ pipe \in Addr \X Addr \X Addr
  /\ flush \in Addr \union {NoFlush} /\ masked \in BOOLEAN
  /\ changed \in BOOLEAN /\ once \in BOOLEAN
  /\ breaks \in BoundedSeq(Addr, MaxBreak)
  /\ at \in {"next", "fetched", "remote", "execute", "reply", "read", "killed"}
  /\ from \in {"connect", "trap"} /\ resumed \in BOOLEAN
  /\ conn \in {"none", "connecting", "open"}
  /\ buf \in Seq(Command \union {Ack, CtrlC})
  /\ toServer \in Seq(Command \union {Ack, CtrlC}) /\ toClient \in Seq(Reply)
  /\ client \in {"halted", "asked", "running", "gone"} /\ command \in Command
  /\ requested \in BOOLEAN /\ requests \in 0 .. MaxStops
  /\ stops \in BOOLEAN
  /\ wanted \subseteq Addr /\ ran \in 0 .. 2

\* While the debugger takes the target for halted it is halted: the thread is
\* in the stub and nothing has told it to leave.
HaltedIsHalted ==
  client \in {"halted", "asked"} /\ conn = "open" =>
    at \in {"reply", "read"} /\ ~resumed

\* The array holds what the debugger has inserted, each address once, and
\* still does when the debugger has gone, in the middle of a command or not.
BreakpointsKept ==
  /\ client \in {"halted", "running"} => Breaks = wanted
  /\ client # "asked" => wanted \subseteq Breaks
  /\ Len(breaks) = Cardinality(Breaks)

(***************************************************************************)
(* The debugger and the stub are in step.                                  *)
(***************************************************************************)
IInv == TypeOK /\ HaltedIsHalted /\ BreakpointsKept

(***************************************************************************)
(* The instruction executed is the one at the PC, through stops, changes   *)
(* of the PC, branches and exceptions: "if the pc was modified, do not     *)
(* execute the current instruction".                                       *)
(***************************************************************************)
ExecutesAtPc == at = "execute" => pipe[1] = pc

(***************************************************************************)
(* No instruction with a breakpoint the debugger has inserted is executed  *)
(* without a stop at it first.                                             *)
(***************************************************************************)
BreakpointsHonoured ==
  [][at = "remote" /\ at' = "execute" /\ conn = "open" => pc \notin wanted]_vars

(***************************************************************************)
(* A command is answered, and a step ends, unless the debugger goes away;  *)
(* and a debugger that goes away does not leave the target halted: it runs *)
(* again and again, if the connection does not end the program, although   *)
(* the breakpoints are still there.                                        *)
(***************************************************************************)
Answered ==
  /\ client = "asked" \/ (client = "running" /\ command = Step /\ conn = "open")
       ~> client \in {"halted", "gone"}
  /\ Gone ~> at = "execute" \/ Killed

(***************************************************************************)
(* The comment on gdb_single_step: "the next run cycle has to last only    *)
(* one instruction".                                                       *)
(***************************************************************************)
StepIsOne ==
  at = "reply" /\ client = "running" /\ command = Step => ran = 1
=============================================================================
