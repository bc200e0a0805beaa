--------------------------- MODULE DebuggerProofs ---------------------------
(***************************************************************************)
(* Proofs about the debugging of the simulator, for any number of          *)
(* addresses and breakpoints.                                              *)
(***************************************************************************)
EXTENDS Debugger, SequenceTheorems, FunctionTheorems, FiniteSetTheorems, TLAPS

\* What is sent after one or two packets.
LEMMA AppendToOne ==
  ASSUME NEW a, NEW b
  PROVE  Append(<<a>>, b) = <<a, b>>
<1> DEFINE S == {a, b}
           s == Append(<<a>>, b)
           t == <<a, b>>
<1>1. <<a>> \in Seq(S) /\ t \in Seq(S) /\ b \in S
  OBVIOUS
<1>2. s \in Seq(S) /\ Len(s) = 2 /\ s[1] = a /\ s[2] = b
  BY <1>1, AppendProperties
<1>3. Len(t) = 2 /\ t[1] = a /\ t[2] = b
  OBVIOUS
<1> HIDE DEF S, s, t
<1>4. \A i \in 1 .. Len(s) : s[i] = t[i]
  BY <1>2, <1>3
<1>5. s = t
  BY <1>1, <1>2, <1>3, <1>4, SeqEqual
<1> QED
  BY <1>5 DEF s, t

LEMMA AppendToTwo ==
  ASSUME NEW a, NEW b, NEW c
  PROVE  Append(<<a, b>>, c) = <<a, b, c>>
<1> DEFINE S == {a, b, c}
           s == Append(<<a, b>>, c)
           t == <<a, b, c>>
<1>1. <<a, b>> \in Seq(S) /\ t \in Seq(S) /\ c \in S
  OBVIOUS
<1>2. s \in Seq(S) /\ Len(s) = 3 /\ s[1] = a /\ s[2] = b /\ s[3] = c
  BY <1>1, AppendProperties
<1>3. Len(t) = 3 /\ t[1] = a /\ t[2] = b /\ t[3] = c
  OBVIOUS
<1> HIDE DEF S, s, t
<1>4. \A i \in 1 .. Len(s) : s[i] = t[i]
  BY <1>2, <1>3
<1>5. s = t
  BY <1>1, <1>2, <1>3, <1>4, SeqEqual
<1> QED
  BY <1>5 DEF s, t

\* Queues of at most three packets.
LEMMA Queues ==
  ASSUME NEW a, NEW b, NEW c
  PROVE  /\ Append(<<>>, a) = <<a>>
         /\ Append(<<a>>, b) = <<a, b>>
         /\ Append(<<a, b>>, c) = <<a, b, c>>
         /\ Head(<<a>>) = a /\ Tail(<<a>>) = <<>>
         /\ Head(<<a, b>>) = a /\ Tail(<<a, b>>) = <<b>>
         /\ Head(<<a, b, c>>) = a /\ Tail(<<a, b, c>>) = <<b, c>>
         /\ <<a>> # <<>> /\ <<a, b>> # <<>> /\ <<a, b, c>> # <<>>
         /\ ToSet(<<>>) = {} /\ ToSet(<<a>>) = {a} /\ ToSet(<<a, b>>) = {a, b}
         /\ ToSet(<<a, b, c>>) = {a, b, c}
  BY AppendToOne, AppendToTwo DEF ToSet

\* The packets differ.
LEMMA Packets ==
  /\ Continue # Step /\ Ack # CtrlC
  /\ Ack \notin Command /\ CtrlC \notin Command
  /\ Continue \in Command /\ Step \in Command
  /\ \A c \in Command :
       /\ c.type \in {"c", "s", "Z", "z", "G"}
       /\ c.type \in {"Z", "z", "G"} => c.addr \in Addr /\ c \notin {Continue, Step}
       /\ c \notin {Continue, Step} => c.type \in {"Z", "z", "G"}
<1>1. /\ Continue.type = "c" /\ Step.type = "s" /\ Ack.type = "+"
      /\ CtrlC.type = "ctrl-c"
  BY DEF Continue, Step, Ack, CtrlC
<1>2. \A c \in OnAddr("Z") : c.type = "Z" /\ c.addr \in Addr
  BY DEF OnAddr
<1>3. \A c \in OnAddr("z") : c.type = "z" /\ c.addr \in Addr
  BY DEF OnAddr
<1>4. \A c \in OnAddr("G") : c.type = "G" /\ c.addr \in Addr
  BY DEF OnAddr
<1> QED
  BY <1>1, <1>2, <1>3, <1>4 DEF Command

\* The array of breakpoints.
LEMMA Array ==
  ASSUME NEW s
  PROVE  s \in BoundedSeq(Addr, MaxBreak) <=> s \in Seq(Addr) /\ Len(s) =< MaxBreak
<1>1. ASSUME s \in BoundedSeq(Addr, MaxBreak)
      PROVE  s \in Seq(Addr) /\ Len(s) =< MaxBreak
  <2>1. PICK m \in 0 .. MaxBreak : s \in [1 .. m -> Addr]
    BY <1>1 DEF BoundedSeq, SeqOf
  <2> QED
    BY <2>1, SizeAssumption
<1>2. ASSUME s \in Seq(Addr), Len(s) =< MaxBreak
      PROVE  s \in BoundedSeq(Addr, MaxBreak)
  <2>1. Len(s) \in 0 .. MaxBreak /\ s \in [1 .. Len(s) -> Addr]
    BY <1>2, LenProperties, SizeAssumption
  <2> QED
    BY <2>1 DEF BoundedSeq, SeqOf
<1> QED
  BY <1>1, <1>2

\* Division with remainder.
LEMMA Divides ==
  ASSUME NEW a \in Nat, NEW d \in Nat \ {0}
  PROVE  a \div d \in Nat /\ a % d \in 0 .. d-1 /\ a = d * (a \div d) + (a % d)
  OBVIOUS

LEMMA Remainder ==
  ASSUME NEW d \in Nat \ {0}, NEW k \in Nat, NEW r \in 0 .. d-1
  PROVE  (d * k + r) % d = r
<1> DEFINE a == d * k + r
<1>1. a \in Nat
  OBVIOUS
<1>2. a \div d \in Nat /\ a % d \in 0 .. d-1 /\ a = d * (a \div d) + (a % d)
  BY <1>1, Divides
<1> QED
  BY <1>2

\* The addresses wrap around.
LEMMA Wraps ==
  ASSUME NEW a \in Addr, NEW m \in Nat, NEW n \in Nat
  PROVE  Plus(a, m) \in Addr /\ Plus(Plus(a, m), n) = Plus(a, m + n)
<1>1. Size \in Nat \ {0} /\ a + m \in Nat
  BY SizeAssumption DEF Addr
<1>2. PICK q \in Nat, r \in 0 .. Size-1 : a + m = Size * q + r /\ r = (a + m) % Size
  BY <1>1, Divides
<1>3. r + n \in Nat
  BY <1>1
<1>4. PICK p \in Nat, t \in 0 .. Size-1 : r + n = Size * p + t /\ t = (r + n) % Size
  BY <1>1, <1>3, Divides
<1>5. a + (m + n) = Size * (q + p) + t /\ q + p \in Nat
  BY <1>1, <1>2, <1>4 DEF Addr
<1>6. (Size * (q + p) + t) % Size = t
  BY <1>1, <1>4, <1>5, Remainder
<1> QED
  BY <1>1, <1>2, <1>4, <1>5, <1>6 DEF Plus, Addr

-----------------------------------------------------------------------------
(* Types.                                                                  *)

\* Removing a breakpoint that is there or not.
LEMMA WithoutType ==
  ASSUME breaks \in Seq(Addr), NEW a \in Addr
  PROVE  Without(a) \in Seq(Addr) /\ Len(Without(a)) =< Len(breaks)
<1>1. CASE breaks = <<>>
  BY <1>1 DEF Without
<1>2. CASE breaks # <<>>
  <2> DEFINE n == Len(breaks) - 1
             s == [i \in 1 .. n |-> IF breaks[i] = a THEN Last(breaks) ELSE breaks[i]]
  <2>1. n \in Nat /\ Last(breaks) \in Addr /\ \A i \in 1 .. n : breaks[i] \in Addr
    BY <1>2 DEF Last
  <2>2. Without(a) = s
    BY <1>2 DEF Without
  <2>3. s \in [1 .. n -> Addr]
    BY <2>1
  <2>4. s \in Seq(Addr) /\ Len(s) = n
    BY <2>1, <2>3
  <2> QED
    BY <2>1, <2>2, <2>4
<1> QED
  BY <1>1, <1>2

\* A packet is sent.
LEMMA PutType ==
  ASSUME NEW r \in Reply, PutPacket(r), toClient \in Seq(Reply)
  PROVE  reply' \in Reply /\ toClient' \in Seq(Reply) /\ at' \in {"reply", "killed"}
  BY DEF PutPacket

\* A command that is answered.
LEMMA AnswerType ==
  ASSUME TypeOK, NEW p \in Command \ {Continue, Step}, Answer(p)
  PROVE  /\ reply' \in Reply /\ toClient' \in Seq(Reply) /\ at' \in {"reply", "killed"}
         /\ breaks' \in BoundedSeq(Addr, MaxBreak) /\ pc' \in Addr /\ changed' \in BOOLEAN
<1>0. /\ p.addr \in Addr /\ breaks \in Seq(Addr) /\ Len(breaks) =< MaxBreak
      /\ pc \in Addr /\ changed \in BOOLEAN /\ toClient \in Seq(Reply)
  BY Packets, Array DEF TypeOK
<1>1. PICK r \in Reply : PutPacket(r)
  BY DEF Answer
<1>2. \/ UNCHANGED breaks
      \/ breaks' = Append(breaks, p.addr) /\ Len(breaks) < MaxBreak
      \/ breaks' = Without(p.addr)
  BY DEF Answer
<1>3. breaks' \in Seq(Addr) /\ Len(breaks') =< MaxBreak
  <2>1. CASE UNCHANGED breaks
    BY <1>0, <2>1
  <2>2. CASE breaks' = Append(breaks, p.addr) /\ Len(breaks) < MaxBreak
    BY <1>0, <2>2, SizeAssumption
  <2>3. CASE breaks' = Without(p.addr)
    BY <1>0, <2>3, WithoutType, SizeAssumption
  <2> QED
    BY <1>2, <2>1, <2>2, <2>3
<1>4. pc' \in Addr /\ changed' \in BOOLEAN
  BY <1>0 DEF Answer
<1> QED
  BY <1>0, <1>1, <1>3, <1>4, PutType, Array

\* What the connection holds stays packets.
LEMMA PacketsType ==
  ASSUME NEW S, NEW s \in Seq(S), NEW e \in S
  PROVE  /\ s # <<>> => Tail(s) \in Seq(S)
         /\ Append(s, e) \in Seq(S)
         /\ \A t \in {s, <<>>} : t \in Seq(S)
  OBVIOUS

LEMMA TypeStep ==
  TypeOK /\ [Next]_vars => TypeOK'
<1> SUFFICES ASSUME TypeOK, [Next]_vars
             PROVE  TypeOK'
  OBVIOUS
<1> USE DEF TypeOK
<1>p. /\ Continue \in Command /\ Step \in Command
      /\ Vector \in Addr
  BY Packets, SizeAssumption DEF Vector, Addr
<1>1. CASE UNCHANGED vars
  BY <1>1 DEF vars, core, debug, stub, wire, gdb
<1>2. CASE Fetch
  <2>1. \A a \in Addr : Plus(a, 1) \in Addr /\ Plus(a, 2) \in Addr /\ Plus(a, 3) \in Addr
    BY Wraps
  <2>2. pipe[2] \in Addr /\ pipe[3] \in Addr
    OBVIOUS
  <2> QED
    BY <1>2, <2>1, <2>2 DEF Fetch, debug, wire, gdb
<1>3. CASE Exception
  BY <1>3, <1>p DEF Exception, debug, wire, gdb
<1>h. ASSUME NEW c \in {"trap", "connect"}, HandleSig(c)
      PROVE  /\ once' \in BOOLEAN /\ from' \in {"connect", "trap"} /\ buf' = <<>>
             /\ resumed' \in BOOLEAN /\ reply' \in Reply /\ toClient' \in Seq(Reply)
             /\ at' \in {"reply", "killed", "read"}
  <2>1. "stop" \in Reply
    BY DEF Reply
  <2>2. CASE c = "trap"
    BY <1>h, <2>1, <2>2, PutType DEF HandleSig
  <2>3. CASE c # "trap"
    BY <1>h, <2>3 DEF HandleSig
  <2> QED
    BY <2>2, <2>3
<1>4. CASE CheckRemote
  <2>1. CASE conn = "connecting"
    BY <1>4, <1>h, <2>1 DEF CheckRemote, core, gdb
  <2>2. CASE conn # "connecting"
    BY <1>4, <2>2 DEF CheckRemote, core, gdb
  <2> QED
    BY <2>1, <2>2
<1>5. CASE Trap
  BY <1>5, <1>h DEF Trap, core, gdb
<1>6. CASE Poll
  <2>1. CASE toServer = <<CtrlC>>
    BY <1>6, <1>h, <2>1 DEF Poll, core, gdb
  <2>2. CASE toServer # <<CtrlC>>
    BY <1>6, <2>2 DEF Poll, core, gdb
  <2> QED
    BY <2>1, <2>2
<1>7. CASE NotConnected
  BY <1>7 DEF NotConnected, core, debug, wire, gdb
<1>8. CASE Execute
  BY <1>8 DEF Execute, debug, wire, gdb
<1>9. CASE Return
  BY <1>9 DEF Return, wire, gdb
<1>10. CASE Read
  BY <1>10 DEF Read, core, debug, gdb
<1>11. CASE Handle
  <2> DEFINE p == Head(buf)
  <2>0. /\ p \in Command \union {Ack, CtrlC} /\ buf' \in Seq(Command \union {Ack, CtrlC})
        /\ UNCHANGED <<pipe, flush, masked, from, conn, toServer, gdb>>
        /\ at = "read"
    BY <1>11 DEF Handle
  <2>1. CASE UNCHANGED <<once, breaks, pc, changed, reply, toClient, at, resumed, ran>>
    BY <2>0, <2>1 DEF gdb
  <2>2. CASE p \in {Continue, Step} /\ Resume(p)
    <3>1. at' \in {at, "killed"} /\ once' \in BOOLEAN
      BY <2>2 DEF Resume
    <3> QED
      BY <2>0, <2>2, <3>1 DEF Resume, gdb
  <2>3. CASE p \in Command \ {Continue, Step} /\ Answer(p)
    <3>1. UNCHANGED <<once, resumed, ran>>
      BY <2>3 DEF Answer
    <3>2. /\ reply' \in Reply /\ toClient' \in Seq(Reply) /\ at' \in {"reply", "killed"}
          /\ breaks' \in BoundedSeq(Addr, MaxBreak) /\ pc' \in Addr /\ changed' \in BOOLEAN
      BY <2>3, AnswerType
    <3> QED
      BY <2>0, <3>1, <3>2 DEF gdb
  <2> QED
    BY <1>11, <2>1, <2>2, <2>3 DEF Handle
<1>12. CASE WaitForAck
  <2>1. UNCHANGED <<core, debug, from, buf, resumed, conn, gdb, ran>>
    BY <1>12 DEF WaitForAck
  <2>2. /\ toServer' \in Seq(Command \union {Ack, CtrlC})
    <3>1. \/ toServer # <<>> /\ toServer' = Tail(toServer)
          \/ UNCHANGED toServer
      BY <1>12 DEF WaitForAck, wire
    <3> QED
      BY <3>1, <1>p, PacketsType
  <2>3. /\ reply' \in Reply /\ toClient' \in Seq(Reply)
        /\ at' \in {"reply", "read", "killed"}
    <3>1. \/ at' = "read" /\ UNCHANGED <<reply, toClient>>
          \/ PutPacket(reply)
      BY <1>12 DEF WaitForAck, wire
    <3> QED
      BY <3>1, PutType
  <2> QED
    BY <2>1, <2>2, <2>3 DEF core, debug, gdb
<1>13. CASE Connect
  BY <1>13 DEF Connect, core, debug, stub, gdb
<1>14. ASSUME NEW c \in Command, Ask(c)
       PROVE  TypeOK'
  <2>1. toServer' \in Seq(Command \union {Ack, CtrlC})
    BY <1>14, PacketsType DEF Ask
  <2>2. client' \in {"running", "asked"}
    BY <1>14 DEF Ask
  <2>3. /\ UNCHANGED <<pc, pipe, flush, masked>>
        /\ UNCHANGED <<changed, once, breaks, at, from, buf, resumed, reply>>
        /\ UNCHANGED <<conn, toClient, requests, stops, wanted, ran>>
        /\ command' \in Command /\ requested' = FALSE
    BY <1>14 DEF Ask, core, debug, stub
  <2>4. /\ reply' \in Reply /\ pc' \in Addr /\ pipe' \in Addr \X Addr \X Addr
        /\ flush' \in Addr \union {NoFlush} /\ masked' \in BOOLEAN
        /\ changed' \in BOOLEAN /\ once' \in BOOLEAN
        /\ breaks' \in BoundedSeq(Addr, MaxBreak)
    BY <2>3
  <2>5. /\ at' \in {"next", "fetched", "remote", "execute", "reply", "read", "killed"}
        /\ from' \in {"connect", "trap"} /\ resumed' \in BOOLEAN
        /\ conn' \in {"none", "connecting", "open"}
        /\ buf' \in Seq(Command \union {Ack, CtrlC}) /\ toClient' \in Seq(Reply)
    BY <2>3
  <2>6. /\ requested' \in BOOLEAN /\ requests' \in 0 .. MaxStops /\ stops' \in BOOLEAN
        /\ wanted' \subseteq Addr /\ ran' \in 0 .. 2
    BY <2>3
  <2> QED
    BY <2>1, <2>2, <2>3, <2>4, <2>5, <2>6
<1>15. CASE RequestStop
  BY <1>15, SizeAssumption DEF RequestStop, core, debug, stub
<1>16. CASE Receive
  <2>1. toClient' \in Seq(Reply) /\ toServer' \in Seq(Command \union {Ack, CtrlC})
    BY <1>16 DEF Receive
  <2>2. wanted' \subseteq Addr
    BY <1>16, Packets DEF Receive
  <2> QED
    BY <1>16, <2>1, <2>2 DEF Receive, core, debug, stub
<1>17. CASE Leave
  <2>1. toServer' \in Seq(Command \union {Ack, CtrlC})
    <3>1. toServer' \in {toServer, <<>>}
      BY <1>17 DEF Leave
    <3> QED
      BY <3>1, <1>p, PacketsType
  <2>2. toClient' \in Seq(Reply) /\ wanted' \subseteq Addr
    BY <1>17 DEF Leave
  <2> QED
    BY <1>17, <2>1, <2>2 DEF Leave, core, debug, stub
<1> QED
  BY <1>1, <1>2, <1>3, <1>4, <1>5, <1>6, <1>7, <1>8, <1>9, <1>10, <1>11, <1>12,
     <1>13, <1>14, <1>15, <1>16, <1>17 DEF Next, Emulate, Serve, Client

LEMMA TypeInit ==
  Init => TypeOK
<1> SUFFICES ASSUME Init
             PROVE  TypeOK
  OBVIOUS
<1>1. 0 \in Addr /\ <<>> \in Seq(Addr) /\ Len(<<>>) = 0 /\ 0 =< MaxBreak
  BY SizeAssumption DEF Addr
<1>2. breaks \in BoundedSeq(Addr, MaxBreak)
  BY <1>1, Array DEF Init
<1> QED
  <2>1. <<0, 0, 0>> \in Addr \X Addr \X Addr
    BY <1>1
  <2>2. Continue \in Command /\ requests \in 0 .. MaxStops
    BY Packets, SizeAssumption DEF Init
  <2>3. /\ buf \in Seq(Command \union {Ack, CtrlC})
        /\ toServer \in Seq(Command \union {Ack, CtrlC}) /\ toClient \in Seq(Reply)
    BY DEF Init
  <2>4. /\ pc \in Addr /\ pipe \in Addr \X Addr \X Addr /\ flush \in Addr \union {NoFlush}
        /\ wanted \subseteq Addr /\ command \in Command /\ reply \in Reply
    BY <1>1, <2>1, <2>2 DEF Init, Reply
  <2>5. /\ {masked, changed, once, resumed, requested, stops} \subseteq BOOLEAN
        /\ at = "next" /\ from = "connect" /\ conn = "none" /\ client = "halted"
        /\ ran = 0
    BY DEF Init
  <2> QED
    BY <1>2, <2>2, <2>3, <2>4, <2>5 DEF TypeOK

-----------------------------------------------------------------------------
(* The conversation.  It is in step as long as no stop request has raced a *)
(* stop, which none can do before the first stop.                          *)

Running == {"next", "fetched", "remote", "execute"}
Resuming == {Continue, Step}

\* What has been sent when s is the last thing before a stop request.
WithStop(s) == {s} \union (IF requested THEN {Append(s, CtrlC)} ELSE {})

\* The target has not noticed the connection yet.
Unopened ==
  /\ at \in Running /\ from = "connect" /\ buf = <<>> /\ toClient = <<>>
  /\ breaks = <<>> /\ wanted = {} /\ ~stops
  /\ conn = "none" => client = "halted"
  /\ client = "halted" => toServer = <<>>
  /\ client = "asked" => command \notin Resuming /\ toServer = <<command>>
  /\ client = "running" => command \in Resuming /\ toServer \in WithStop(<<command>>)
  /\ Gone => toServer \in {<<>>} \union WithStop(<<command>>)

Halted ==
  /\ ~resumed /\ buf = <<>> /\ toClient = <<>>
  /\ \/ at = "read" /\ toServer = <<>>
     \/ at = "reply" /\ toServer = <<Ack>>

\* A command is under way: it is sent, read, or answered.
Asked ==
  /\ ~resumed /\ command \notin Resuming
  /\ \/ at = "read" /\ toClient = <<>> /\ buf = <<>> /\ toServer = <<command>>
     \/ at = "read" /\ toClient = <<>> /\ buf = <<command>> /\ toServer = <<>>
     \/ at = "reply" /\ toClient = <<>> /\ buf = <<>> /\ toServer = <<Ack, command>>
     \/ at = "reply" /\ toClient = <<reply>> /\ buf = <<>> /\ toServer = <<>>

\* The command that resumes the target is under way, or the stop is.
Resumes ==
  /\ ~resumed /\ command \in Resuming
  /\ \/ at = "read" /\ toClient = <<>> /\ buf = <<>> /\ toServer \in WithStop(<<command>>)
     \/ at = "read" /\ toClient = <<>> /\ buf = <<command>> /\ toServer \in WithStop(<<>>)
     \/ at = "read" /\ toClient = <<>> /\ buf \in WithStop(<<command>>) /\ toServer = <<>>
     \/ at = "reply" /\ toClient = <<>> /\ buf = <<>> /\ toServer \in WithStop(<<Ack, command>>)
     \/ at = "reply" /\ toClient = <<reply>> /\ buf = <<>> /\ toServer = <<>> /\ from = "trap"

Resumed ==
  /\ resumed /\ command \in Resuming /\ toClient = <<>>
  /\ \/ at \in Running \union {"read"} /\ buf = <<>> /\ toServer \in WithStop(<<>>)
     \/ at = "read" /\ buf \in WithStop(<<>>) /\ toServer = <<>>

Open ==
  \/ client = "halted" /\ Halted
  \/ client = "asked" /\ Asked
  \/ client = "running" /\ (Resumes \/ Resumed)

\* The debugger has gone: what it has sent is still read.
Left ==
  /\ toClient = <<>>
  /\ at \in Running => buf = <<>> /\ toServer \in WithStop(<<>>)
  /\ at = "reply" =>
       /\ ~resumed /\ buf = <<>>
       /\ toServer \in {<<>>, <<Ack>>} \union WithStop(<<Ack, command>>)
  /\ at = "read" =>
       \/ buf = <<>> /\ toServer \in WithStop(<<>>)
       \/ buf \in WithStop(<<>>) /\ toServer = <<>>
       \/ ~resumed /\ buf = <<>> /\ toServer \in WithStop(<<command>>)
       \/ ~resumed /\ buf = <<command>> /\ toServer \in WithStop(<<>>)
       \/ ~resumed /\ buf \in WithStop(<<command>>) /\ toServer = <<>>

Alone == from = "connect" \/ MaxStops = 0

InStep ==
  /\ client = "running" \/ requested => command \in Resuming
  /\ requested => MaxStops > 0
  /\ conn # "open" => Unopened
  /\ Alone /\ conn = "open" => IF Gone THEN Left ELSE Open

\* What is in a queue that can end with a stop request.
LEMMA Stopping ==
  /\ \A q : q \in WithStop(<<>>) <=> q = <<>> \/ (requested /\ q = <<CtrlC>>)
  /\ \A q : q \in WithStop(<<command>>) <=>
              q = <<command>> \/ (requested /\ q = <<command, CtrlC>>)
  /\ \A q : q \in WithStop(<<Ack, command>>) <=>
              q = <<Ack, command>> \/ (requested /\ q = <<Ack, command, CtrlC>>)
  BY Queues DEF WithStop

LEMMA StoppingLater ==
  /\ \A q : q \in WithStop(<<>>)' <=> q = <<>> \/ (requested' /\ q = <<CtrlC>>)
  /\ \A q : q \in WithStop(<<command>>)' <=>
              q = <<command'>> \/ (requested' /\ q = <<command', CtrlC>>)
  /\ \A q : q \in WithStop(<<Ack, command>>)' <=>
              q = <<Ack, command'>> \/ (requested' /\ q = <<Ack, command', CtrlC>>)
  BY Queues DEF WithStop

LEMMA ConversationInit ==
  Init => InStep
BY DEF Init, InStep, Unopened, Running, Gone

LEMMA ConversationStep ==
  TypeOK /\ InStep /\ [Next]_vars => InStep'
<1> SUFFICES ASSUME TypeOK, InStep, [Next]_vars
             PROVE  InStep'
  OBVIOUS
<1>t. /\ command \in Command /\ requests \in 0 .. MaxStops /\ MaxStops \in Nat
      /\ client \in {"halted", "asked", "running", "gone"}
      /\ conn \in {"none", "connecting", "open"} /\ from \in {"connect", "trap"}
      /\ resumed \in BOOLEAN /\ requested \in BOOLEAN
  BY SizeAssumption DEF TypeOK
<1>p. /\ Ack # CtrlC /\ command # Ack /\ command # CtrlC
      /\ Continue # Ack /\ Step # Ack /\ Continue # CtrlC /\ Step # CtrlC
  BY <1>t, Packets
<1>w. /\ \A q : q \in WithStop(<<>>) <=> q = <<>> \/ (requested /\ q = <<CtrlC>>)
      /\ \A q : q \in WithStop(<<command>>) <=>
                  q = <<command>> \/ (requested /\ q = <<command, CtrlC>>)
      /\ \A q : q \in WithStop(<<Ack, command>>) <=>
                  q = <<Ack, command>> \/ (requested /\ q = <<Ack, command, CtrlC>>)
  BY Stopping
<1>x. /\ \A q : q \in WithStop(<<>>)' <=> q = <<>> \/ (requested' /\ q = <<CtrlC>>)
      /\ \A q : q \in WithStop(<<command>>)' <=>
                  q = <<command'>> \/ (requested' /\ q = <<command', CtrlC>>)
      /\ \A q : q \in WithStop(<<Ack, command>>)' <=>
                  q = <<Ack, command'>> \/ (requested' /\ q = <<Ack, command', CtrlC>>)
  BY StoppingLater
<1>1. CASE UNCHANGED vars
  BY <1>1, <1>w, <1>x DEF vars, core, debug, stub, wire, gdb, InStep, Unopened, Open,
     Halted, Asked, Resumes, Resumed, Left, Alone, Gone
<1>2. CASE Fetch
  BY <1>2, <1>w, <1>x DEF Fetch, debug, wire, gdb, Running, InStep, Unopened, Open,
     Halted, Asked, Resumes, Resumed, Left, Alone, Gone
<1>3. CASE Exception
  BY <1>3, <1>w, <1>x DEF Exception, debug, wire, gdb, Running, InStep, Unopened, Open,
     Halted, Asked, Resumes, Resumed, Left, Alone, Gone
<1>q. /\ <<CtrlC>> # <<>> /\ <<Ack>> # <<>> /\ <<command>> # <<>>
      /\ <<command, CtrlC>> # <<>> /\ <<Ack, command>> # <<>>
      /\ <<Ack, command, CtrlC>> # <<>> /\ <<reply>> # <<>>
      /\ Head(<<CtrlC>>) = CtrlC /\ Tail(<<CtrlC>>) = <<>>
      /\ Head(<<Ack>>) = Ack /\ Tail(<<Ack>>) = <<>>
      /\ Head(<<command>>) = command /\ Tail(<<command>>) = <<>>
      /\ Head(<<command, CtrlC>>) = command /\ Tail(<<command, CtrlC>>) = <<CtrlC>>
      /\ Head(<<Ack, command>>) = Ack /\ Tail(<<Ack, command>>) = <<command>>
      /\ Head(<<Ack, command, CtrlC>>) = Ack
      /\ Tail(<<Ack, command, CtrlC>>) = <<command, CtrlC>>
      /\ Tail(<<reply>>) = <<>>
  BY Queues
<1>4. CASE CheckRemote
  <2>1. CASE conn = "connecting"
    <3>1. /\ conn' = "open" /\ buf' = <<>> /\ ~resumed' /\ at' = "read" /\ from' = "connect"
          /\ UNCHANGED <<toServer, toClient, client, command, requested>>
      BY <1>4, <2>1 DEF CheckRemote, HandleSig, gdb
    <3>2. CASE Gone
      BY <1>w, <1>x, <2>1, <3>1, <3>2 DEF InStep, Unopened, Left, Gone, Running
    <3>3. CASE ~Gone
      BY <1>t, <1>w, <1>x, <2>1, <3>1, <3>3 DEF InStep, Unopened, Open, Halted, Asked, Resumes,
         Gone
    <3> QED
      BY <3>2, <3>3
  <2>2. CASE conn # "connecting"
    BY <1>4, <1>w, <1>x, <2>2 DEF CheckRemote, core, gdb, Running, InStep, Unopened, Open,
     Halted, Asked, Resumes, Resumed, Left, Alone, Gone
  <2> QED
    BY <2>1, <2>2
<1>h. ASSUME HandleSig("trap"), MaxStops = 0, conn = "open", at = "remote",
             UNCHANGED <<conn, client, command, requested>>,
             toServer' = toServer \/ toServer' = <<>>
      PROVE  InStep'
  <2>0. /\ reply' = "stop" /\ buf' = <<>> /\ ~resumed' /\ from' = "trap"
        /\ toClient' = IF Gone THEN toClient ELSE Append(toClient, "stop")
        /\ at' = "reply" \/ (Gone /\ at' = "killed")
    BY <1>h DEF HandleSig, PutPacket
  <2>1. toServer = <<>> /\ toClient = <<>> /\ toServer' = <<>>
    BY <1>h, <1>w DEF InStep, Alone, Open, Halted, Asked, Resumes, Resumed, Left, Running
  <2>2. CASE Gone
    BY <1>h, <1>w, <1>x, <2>0, <2>1, <2>2 DEF InStep, Left, Gone, Running
  <2>3. CASE ~Gone
    <3>1. client = "running" /\ command \in Resuming
      BY <1>h, <2>3 DEF InStep, Alone, Open, Halted, Asked
    <3>2. toClient' = <<reply'>>
      BY <2>0, <2>1, <2>3, Queues
    <3> QED
      BY <1>h, <2>0, <2>1, <2>3, <3>1, <3>2 DEF InStep, Alone, Open, Resumes, Gone
  <2> QED
    BY <2>2, <2>3
\* A stop that a stop request can have raced.
<1>n. ASSUME from' = "trap", conn = "open", MaxStops # 0,
             UNCHANGED <<conn, client, command, requested>>
      PROVE  InStep'
  BY <1>n DEF InStep, Alone
<1>5. CASE Trap
  BY <1>5, <1>h, <1>n DEF Trap, HandleSig, gdb
<1>6. CASE Poll
  <2>1. CASE toServer = <<CtrlC>>
    BY <1>6, <1>h, <1>n, <2>1 DEF Poll, HandleSig, gdb
  <2>2. CASE toServer # <<CtrlC>>
    BY <1>6, <1>w, <1>x, <2>2 DEF Poll, core, gdb, Running, InStep, Unopened, Open,
     Halted, Asked, Resumes, Resumed, Left, Alone, Gone
  <2> QED
    BY <2>1, <2>2
<1>7. CASE NotConnected
  BY <1>7, <1>w, <1>x DEF NotConnected, core, debug, wire, gdb, Running, InStep, Unopened,
     Open, Halted, Asked, Resumes, Resumed, Left, Alone, Gone
<1>8. CASE Execute
  BY <1>8, <1>w, <1>x DEF Execute, debug, wire, gdb, Running, InStep, Unopened, Open,
     Halted, Asked, Resumes, Resumed, Left, Alone, Gone
<1>9. CASE Return
  <2>1. /\ at = "read" /\ buf = <<>> /\ (resumed \/ Closed) /\ at' \in Running
        /\ UNCHANGED <<from, buf, resumed, reply, conn, toServer, toClient, client,
                       command, requested>>
    BY <1>9 DEF Return, Running, wire, gdb
  <2>2. conn = "open"
    BY <2>1 DEF InStep, Unopened, Running
  <2>3. CASE Gone
    BY <1>w, <1>x, <2>1, <2>2, <2>3 DEF InStep, Left, Alone, Gone, Running, Closed
  <2>4. CASE ~Gone
    BY <1>w, <1>x, <2>1, <2>2, <2>4 DEF InStep, Open, Halted, Asked, Resumes, Resumed,
       Alone, Gone, Closed
  <2> QED
    BY <2>3, <2>4
<1>10. CASE Read
  <2>1. /\ at = "read" /\ at' = "read" /\ buf = <<>> /\ ~resumed /\ buf' = toServer /\ toServer' = <<>>
        /\ UNCHANGED <<from, resumed, reply, conn, toClient, client, command, requested>>
    BY <1>10 DEF Read, gdb
  <2>2. conn = "open"
    BY <2>1 DEF InStep, Unopened, Running
  <2>3. CASE Gone
    BY <1>w, <1>x, <2>1, <2>2, <2>3 DEF InStep, Left, Alone, Gone, Running
  <2>4. CASE ~Gone
    BY <1>10, <1>w, <1>x, <2>1, <2>2, <2>4 DEF Read, InStep, Open, Halted, Asked, Resumes, Resumed,
       Alone, Gone
  <2> QED
    BY <2>3, <2>4
<1>11. CASE Handle
  <2> DEFINE p == Head(buf)
  <2>0. /\ at = "read" /\ buf # <<>> /\ buf' = Tail(buf)
        /\ UNCHANGED <<from, conn, toServer, client, command, requested>>
    BY <1>11 DEF Handle, gdb
  <2>1. conn = "open"
    BY <2>0 DEF InStep, Unopened, Running
  <2>2. CASE Alone
    <3>1. ASSUME Gone
          PROVE  \/ p = command /\ (buf' = <<>> \/ (requested /\ buf' = <<CtrlC>> /\ toServer = <<>>))
                    /\ toServer \in WithStop(<<>>)
                 \/ p = CtrlC /\ requested /\ buf' = <<>> /\ toServer = <<>>
      BY <1>w, <1>q, <2>0, <2>1, <2>2, <3>1 DEF InStep, Left, Running
    <3>2. ASSUME ~Gone
          PROVE  \/ /\ client = "asked" /\ p = command /\ ~resumed /\ command \notin Resuming
                    /\ buf' = <<>> /\ toServer = <<>> /\ toClient = <<>>
                 \/ /\ client = "running" /\ p = command /\ ~resumed /\ command \in Resuming
                    /\ buf' = <<>> /\ toServer \in WithStop(<<>>) /\ toClient = <<>>
                 \/ /\ client = "running" /\ p = command /\ ~resumed /\ command \in Resuming
                    /\ buf' = <<CtrlC>> /\ requested /\ toServer = <<>> /\ toClient = <<>>
                 \/ /\ client = "running" /\ p = CtrlC /\ resumed /\ command \in Resuming
                    /\ buf' = <<>> /\ toServer = <<>> /\ toClient = <<>>
      BY <1>w, <1>q, <2>0, <2>1, <2>2, <3>2 DEF InStep, Open, Halted, Asked, Resumes, Resumed,
         Running
    <3>3. CASE p \in {Ack, CtrlC}
      <4>1. UNCHANGED <<reply, toClient, at, resumed>>
        BY <1>11, <1>p, <3>3, Packets DEF Handle
      <4>2. p = CtrlC
        BY <1>p, <3>1, <3>2, <3>3
      <4>3. CASE Gone
        BY <1>p, <1>w, <1>x, <2>0, <2>1, <2>2, <3>1, <4>1, <4>2, <4>3 DEF InStep, Left, Alone,
           Gone, Running
      <4>4. CASE ~Gone
        BY <1>p, <1>w, <1>x, <2>0, <2>1, <2>2, <3>2, <4>1, <4>2, <4>4 DEF InStep, Open, Resumed,
           Alone, Gone, Running
      <4> QED
        BY <4>3, <4>4
    <3>4. CASE p \in Resuming
      <4>1. resumed' /\ at' \in {at, "killed"} /\ (~Gone => at' = at) /\ UNCHANGED <<reply, toClient>>
        BY <1>11, <1>p, <3>4 DEF Handle, Resume, Resuming
      <4>2. p = command
        BY <1>p, <3>1, <3>2, <3>4 DEF Resuming
      <4>3. CASE Gone
        BY <1>p, <1>w, <1>x, <2>0, <2>1, <2>2, <3>1, <4>1, <4>2, <4>3 DEF InStep, Left, Alone,
           Gone, Running
      <4>4. CASE ~Gone
        BY <1>p, <1>w, <1>x, <2>0, <2>1, <2>2, <3>2, <3>4, <4>1, <4>2, <4>4 DEF InStep, Open, Resumed,
           Alone, Gone, Running
      <4> QED
        BY <4>3, <4>4
    <3>5. CASE p \in Command \ Resuming
      <4>1. PICK r \in Reply : PutPacket(r) /\ UNCHANGED resumed
        BY <1>11, <1>p, <3>5, Packets DEF Handle, Answer, Resuming
      <4>2. p = command /\ ~requested
        BY <1>p, <3>1, <3>2, <3>5, Packets DEF InStep
      <4>3. CASE Gone
        BY <1>p, <1>w, <1>x, <2>0, <2>1, <2>2, <3>1, <4>1, <4>2, <4>3 DEF InStep, Left, Alone,
           Gone, Running, PutPacket
      <4>4. CASE ~Gone
        <5>1. toClient' = <<r>> /\ reply' = r /\ at' = "reply"
          BY <3>2, <3>5, <4>1, <4>2, <4>4, Queues DEF PutPacket
        <5> QED
          BY <2>0, <2>1, <2>2, <3>2, <3>5, <4>1, <4>2, <4>4, <5>1 DEF InStep, Open, Asked, Alone, Gone
      <4> QED
        BY <4>3, <4>4
    <3> QED
      BY <1>11, <3>3, <3>4, <3>5 DEF Handle, Resuming
  <2>3. CASE ~Alone
    BY <2>0, <2>1, <2>3 DEF InStep, Alone
  <2> QED
    BY <2>2, <2>3
<1>12. CASE WaitForAck
  <2>0. /\ at = "reply"
        /\ UNCHANGED <<from, buf, resumed, conn, client, command, requested>>
    BY <1>12 DEF WaitForAck, gdb
  <2>1. conn = "open"
    BY <2>0 DEF InStep, Unopened, Running
  <2>2. CASE Alone /\ Gone
    <3>1. buf = <<>> /\ toClient = <<>> /\ toServer \in {<<>>, <<Ack>>} \union WithStop(<<Ack, command>>)
      BY <2>0, <2>1, <2>2 DEF InStep, Left
    <3>2. at' = "read" /\ UNCHANGED toClient
          /\ \/ toServer = <<>> /\ toServer' = <<>>
             \/ toServer # <<>> /\ toServer' = Tail(toServer)
      BY <1>12, <1>p, <1>q, <1>w, <3>1 DEF WaitForAck, wire, Closed
    <3> QED
      BY <1>q, <1>w, <1>x, <2>0, <2>1, <2>2, <3>1, <3>2 DEF InStep, Left, Alone, Gone, Running
  <2>3. CASE Alone /\ ~Gone
    <3>1. toServer # <<>> /\ toServer' = Tail(toServer) /\ Head(toServer) = Ack
          /\ at' = "read" /\ UNCHANGED <<reply, toClient>>
      BY <1>12, <1>p, <1>q, <1>w, <2>0, <2>1, <2>3 DEF WaitForAck, Closed, InStep, Open, Halted,
         Asked, Resumes, Resumed, Running
    <3> QED
      BY <1>q, <1>w, <1>x, <2>0, <2>1, <2>3, <3>1 DEF InStep, Open, Halted,
         Asked, Resumes, Resumed, Running, Alone, Gone
  <2>4. CASE ~Alone
    BY <2>0, <2>1, <2>4 DEF InStep, Alone
  <2> QED
    BY <2>2, <2>3, <2>4
<1>13. CASE Connect
  BY <1>13, <1>w, <1>x DEF Connect, core, debug, stub, gdb, InStep, Unopened, Alone, Gone
<1>14. ASSUME NEW c \in Command, Ask(c)
       PROVE  InStep'
  <2>0. /\ client = "halted" /\ conn # "none" /\ command' = c /\ ~requested'
        /\ client' = IF c \in Resuming THEN "running" ELSE "asked"
        /\ toServer' = Append(toServer, c)
        /\ UNCHANGED <<at, from, buf, resumed, reply, breaks, conn, toClient, stops, wanted>>
    BY <1>14 DEF Ask, debug, stub, Resuming
  <2>1. Append(<<>>, c) = <<c>> /\ Append(<<Ack>>, c) = <<Ack, c>>
    BY AppendToOne
  <2>2. CASE conn # "open"
    BY <1>x, <2>0, <2>1, <2>2 DEF InStep, Unopened, Alone, Gone
  <2>3. CASE conn = "open"
    BY <1>x, <2>0, <2>1, <2>3 DEF InStep, Open, Halted, Asked, Resumes, Alone, Gone
  <2> QED
    BY <2>2, <2>3
<1>15. CASE RequestStop
  <2>0. /\ client = "running" /\ ~requested /\ requested' /\ MaxStops > 0
        /\ toServer' = Append(toServer, CtrlC)
        /\ UNCHANGED <<at, from, buf, resumed, reply, breaks, conn, toClient, client, command, stops, wanted>>
    BY <1>15, <1>t DEF RequestStop, debug, stub
  <2>1. /\ Append(<<>>, CtrlC) = <<CtrlC>> /\ Append(<<command>>, CtrlC) = <<command, CtrlC>>
        /\ Append(<<Ack, command>>, CtrlC) = <<Ack, command, CtrlC>>
    BY AppendToOne, AppendToTwo
  <2>2. CASE conn # "open"
    BY <1>w, <1>x, <2>0, <2>1, <2>2 DEF InStep, Unopened, Alone, Gone
  <2>3. CASE conn = "open" /\ from = "connect"
    <3>1. Resumes \/ Resumed
      BY <2>0, <2>3 DEF InStep, Open, Alone, Gone
    <3>2. Resumes' \/ Resumed'
      BY <1>w, <1>x, <2>0, <2>1, <2>3, <3>1 DEF Resumes, Resumed
    <3> QED
      BY <2>0, <2>3, <3>2 DEF InStep, Open, Gone, Alone
  <2>4. CASE conn = "open" /\ from # "connect"
    BY <1>t, <2>0, <2>4 DEF InStep, Alone
  <2> QED
    BY <2>2, <2>3, <2>4
<1>16. CASE Receive
  <2>0. /\ client \in {"asked", "running"} /\ toClient # <<>> /\ toClient' = Tail(toClient)
        /\ toServer' = Append(toServer, Ack) /\ client' = "halted"
        /\ UNCHANGED <<at, from, buf, resumed, reply, conn, command, requested>>
    BY <1>16 DEF Receive, stub
  <2>1. conn = "open"
    BY <2>0 DEF InStep, Unopened
  <2>2. Append(<<>>, Ack) = <<Ack>>
    BY Queues
  <2>3. CASE Alone
    BY <1>q, <2>0, <2>1, <2>2, <2>3 DEF InStep, Open, Halted, Asked, Resumes, Resumed, Alone, Gone
  <2>4. CASE ~Alone
    BY <2>0, <2>1, <2>4 DEF InStep, Alone
  <2> QED
    BY <2>3, <2>4
<1>17. CASE Leave
  <2>0. /\ ~Gone /\ conn # "none" /\ Gone' /\ toClient' = <<>>
        /\ toServer' \in {toServer, <<>>}
        /\ UNCHANGED <<at, from, buf, resumed, reply, breaks, conn, command, requested, stops>>
        /\ wanted = {} => wanted' = {}
    BY <1>17 DEF Leave, debug, stub, Gone
  <2>1. CASE conn # "open"
    BY <1>t, <1>w, <1>x, <2>0, <2>1 DEF InStep, Unopened, Alone, Gone
  <2>2. CASE conn = "open" /\ Alone
    <3>1. Open
      BY <2>0, <2>2 DEF InStep
    <3>2. Left'
      BY <1>w, <1>x, <2>0, <3>1 DEF Open, Halted, Asked, Resumes, Resumed, Left, Running
    <3> QED
      BY <2>0, <2>2, <3>2 DEF InStep, Alone, Gone
  <2>3. CASE conn = "open" /\ ~Alone
    BY <2>0, <2>3 DEF InStep, Alone, Gone
  <2> QED
    BY <2>1, <2>2, <2>3
<1> QED
  BY <1>1, <1>2, <1>3, <1>4, <1>5, <1>6, <1>7, <1>8, <1>9, <1>10, <1>11, <1>12,
     <1>13, <1>14, <1>15, <1>16, <1>17 DEF Next, Emulate, Serve, Client

-----------------------------------------------------------------------------
(* The pipeline.                                                           *)

Aligned == pipe = <<pc, Plus(pc, 1), Plus(pc, 2)>>

\* The pipeline starts at the PC, or it will be refilled: by what the last
\* instruction, exception or stop has left in flush, or after the stop in
\* which the PC was set.
Follows ==
  /\ at = "next" /\ flush = NoFlush => Aligned
  /\ at \in {"fetched", "remote", "execute"} => Aligned
  /\ at \in {"read", "reply"} => changed \/ Aligned
  /\ changed => at \in {"read", "reply", "killed"} /\ from = "trap"
  /\ at \in {"fetched", "remote", "execute", "read", "reply"} => flush = NoFlush

\* Before the first stop the debugger does not set the PC.
NoPcYet == from = "connect" => ~stops /\ command.type # "G"

PipelineInv == TypeOK /\ InStep /\ NoPcYet /\ Follows

LEMMA PipelineInit ==
  Init => PipelineInv
BY TypeInit, ConversationInit DEF Init, PipelineInv, NoPcYet, Follows, NoFlush, Continue

LEMMA NoPcYetStep ==
  ~PcAtConnect /\ PipelineInv /\ [Next]_vars => NoPcYet'
<1> SUFFICES ASSUME ~PcAtConnect, TypeOK, InStep, NoPcYet, [Next]_vars, from' = "connect"
             PROVE  ~stops' /\ command'.type # "G"
  BY DEF PipelineInv, NoPcYet
<1>1. CASE UNCHANGED <<from, stops, command>>
  BY <1>1 DEF NoPcYet
<1>2. ASSUME NEW c \in Command, Ask(c)
      PROVE  ~stops' /\ command'.type # "G"
  BY <1>2 DEF Ask, stub, NoPcYet
<1>3. CASE Receive
  <2>1. UNCHANGED <<from, command>> /\ toClient # <<>> /\ (stops' => stops \/ client = "running")
        /\ client \in {"asked", "running"}
    BY <1>3 DEF Receive, stub
  <2>2. client # "running"
    BY <2>1 DEF InStep, Unopened, Open, Resumes, Resumed, Alone, Gone
  <2> QED
    BY <2>1, <2>2 DEF NoPcYet
<1>4. CASE CheckRemote
  <2>1. conn = "connecting" => from = "connect"
    BY DEF InStep, Unopened
  <2> QED
    BY <1>4, <2>1 DEF CheckRemote, HandleSig, gdb, NoPcYet
<1>5. ASSUME Trap \/ Poll
      PROVE  UNCHANGED <<from, stops, command>>
  BY <1>5 DEF Trap, Poll, HandleSig, gdb
<1>6. CASE Emulate \/ Serve
  BY <1>1, <1>4, <1>5, <1>6 DEF Emulate, Serve, Fetch, Exception, NotConnected, Execute,
     Return, Read, Handle, WaitForAck, gdb
<1>7. CASE Connect \/ RequestStop \/ Leave
  BY <1>1, <1>7 DEF Connect, RequestStop, Leave, stub, gdb
<1> QED
  BY <1>1, <1>2, <1>3, <1>6, <1>7 DEF Next, Client, vars, stub, gdb

\* The command handled is the last one of the debugger.
LEMMA HandlesCommand ==
  ASSUME TypeOK, InStep, Alone, Handle, Head(buf) \in Command
  PROVE  Head(buf) = command
<1>1. at = "read" /\ buf # <<>>
  BY DEF Handle
<1>2. conn = "open"
  BY <1>1 DEF InStep, Unopened, Running
<1>3. buf = <<command>> \/ buf = <<command, CtrlC>> \/ buf = <<CtrlC>>
  <2>1. CASE Gone
    BY <1>1, <1>2, <2>1, Stopping DEF InStep, Left
  <2>2. CASE ~Gone
    BY <1>1, <1>2, <2>2, Stopping DEF InStep, Open, Halted, Asked, Resumes, Resumed
  <2> QED
    BY <2>1, <2>2
<1>4. Head(<<command>>) = command /\ Head(<<command, CtrlC>>) = command
      /\ Head(<<CtrlC>>) = CtrlC
  BY Queues
<1> QED
  BY <1>3, <1>4, Packets

LEMMA FollowsStep ==
  PipelineInv /\ [Next]_vars => Follows'
<1> SUFFICES ASSUME TypeOK, InStep, NoPcYet, Follows, [Next]_vars
             PROVE  Follows'
  BY DEF PipelineInv
<1>0. pc \in Addr /\ flush \in Addr \union {NoFlush} /\ changed \in BOOLEAN
      /\ at \in {"next", "fetched", "remote", "execute", "reply", "read", "killed"}
      /\ Vector \in Addr /\ NoFlush \notin Addr
  BY SizeAssumption DEF TypeOK, Vector, Addr, NoFlush
<1>1. CASE UNCHANGED <<core, debug, at, from>>
  BY <1>1 DEF Follows, Aligned, core, debug
<1>2. CASE Fetch
  <2>1. /\ at = "next" /\ at' = "fetched" /\ flush' = NoFlush
        /\ UNCHANGED <<changed, from>> /\ ~changed
    BY <1>2 DEF Fetch, Follows, debug
  <2>2. Aligned'
    <3>1. CASE flush = NoFlush
      <4>1. Plus(Plus(pc, 1), 1) = Plus(pc, 2) /\ Plus(Plus(pc, 1), 2) = Plus(pc, 3)
        BY <1>0, Wraps
      <4>2. pipe[2] = Plus(pc, 1) /\ pipe[3] = Plus(pc, 2)
        BY <2>1, <3>1 DEF Follows, Aligned
      <4> QED
        BY <1>2, <3>1, <4>1, <4>2 DEF Fetch, Aligned
    <3>2. CASE flush # NoFlush
      BY <1>2, <3>2 DEF Fetch, Aligned
    <3> QED
      BY <3>1, <3>2
  <2> QED
    BY <2>1, <2>2 DEF Follows
<1>3. CASE Exception
  BY <1>0, <1>3 DEF Exception, Follows, debug
<1>h. ASSUME NEW c \in {"trap", "connect"}, HandleSig(c), UNCHANGED <<core, changed>>,
             at \in {"fetched", "remote"}
      PROVE  Follows'
  <2>1. at' \in {"reply", "killed", "read"} /\ ~changed
    BY <1>h DEF HandleSig, PutPacket, Follows
  <2> QED
    BY <1>h, <2>1 DEF Follows, Aligned, core
<1>4. CASE CheckRemote
  BY <1>4, <1>h DEF CheckRemote, Follows, Aligned, core
<1>5. CASE Trap
  BY <1>5, <1>h DEF Trap
<1>6. CASE Poll
  BY <1>6, <1>h DEF Poll, Follows, Aligned, core
<1>7. CASE NotConnected
  BY <1>7 DEF NotConnected, Follows, Aligned, core, debug
<1>8. CASE Execute
  <2>1. at' = "next" /\ flush' \in Addr \union {NoFlush} /\ ~changed'
        /\ UNCHANGED <<pc, pipe>> /\ Aligned
    BY <1>8 DEF Execute, Follows, debug
  <2> QED
    BY <2>1 DEF Follows, Aligned
<1>9. CASE Return
  <2>1. CASE changed
    BY <1>0, <1>9, <2>1 DEF Return, Follows
  <2>2. CASE ~changed
    BY <1>9, <2>2 DEF Return, Follows, Aligned
  <2> QED
    BY <2>1, <2>2
<1>10. CASE Read
  BY <1>1, <1>10 DEF Read
<1>11. CASE Handle
  <2> DEFINE p == Head(buf)
  <2>0. at = "read" /\ UNCHANGED <<pipe, flush, from>>
    BY <1>11 DEF Handle
  <2>1. CASE UNCHANGED <<pc, changed>> /\ at' \in {at, "reply", "killed"}
    BY <2>0, <2>1 DEF Follows, Aligned
  <2>2. CASE p \in {Ack, CtrlC} \/ p \in {Continue, Step}
    BY <1>11, <2>1, <2>2, Packets DEF Handle, Resume
  <2>3. ASSUME p \in Command \ {Continue, Step}, Answer(p), p.type # "G"
        PROVE  Follows'
    BY <2>1, <2>3 DEF Answer, PutPacket
  <2>4. ASSUME p \in Command \ {Continue, Step}, Answer(p), p.type = "G"
        PROVE  Follows'
    <3>1. from = "trap"
      BY <1>11, <2>4, HandlesCommand DEF NoPcYet, Alone, TypeOK
    <3>2. /\ pc' = p.addr /\ changed' = (changed \/ p.addr # pc)
          /\ at' \in {"reply", "killed"}
      BY <2>4 DEF Answer, PutPacket
    <3> QED
      BY <2>0, <3>1, <3>2 DEF Follows, Aligned
  <2> QED
    BY <1>11, <2>2, <2>3, <2>4 DEF Handle
<1>12. CASE WaitForAck
  <2>1. at = "reply" /\ at' \in {"read", "reply", "killed"} /\ UNCHANGED <<core, debug, from>>
    BY <1>12 DEF WaitForAck, PutPacket
  <2> QED
    BY <2>1 DEF Follows, Aligned, core, debug
<1>13. CASE Client
  BY <1>1, <1>13 DEF Client, Connect, Ask, RequestStop, Receive, Leave, stub
<1> QED
  BY <1>1, <1>2, <1>3, <1>4, <1>5, <1>6, <1>7, <1>8, <1>9, <1>10, <1>11, <1>12,
     <1>13 DEF Next, Emulate, Serve, vars, stub

(***************************************************************************)
(* The instruction executed is the one at the PC, for any number of stop   *)
(* requests at any time, whatever breakpoints are removed, and whether or  *)
(* not the debugger goes away, if it does not set the PC before it has     *)
(* seen the target stop.                                                   *)
(***************************************************************************)
THEOREM PipelineInvariance ==
  ~PcAtConnect => (Spec => []ExecutesAtPc)
<1> SUFFICES ASSUME ~PcAtConnect
             PROVE  Spec => []ExecutesAtPc
  OBVIOUS
<1>1. Init => PipelineInv
  BY PipelineInit
<1>2. PipelineInv /\ [Next]_vars => PipelineInv'
  BY TypeStep, ConversationStep, NoPcYetStep, FollowsStep DEF PipelineInv
<1>3. PipelineInv => ExecutesAtPc
  BY DEF PipelineInv, Follows, Aligned, ExecutesAtPc
<1> QED
  BY <1>1, <1>2, <1>3, PTL DEF Spec

-----------------------------------------------------------------------------
(* The breakpoints, when no stop requests race replies and the debugger    *)
(* removes only what it has inserted.                                      *)

Distinct(s) == \A i, j \in DOMAIN s : s[i] = s[j] => i = j

\* What an array without repetitions holds.
LEMMA DistinctCount ==
  ASSUME NEW S, NEW s \in Seq(S), Distinct(s)
  PROVE  Len(s) = Cardinality(ToSet(s))
<1>1. Len(s) \in Nat /\ DOMAIN s = 1 .. Len(s)
  OBVIOUS
<1>2. s \in Bijection(1 .. Len(s), ToSet(s))
  <2>1. s \in [1 .. Len(s) -> ToSet(s)]
    BY <1>1 DEF ToSet
  <2>2. \A t \in ToSet(s) : \E i \in 1 .. Len(s) : s[i] = t
    BY <1>1 DEF ToSet
  <2>3. \A i, j \in 1 .. Len(s) : s[i] = s[j] => i = j
    BY <1>1 DEF Distinct
  <2> QED
    BY <2>1, <2>2, <2>3, Fun_IsBij
<1>3. Cardinality(1 .. Len(s)) = Len(s) /\ IsFiniteSet(1 .. Len(s))
  BY <1>1, FS_Interval
<1>4. ExistsBijection(1 .. Len(s), ToSet(s))
  BY <1>2 DEF ExistsBijection
<1> QED
  BY <1>3, <1>4, FS_Bijection

\* Inserting a breakpoint that is not there, and removing one that is.
LEMMA Inserted ==
  ASSUME breaks \in Seq(Addr), Distinct(breaks), NEW a \in Addr, a \notin Breaks
  PROVE  /\ Distinct(Append(breaks, a))
         /\ ToSet(Append(breaks, a)) = Breaks \union {a}
<1> DEFINE n == Len(breaks)
           s == Append(breaks, a)
<1>1. /\ n \in Nat /\ DOMAIN breaks = 1 .. n /\ DOMAIN s = 1 .. n+1
      /\ \A i \in 1 .. n : s[i] = breaks[i]
      /\ s[n+1] = a
  OBVIOUS
<1>2. \A i \in 1 .. n+1 : i \in 1 .. n \/ i = n+1
  BY <1>1
<1>3. 1 .. n \subseteq 1 .. n+1 /\ n+1 \in 1 .. n+1
  BY <1>1
<1> HIDE DEF s, n
<1>4. \A i \in 1 .. n : s[i] # a
  BY <1>1 DEF Breaks, ToSet
<1>5. Distinct(s)
  BY <1>1, <1>2, <1>4 DEF Distinct
<1>6. ToSet(s) = ToSet(breaks) \union {a}
  BY <1>1, <1>2, <1>3 DEF ToSet
<1> QED
  BY <1>5, <1>6 DEF s, Breaks

LEMMA Removed ==
  ASSUME breaks \in Seq(Addr), Distinct(breaks), NEW a \in Breaks
  PROVE  /\ Distinct(Without(a))
         /\ ToSet(Without(a)) = Breaks \ {a}
<1> DEFINE n == Len(breaks)
           s == Without(a)
<1>1. n \in Nat /\ DOMAIN breaks = 1 .. n
  OBVIOUS
<1>2. PICK k \in 1 .. n : breaks[k] = a
  BY <1>1 DEF Breaks, ToSet
<1>3. n # 0 /\ breaks # <<>>
  BY <1>1, <1>2
<1>4. s = [i \in 1 .. n-1 |-> IF breaks[i] = a THEN breaks[n] ELSE breaks[i]]
  BY <1>3 DEF Without, Last
<1>5. /\ DOMAIN s = 1 .. n-1
      /\ \A i \in 1 .. n-1 : s[i] = breaks[IF i = k THEN n ELSE i]
  BY <1>1, <1>2, <1>4 DEF Distinct
<1> HIDE DEF s, n
<1>6. Distinct(s)
  BY <1>1, <1>2, <1>3, <1>5 DEF Distinct
<1>7. ToSet(s) \subseteq Breaks \ {a}
  BY <1>1, <1>2, <1>3, <1>5 DEF Distinct, ToSet, Breaks
<1>8. Breaks \ {a} \subseteq ToSet(s)
  <2> SUFFICES ASSUME NEW j \in 1 .. n, breaks[j] # a
               PROVE  breaks[j] \in ToSet(s)
    BY <1>1 DEF Breaks, ToSet
  <2>1. CASE j = n
    BY <1>1, <1>2, <1>5, <2>1 DEF ToSet
  <2>2. CASE j # n
    BY <1>1, <1>2, <1>5, <2>2 DEF ToSet
  <2> QED
    BY <2>1, <2>2
<1> QED
  BY <1>6, <1>7, <1>8 DEF s

\* The last command has not been handled.
Unanswered == command \in ToSet(buf) \union ToSet(toServer)

\* What the debugger takes for inserted when it reads the answer.
Informed ==
  IF reply = "OK" /\ command.type = "Z" THEN wanted \union {command.addr}
  ELSE IF reply = "OK" /\ command.type = "z" THEN wanted \ {command.addr}
  ELSE wanted

(***************************************************************************)
(* The array holds what the debugger has inserted, up to the command that  *)
(* is under way.  A debugger that goes away while its removal of a         *)
(* breakpoint is under way does not know whether it is there.              *)
(***************************************************************************)
Kept ==
  /\ Distinct(breaks)
  /\ client \in {"halted", "running"} => Breaks = wanted
  /\ client = "asked" /\ Unanswered =>
       /\ Breaks = wanted
       /\ command.type = "z" => command.addr \in wanted
  /\ client = "asked" /\ ~Unanswered => Breaks = Informed
  /\ Gone => /\ wanted \subseteq Breaks
             /\ Unanswered /\ command.type = "z" => command.addr \in Breaks \ wanted

BreakInv == TypeOK /\ InStep /\ Kept

LEMMA BreakInit ==
  Init => BreakInv
<1> SUFFICES ASSUME Init
             PROVE  Kept
  BY TypeInit, ConversationInit DEF BreakInv
<1> QED
  BY DEF Init, Kept, Distinct, Breaks, ToSet, Gone

\* A step in which the debugger takes no part and no command is handled.
LEMMA KeptMeanwhile ==
  ASSUME Kept, UNCHANGED <<breaks, wanted, client, command>>,
         client = "asked" => UNCHANGED <<reply, Unanswered>>,
         Unanswered' => Unanswered
  PROVE  Kept'
BY DEF Kept, Distinct, Breaks, Gone, Informed

LEMMA KeptStep ==
  ASSUME MaxStops = 0, ~Spurious, BreakInv, [Next]_vars
  PROVE  Kept'
<1>t. /\ TypeOK /\ InStep /\ Kept /\ Alone /\ ~requested
      /\ command \in Command /\ breaks \in Seq(Addr)
      /\ client \in {"halted", "asked", "running", "gone"}
      /\ conn \in {"none", "connecting", "open"}
  BY Array DEF BreakInv, InStep, Alone, TypeOK
<1>p. command # Ack /\ command # CtrlC /\ Ack # CtrlC
      /\ \A c \in Command : c.type \in {"Z", "z", "G"} <=> c \notin Resuming
  BY <1>t, Packets DEF Resuming
<1>q. /\ ToSet(<<>>) = {} /\ ToSet(<<Ack>>) = {Ack} /\ ToSet(<<command>>) = {command}
      /\ ToSet(<<Ack, command>>) = {Ack, command}
      /\ Tail(<<command>>) = <<>> /\ Tail(<<Ack>>) = <<>> /\ Tail(<<Ack, command>>) = <<command>>
  <2>1. \A a, b : /\ ToSet(<<>>) = {} /\ ToSet(<<a>>) = {a} /\ ToSet(<<a, b>>) = {a, b}
                  /\ Tail(<<a>>) = <<>> /\ Tail(<<a, b>>) = <<b>>
    <3>1. ASSUME NEW a, NEW b
          PROVE  /\ ToSet(<<>>) = {} /\ ToSet(<<a>>) = {a} /\ ToSet(<<a, b>>) = {a, b}
                 /\ Tail(<<a>>) = <<>> /\ Tail(<<a, b>>) = <<b>>
      BY DEF ToSet
    <3> QED
      BY <3>1
  <2> QED
    BY <2>1, Zenon
<1>w. /\ \A q : q \in WithStop(<<>>) <=> q = <<>>
      /\ \A q : q \in WithStop(<<command>>) <=> q = <<command>>
      /\ \A q : q \in WithStop(<<Ack, command>>) <=> q = <<Ack, command>>
  BY <1>t, Stopping
<1>1. CASE UNCHANGED <<breaks, buf, toServer, wanted, client, command, reply>>
  BY <1>t, <1>1, KeptMeanwhile DEF Unanswered
<1>2. CASE Fetch \/ Exception \/ NotConnected \/ Execute \/ Return \/ Connect \/ UNCHANGED vars
  BY <1>1, <1>2 DEF Fetch, Exception, NotConnected, Execute, Return, Connect, vars, debug,
     stub, wire, gdb
\* While the target runs no command is under way.
<1>r. ASSUME at \in Running, conn = "open"
      PROVE  client # "asked" /\ ~Unanswered /\ buf = <<>> /\ toServer = <<>>
  <2>1. client # "asked" /\ buf = <<>> /\ toServer = <<>>
    BY <1>r, <1>t, <1>w DEF InStep, Left, Open, Halted, Asked, Resumes, Resumed, Running, Gone
  <2> QED
    BY <1>q, <2>1 DEF Unanswered
<1>4. CASE CheckRemote
  <2>1. CASE conn = "connecting"
    <3>1. buf = <<>>
      BY <1>t, <2>1 DEF InStep, Unopened
    <3>2. /\ buf' = <<>> /\ UNCHANGED <<breaks, toServer, wanted, client, command, reply>>
      BY <1>4, <2>1 DEF CheckRemote, HandleSig, gdb
    <3> QED
      BY <1>1, <3>1, <3>2
  <2>2. CASE conn # "connecting"
    BY <1>1, <1>4, <2>2 DEF CheckRemote, gdb
  <2> QED
    BY <2>1, <2>2
<1>5. CASE Trap \/ Poll
  <2>1. /\ at = "remote" /\ conn = "open" /\ UNCHANGED <<breaks, wanted, client, command>>
        /\ buf' \in {buf, <<>>} /\ toServer' \in {toServer, <<>>}
    BY <1>5 DEF Trap, Poll, HandleSig, gdb
  <2>2. client # "asked" /\ ~Unanswered'
    BY <1>q, <1>r, <2>1 DEF Running, Unanswered
  <2> QED
    BY <1>t, <2>1, <2>2, KeptMeanwhile
<1>6. CASE Read
  <2>1. /\ buf = <<>> /\ buf' = toServer /\ toServer' = <<>>
        /\ UNCHANGED <<breaks, wanted, client, command, reply>>
    BY <1>6 DEF Read, debug, gdb
  <2>2. UNCHANGED Unanswered
    BY <1>q, <2>1 DEF Unanswered
  <2> QED
    BY <1>t, <2>1, <2>2, KeptMeanwhile
<1>7. CASE Handle
  <2> DEFINE p == Head(buf)
  <2>0. /\ at = "read" /\ buf # <<>> /\ buf' = Tail(buf)
        /\ UNCHANGED <<conn, toServer, client, wanted, command>>
    BY <1>7 DEF Handle, gdb
  <2>1. conn = "open"
    BY <1>t, <2>0 DEF InStep, Unopened, Running
  <2>2. buf = <<command>> /\ toServer = <<>> /\ client \in {"asked", "running", "gone"}
        /\ (client = "asked" => command \notin Resuming)
        /\ (client = "running" => command \in Resuming)
    BY <1>t, <1>w, <2>0, <2>1 DEF InStep, Left, Open, Halted, Asked, Resumes, Resumed,
       Running, Gone
  <2>3. p = command /\ Unanswered /\ ~Unanswered'
    <3>1. p = command
      BY <2>2, Queues
    <3> QED
      BY <1>q, <2>0, <2>2, <3>1 DEF Unanswered
  <2>4. CASE p \in Resuming
    <3>1. UNCHANGED breaks
      BY <1>7, <1>p, <2>3, <2>4 DEF Handle, Resume, Resuming
    <3> QED
      BY <1>t, <2>0, <2>2, <2>3, <2>4, <3>1, KeptMeanwhile
  <2>5. CASE p \notin Resuming
    <3>1. Answer(command) /\ command.addr \in Addr
      BY <1>7, <1>p, <1>t, <2>3, <2>5, Packets DEF Handle, Resuming
    <3>2. reply' \in {"OK", "E22"}
          /\ \/ /\ command.type = "Z" /\ command.addr \in Breaks /\ UNCHANGED breaks
                /\ reply' = "OK"
             \/ /\ command.type = "Z" /\ command.addr \notin Breaks /\ reply' = "OK"
                /\ breaks' = Append(breaks, command.addr)
             \/ command.type = "Z" /\ reply' = "E22" /\ UNCHANGED breaks
             \/ command.type = "z" /\ reply' = "OK" /\ breaks' = Without(command.addr)
             \/ command.type = "G" /\ UNCHANGED breaks
      BY <3>1 DEF Answer, PutPacket
    <3>3. command.type = "z" => command.addr \in Breaks
      BY <1>t, <2>2, <2>3, <2>5 DEF Kept, Gone
    <3>4. /\ Distinct(breaks')
          /\ Breaks' = IF command.type = "Z" /\ reply' = "OK" THEN Breaks \union {command.addr}
                       ELSE IF command.type = "z" /\ reply' = "OK" THEN Breaks \ {command.addr}
                       ELSE Breaks
      <4>1. CASE UNCHANGED breaks
        BY <1>t, <3>1, <3>2, <4>1, Removed DEF Kept, Breaks
      <4>2. CASE command.type = "Z" /\ command.addr \notin Breaks /\ reply' = "OK"
                 /\ breaks' = Append(breaks, command.addr)
        BY <1>t, <3>1, <4>2, Inserted DEF Kept, Breaks
      <4>3. CASE command.type = "z" /\ reply' = "OK" /\ breaks' = Without(command.addr)
        BY <1>t, <3>1, <3>3, <4>3, Removed DEF Kept, Breaks
      <4> QED
        BY <3>2, <4>1, <4>2, <4>3
    <3>5. CASE Gone
      BY <1>t, <2>0, <2>3, <3>4, <3>5 DEF Kept, Gone
    <3>6. CASE ~Gone
      <4>1. client = "asked" /\ Breaks = wanted
        BY <1>t, <2>2, <2>3, <2>5, <3>6 DEF Kept, Gone
      <4>2. Breaks' = Informed'
        BY <2>0, <3>4, <4>1 DEF Informed
      <4> QED
        BY <2>0, <2>3, <3>4, <4>1, <4>2 DEF Kept, Gone
    <3> QED
      BY <3>5, <3>6
  <2> QED
    BY <2>4, <2>5
<1>8. CASE WaitForAck
  <2>1. /\ at = "reply" /\ UNCHANGED <<breaks, buf, wanted, client, command>>
    BY <1>8 DEF WaitForAck, debug, gdb
  <2>2. conn = "open"
    BY <1>t, <2>1 DEF InStep, Unopened, Running
  <2>3. buf = <<>> /\ toServer \in {<<>>, <<Ack>>, <<Ack, command>>}
    BY <1>t, <1>w, <2>1, <2>2 DEF InStep, Left, Open, Halted, Asked, Resumes, Resumed, Running
  <2>4. UNCHANGED reply /\ (toServer' = toServer \/ (toServer # <<>> /\ toServer' = Tail(toServer)))
    BY <1>8 DEF WaitForAck, wire, PutPacket
  <2>5. UNCHANGED Unanswered
    <3>1. toServer = <<Ack>> => toServer' \in {<<>>, <<Ack>>}
      BY <1>q, <2>4
    <3>2. toServer = <<Ack, command>> => toServer' \in {<<command>>, <<Ack, command>>}
      BY <1>q, <2>4
    <3>3. toServer = <<>> => toServer' = <<>>
      BY <2>4
    <3> QED
      BY <1>p, <1>q, <2>1, <2>3, <3>1, <3>2, <3>3 DEF Unanswered
  <2> QED
    BY <1>t, <2>1, <2>4, <2>5, KeptMeanwhile
<1>9. ASSUME NEW c \in Command, Ask(c)
      PROVE  Kept'
  <2>1. /\ client = "halted" /\ command' = c /\ toServer' = Append(toServer, c)
        /\ client' = IF c \in Resuming THEN "running" ELSE "asked"
        /\ c.type = "z" => c.addr \in wanted
        /\ UNCHANGED <<breaks, buf, wanted, reply>>
    BY <1>9 DEF Ask, debug, stub, Resuming
  <2>2. Breaks = wanted /\ Distinct(breaks)
    BY <1>t, <2>1 DEF Kept
  <2>3. toServer = <<>> \/ toServer = <<Ack>>
    BY <1>t, <2>1 DEF InStep, Unopened, Open, Halted, Gone
  <2>4. Unanswered'
    <3>1. /\ Append(<<>>, c) = <<c>> /\ Append(<<Ack>>, c) = <<Ack, c>>
          /\ ToSet(<<c>>) = {c} /\ ToSet(<<Ack, c>>) = {Ack, c}
      BY AppendToOne DEF ToSet
    <3> QED
      BY <2>1, <2>3, <3>1 DEF Unanswered
  <2> QED
    BY <2>1, <2>2, <2>4 DEF Kept, Breaks, Distinct, Gone
<1>10. CASE RequestStop
  BY <1>10, <1>t DEF RequestStop, TypeOK
<1>11. CASE Receive
  <2>1. /\ client \in {"asked", "running"} /\ toClient # <<>> /\ client' = "halted"
        /\ UNCHANGED <<breaks, buf, command, reply>>
        /\ wanted' = IF Head(toClient) = "OK" /\ command.type = "Z"
                     THEN wanted \union {command.addr}
                     ELSE IF Head(toClient) = "OK" /\ command.type = "z"
                     THEN wanted \ {command.addr} ELSE wanted
    BY <1>11 DEF Receive, debug, stub
  <2>2. conn = "open"
    BY <1>t, <2>1 DEF InStep, Unopened
  <2>3. toClient = <<reply>> /\ buf = <<>> /\ toServer = <<>>
        /\ (client = "running" => command \in Resuming)
    BY <1>t, <2>1, <2>2 DEF InStep, Open, Asked, Resumes, Resumed, Gone
  <2>4. Head(toClient) = reply
    BY <2>3
  <2>5. ~Unanswered
    BY <1>q, <2>3 DEF Unanswered
  <2>6. Breaks = wanted'
    <3>1. CASE client = "asked"
      BY <1>t, <2>1, <2>4, <2>5, <3>1 DEF Kept, Informed
    <3>2. CASE client = "running"
      BY <1>p, <1>t, <2>1, <2>3, <3>2 DEF Kept
    <3> QED
      BY <2>1, <3>1, <3>2
  <2> QED
    BY <1>t, <2>1, <2>6 DEF Kept, Breaks, Distinct, Gone
<1>12. CASE Leave
  <2>1. /\ ~Gone /\ client' = "gone" /\ toServer' \in {toServer, <<>>}
        /\ UNCHANGED <<breaks, buf, command, reply>>
        /\ wanted' = IF client = "asked" /\ command.type = "z"
                     THEN wanted \ {command.addr} ELSE wanted
    BY <1>12 DEF Leave, debug, stub
  <2>2. Unanswered' => Unanswered
    BY <1>q, <2>1 DEF Unanswered
  <2>3. CASE client = "asked"
    BY <1>t, <2>1, <2>2, <2>3 DEF Kept, Breaks, Distinct, Gone, Informed
  <2>4. CASE client \in {"halted", "running"}
    <3>1. command.type = "z" => ~Unanswered
      BY <1>p, <1>q, <1>t, <1>w, <2>1, <2>4 DEF InStep, Unopened, Open, Halted, Resumes, Resumed,
         Unanswered, Gone
    <3> QED
      BY <1>t, <2>1, <2>2, <2>4, <3>1 DEF Kept, Breaks, Distinct, Gone
  <2> QED
    BY <1>t, <2>1, <2>3, <2>4 DEF Gone
<1> QED
  BY <1>2, <1>4, <1>5, <1>6, <1>7, <1>8, <1>9, <1>10, <1>11, <1>12
     DEF Next, Emulate, Serve, Client

LEMMA BreakImplies ==
  MaxStops = 0 /\ BreakInv => IInv
<1> SUFFICES ASSUME MaxStops = 0, BreakInv
             PROVE  IInv
  OBVIOUS
<1>1. TypeOK
  BY DEF BreakInv
<1>2. HaltedIsHalted
  BY DEF BreakInv, InStep, Alone, Open, Halted, Asked, Gone, HaltedIsHalted
<1>3. BreakpointsKept
  <2>1. Len(breaks) = Cardinality(Breaks)
    BY <1>1, Array, DistinctCount DEF BreakInv, Kept, Breaks, TypeOK
  <2> QED
    BY <1>1, <2>1 DEF BreakInv, Kept, BreakpointsKept, Gone, TypeOK
<1> QED
  BY <1>1, <1>2, <1>3 DEF IInv

LEMMA BreakStep ==
  MaxStops = 0 /\ ~Spurious /\ BreakInv /\ [Next]_vars => BreakInv'
BY TypeStep, ConversationStep, KeptStep DEF BreakInv

(***************************************************************************)
(* The debugger and the stub are in step, and the array holds what the     *)
(* debugger has inserted, through resumptions, traps, changes of the PC    *)
(* and the debugger's departure in the middle of anything.                 *)
(***************************************************************************)
THEOREM SessionInvariance ==
  MaxStops = 0 /\ ~Spurious => (Spec => []IInv)
<1> SUFFICES ASSUME MaxStops = 0, ~Spurious
             PROVE  Spec => []IInv
  OBVIOUS
<1>1. Init => BreakInv
  BY BreakInit
<1>2. BreakInv /\ [Next]_vars => BreakInv'
  BY BreakStep
<1>3. BreakInv => IInv
  BY BreakImplies
<1> QED
  BY <1>1, <1>2, <1>3, PTL DEF Spec

(***************************************************************************)
(* No instruction with a breakpoint that the debugger has inserted is      *)
(* executed without a stop at it first.                                    *)
(***************************************************************************)
THEOREM BreakpointsAreHonoured ==
  MaxStops = 0 /\ ~Spurious => (Spec => BreakpointsHonoured)
<1> SUFFICES ASSUME MaxStops = 0, ~Spurious
             PROVE  Spec => BreakpointsHonoured
  OBVIOUS
<1>1. Init => BreakInv
  BY BreakInit
<1>2. BreakInv /\ [Next]_vars => BreakInv'
  BY BreakStep
<1>3. BreakInv /\ [Next]_vars =>
        [at = "remote" /\ at' = "execute" /\ conn = "open" => pc \notin wanted]_vars
  <2> SUFFICES ASSUME BreakInv, Next, at = "remote", at' = "execute", conn = "open"
               PROVE  pc \notin wanted
    BY DEF vars, stub
  <2>1. ~Trapped
    BY DEF Next, Emulate, Serve, Client, Fetch, Exception, CheckRemote, Trap, HandleSig,
       PutPacket, Poll, NotConnected, Execute, Return, Read, Handle, WaitForAck, Connect, Ask,
       RequestStop, Receive, Leave, stub, vars
  <2>2. IInv
    BY BreakImplies
  <2>3. client # "asked"
    BY <2>2 DEF IInv, HaltedIsHalted
  <2> QED
    BY <2>1, <2>2, <2>3 DEF IInv, BreakpointsKept, Trapped
<1> QED
  BY <1>1, <1>2, <1>3, PTL DEF Spec, BreakpointsHonoured
=============================================================================
