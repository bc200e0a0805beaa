----------------------------- MODULE BusProofs ------------------------------
(***************************************************************************)
(* Proofs about the bus of the Top platform, for any number of initiators. *)
(***************************************************************************)
EXTENDS TopBus, TLAPS

\* The lemmas about numbers, which are not about what is folded.
Plus(a, b) == a + b
Numbers == INSTANCE Lemmas WITH Op <- Plus

\* A request that finds the bus free is in service at once.
LEMMA RequestFreeIInv ==
  ASSUME IInv, NEW p \in Initiator, RequestFree(p)
  PROVE  IInv'
<1> USE DEF IInv
<1>1. TypeOK'
  BY DEF RequestFree, TypeOK, Location
<1>2. PendingMarks'
  BY DEF RequestFree, TypeOK, PendingMarks
<1>3. pc'[p] = "forward"
  BY DEF RequestFree, TypeOK
<1> QED
  BY <1>1, <1>2, <1>3 DEF BusyIsServed, NoStrandedRequest

\* One that finds it busy has the one ahead of it that BusyIsServed names.
LEMMA RequestBusyIInv ==
  ASSUME IInv, NEW p \in Initiator, RequestBusy(p)
  PROVE  IInv'
<1> USE DEF IInv
<1>1. TypeOK'
  BY DEF RequestBusy, TypeOK, Location
<1>2. PendingMarks'
  BY DEF RequestBusy, TypeOK, PendingMarks
<1>3. PICK q \in Initiator : pc[q] = "forward"
  BY DEF RequestBusy, BusyIsServed
<1>4. pc'[q] = "forward"
  BY <1>3 DEF RequestBusy, TypeOK
<1> QED
  BY <1>1, <1>2, <1>4 DEF BusyIsServed, NoStrandedRequest

\* The notified thread enters, whoever has entered in the meantime.
LEMMA ResumeIInv ==
  ASSUME IInv, NEW p \in Initiator, Resume(p)
  PROVE  IInv'
<1> USE DEF IInv
<1>1. TypeOK'
  BY DEF Resume, TypeOK, Location
<1>2. PendingMarks'
  BY DEF Resume, TypeOK, PendingMarks
<1>3. pc'[p] = "forward"
  BY DEF Resume, TypeOK
<1> QED
  BY <1>1, <1>2, <1>3 DEF BusyIsServed, NoStrandedRequest

\* Nobody is pending, so nobody is blocked.
LEMMA FinishIdleIInv ==
  ASSUME IInv, NEW p \in Initiator, FinishIdle(p)
  PROVE  IInv'
<1> USE DEF IInv
<1>1. TypeOK'
  BY DEF FinishIdle, TypeOK, Location
<1>2. PendingMarks'
  BY DEF FinishIdle, TypeOK, PendingMarks
<1>3. \A q \in Initiator : pc'[q] # "wait"
  BY DEF FinishIdle, TypeOK, PendingMarks
<1> QED
  BY <1>1, <1>2, <1>3 DEF FinishIdle, BusyIsServed, NoStrandedRequest

\* The first pending initiator is made ready, or has been before.
LEMMA FinishNotifyIInv ==
  ASSUME IInv, NEW p \in Initiator, FinishNotify(p)
  PROVE  IInv'
<1> USE DEF IInv
<1>1. PICK q \in Initiator :
        /\ FirstPending(q)
        /\ pc' = [pc EXCEPT ![p] = "idle",
                            ![q] = IF pc[q] = "wait" THEN "ready" ELSE @]
  BY DEF FinishNotify
<1>2. pc[q] \in {"wait", "ready"} /\ q # p
  BY <1>1 DEF FinishNotify, FirstPending, PendingMarks
<1>3. pc' = [pc EXCEPT ![p] = "idle", ![q] = "ready"]
  BY <1>1, <1>2 DEF TypeOK
<1>4. TypeOK'
  BY <1>3 DEF FinishNotify, TypeOK, Location
<1>5. PendingMarks'
  BY <1>2, <1>3 DEF FinishNotify, TypeOK, PendingMarks
<1>6. pc'[q] = "ready"
  BY <1>2, <1>3 DEF TypeOK
<1> QED
  BY <1>4, <1>5, <1>6 DEF FinishNotify, BusyIsServed, NoStrandedRequest

(***************************************************************************)
(* The marks agree with where the threads are, a busy bus is served and    *)
(* nobody is forgotten, although FinishNotify frees the bus before the     *)
(* notified thread has run (Bus.h:202), so that transactions overlap.      *)
(***************************************************************************)
THEOREM BusInvariance == Spec => []IInv
<1>1. Init => IInv
  BY DEF Init, IInv, TypeOK, PendingMarks, BusyIsServed, NoStrandedRequest, Location
<1>2. IInv /\ [Next]_vars => IInv'
  <2> SUFFICES ASSUME IInv, [Next]_vars
               PROVE  IInv'
    OBVIOUS
  <2>1. CASE UNCHANGED vars
    BY <2>1 DEF vars, IInv, TypeOK, PendingMarks, BusyIsServed, NoStrandedRequest
  <2>2. ASSUME NEW p \in Initiator, Request(p) \/ Resume(p) \/ Finish(p)
        PROVE  IInv'
    BY <2>2, RequestFreeIInv, RequestBusyIInv, ResumeIInv, FinishIdleIInv, FinishNotifyIInv
    DEF Request, Finish
  <2> QED
    BY <2>1, <2>2 DEF Next
<1> QED
  BY <1>1, <1>2, PTL DEF Spec

-----------------------------------------------------------------------------
(***************************************************************************)
(* The address map, for addresses of any width and any number of targets.  *)
(***************************************************************************)

\* The two tables, with the functions made of them.
AndTable == [p \in {0, 1} |-> [q \in {0, 1} |-> p * q]]
XorTable == [p \in {0, 1} |-> [q \in {0, 1} |-> (p + q) % 2]]
Ands == BitByBit(AndTable)
Xors == BitByBit(XorTable)

\* The equation BitByBit is defined by, for up to n bits.
Row(k, less, table) ==
  [a \in Nat |-> [b \in Nat |->
     IF k = 0 THEN 0 ELSE 2 * less[a \div 2][b \div 2] + table[a % 2][b % 2]]]

IsBitByBit(f, table, n) == f = [k \in 0 .. n |-> Row(k, f[k-1], table)]

LEMMA BitByBitExtends ==
  ASSUME NEW table, NEW n \in Nat \ {0}, \E f : IsBitByBit(f, table, n-1)
  PROVE  \E f : IsBitByBit(f, table, n)
<1> PICK f : IsBitByBit(f, table, n-1)
  OBVIOUS
<1> DEFINE g == [k \in 0 .. n |-> IF k < n THEN f[k] ELSE Row(n, f[n-1], table)]
<1>1. n-1 \in 0 .. n /\ n \in 0 .. n /\ g[n-1] = f[n-1] /\ g[n] = Row(n, f[n-1], table)
  OBVIOUS
<1>2. ASSUME NEW k \in 0 .. n
      PROVE  g[k] = Row(k, g[k-1], table)
  <2>1. CASE k = n
    BY <1>1, <2>1
  <2>2. CASE k < n
    <3>1. k \in 0 .. n-1 /\ g[k] = f[k]
      BY <2>2
    <3>2. f[k] = Row(k, f[k-1], table)
      BY <3>1 DEF IsBitByBit
    <3>3. CASE k = 0
      BY <3>1, <3>2, <3>3 DEF Row
    <3>4. CASE k # 0
      <4>1. g[k-1] = f[k-1]
        BY <2>2, <3>4
      <4> QED
        BY <3>1, <3>2, <4>1
    <3> QED
      BY <3>3, <3>4
  <2> QED
    BY <2>1, <2>2
<1>3. g = [k \in 0 .. n |-> g[k]]
  OBVIOUS
<1> HIDE DEF g
<1>4. IsBitByBit(g, table, n)
  BY <1>2, <1>3 DEF IsBitByBit
<1> QED
  BY <1>4

LEMMA BitByBitExists ==
  ASSUME NEW table, NEW n \in Nat
  PROVE  \E f : IsBitByBit(f, table, n)
<1> DEFINE G == {k \in Nat : \E f : IsBitByBit(f, table, k)}
<1>1. 0 \in G
  <2> DEFINE f == [k \in 0 .. 0 |-> Row(0, 0, table)]
  <2>1. \A k \in 0 .. 0 : k = 0
    OBVIOUS
  <2>2. \A x : Row(0, x, table) = Row(0, 0, table)
    BY DEF Row
  <2>3. IsBitByBit(f, table, 0)
    BY <2>1, <2>2 DEF IsBitByBit
  <2> HIDE DEF f
  <2> QED
    BY <2>3
<1>2. ASSUME NEW k \in 1 .. n, k-1 \in G
      PROVE  k \in G
  BY <1>2, BitByBitExtends
<1>3. n \in G
  <2> HIDE DEF G
  <2> QED
    BY <1>1, <1>2, Numbers!Inductive
<1> QED
  BY <1>3

\* So each bit more is what the definition says it is.
LEMMA BitByBitSteps ==
  ASSUME NEW table
  PROVE  LET f == BitByBit(table)
         IN  \A a \in Nat, b \in Nat :
               /\ f[0][a][b] = 0
               /\ \A k \in 1 .. W :
                    f[k][a][b] = 2 * f[k-1][a \div 2][b \div 2] + table[a % 2][b % 2]
<1> DEFINE f == BitByBit(table)
<1>1. W \in Nat
  BY WAssumption
<1>2. f = CHOOSE g : IsBitByBit(g, table, W)
  BY DEF BitByBit, IsBitByBit, Row
<1> HIDE DEF f
<1>3. IsBitByBit(f, table, W)
  BY <1>1, <1>2, BitByBitExists
<1>4. \A k \in 0 .. W : f[k] = Row(k, f[k-1], table)
  BY <1>3 DEF IsBitByBit
<1>5. ASSUME NEW a \in Nat, NEW b \in Nat, NEW k \in 0 .. W
      PROVE  f[k][a][b] = IF k = 0 THEN 0
                          ELSE 2 * f[k-1][a \div 2][b \div 2] + table[a % 2][b % 2]
  <2> DEFINE less == f[k-1]
  <2>1. f[k] = Row(k, less, table)
    BY <1>4
  <2> HIDE DEF less
  <2>2. Row(k, less, table)[a][b] = IF k = 0 THEN 0
                                    ELSE 2 * less[a \div 2][b \div 2] + table[a % 2][b % 2]
    BY DEF Row
  <2> QED
    BY <2>1, <2>2 DEF less
<1>6. 0 \in 0 .. W /\ \A k \in 1 .. W : k \in 0 .. W /\ k # 0
  BY <1>1
<1> QED
  BY <1>5, <1>6 DEF f

LEMMA BitSteps ==
  ASSUME NEW a \in Nat, NEW b \in Nat
  PROVE  /\ Ands[0][a][b] = 0 /\ Xors[0][a][b] = 0
         /\ \A k \in 1 .. W :
              /\ Ands[k][a][b] = 2 * Ands[k-1][a \div 2][b \div 2] + (a % 2) * (b % 2)
              /\ Xors[k][a][b] = 2 * Xors[k-1][a \div 2][b \div 2] + (((a % 2) + (b % 2)) % 2)
         /\ And(a, b) = Ands[W][a][b] /\ Xor(a, b) = Xors[W][a][b]
         /\ a \div 2 \in Nat /\ b \div 2 \in Nat /\ a % 2 \in {0, 1} /\ b % 2 \in {0, 1}
<1>1. a \div 2 \in Nat /\ b \div 2 \in Nat /\ a % 2 \in {0, 1} /\ b % 2 \in {0, 1}
  OBVIOUS
<1>2. And(a, b) = Ands[W][a][b] /\ Xor(a, b) = Xors[W][a][b]
  BY DEF And, Xor, Ands, Xors, AndTable, XorTable
<1> DEFINE p == a % 2
           q == b % 2
<1>3. p \in {0, 1} /\ q \in {0, 1}
  BY <1>1
<1>4. Ands[0][a][b] = 0 /\ \A k \in 1 .. W :
        Ands[k][a][b] = 2 * Ands[k-1][a \div 2][b \div 2] + AndTable[p][q]
  BY BitByBitSteps DEF Ands
<1>5. Xors[0][a][b] = 0 /\ \A k \in 1 .. W :
        Xors[k][a][b] = 2 * Xors[k-1][a \div 2][b \div 2] + XorTable[p][q]
  BY BitByBitSteps DEF Xors
<1> HIDE DEF p, q
<1>6. AndTable[p][q] = p * q /\ XorTable[p][q] = ((p + q) % 2)
  BY <1>3 DEF AndTable, XorTable
<1> QED
  BY <1>1, <1>2, <1>4, <1>5, <1>6 DEF p, q

-----------------------------------------------------------------------------

LEMMA WidthPowers ==
  /\ W \in Nat \ {0} /\ 2 ^ 0 = 1
  /\ \A k \in 0 .. W : 2 ^ k \in Nat \ {0}
  /\ \A k \in 1 .. W : k-1 \in 0 .. W /\ k \in 0 .. W /\ 2 ^ k = 2 * 2 ^ (k-1)
<1>1. W \in Nat \ {0}
  BY WAssumption
<1>2. 2 ^ 0 = 1 /\ \A n \in Nat : 2 ^ n \in Nat \ {0} /\ 2 ^ (n + 1) = 2 * 2 ^ n
  BY Numbers!PowerOfTwo
<1>3. ASSUME NEW k \in 1 .. W
      PROVE  k-1 \in 0 .. W /\ k \in 0 .. W /\ 2 ^ k = 2 * 2 ^ (k-1)
  <2>1. k-1 \in Nat /\ (k-1) + 1 = k /\ k-1 \in 0 .. W /\ k \in 0 .. W
    BY <1>1
  <2>2. 2 ^ ((k-1) + 1) = 2 * 2 ^ (k-1)
    BY <1>2, <2>1
  <2> QED
    BY <2>1, <2>2
<1> QED
  BY <1>1, <1>2, <1>3

\* "Or exclusively" of numbers of k bits is one.
LEMMA XorRange ==
  \A k \in 0 .. W : \A a \in Nat, b \in Nat : Xors[k][a][b] \in 0 .. 2 ^ k - 1
<1> DEFINE G == {k \in 0 .. W : \A a \in Nat, b \in Nat : Xors[k][a][b] \in 0 .. 2 ^ k - 1}
<1>1. 0 \in G
  BY BitSteps, WidthPowers
<1>2. ASSUME NEW n \in 0 .. W, NEW k \in 1 .. n, k-1 \in G
      PROVE  k \in G
  <2>1. k \in 1 .. W
    BY WidthPowers
  <2> DEFINE h == 2 ^ (k-1)
  <2>2. h \in Nat \ {0} /\ 2 ^ k = 2 * h /\ k \in 0 .. W
    BY <2>1, WidthPowers
  <2>3. ASSUME NEW a \in Nat, NEW b \in Nat
        PROVE  Xors[k][a][b] \in 0 .. 2 ^ k - 1
    <3> DEFINE x == Xors[k-1][a \div 2][b \div 2]
               c == ((a % 2) + (b % 2)) % 2
    <3>1. x \in 0 .. h - 1
      BY <1>2
    <3>2. c \in {0, 1}
      OBVIOUS
    <3>3. Xors[k][a][b] = 2 * x + c
      BY <2>1, BitSteps
    <3> HIDE DEF x, c, h
    <3> QED
      BY <2>2, <3>1, <3>2, <3>3
  <2> QED
    BY <2>2, <2>3
<1>3. ASSUME NEW n \in 0 .. W
      PROVE  n \in G
  <2> HIDE DEF G
  <2>1. n \in Nat
    BY WidthPowers
  <2>2. \A k \in 1 .. n : k-1 \in G => k \in G
    BY <1>2
  <2> QED
    BY <1>1, <2>1, <2>2, Numbers!Inductive
<1> QED
  BY <1>3

LEMMA AndType ==
  \A k \in 0 .. W : \A a \in Nat, b \in Nat : Ands[k][a][b] \in Nat
<1> DEFINE G == {k \in 0 .. W : \A a \in Nat, b \in Nat : Ands[k][a][b] \in Nat}
<1>1. 0 \in G
  BY BitSteps, WidthPowers
<1>2. ASSUME NEW n \in 0 .. W, NEW k \in 1 .. n, k-1 \in G
      PROVE  k \in G
  <2>1. k \in 1 .. W
    BY WidthPowers
  <2> DEFINE h == 2 ^ (k-1)
  <2>2. h \in Nat \ {0} /\ 2 ^ k = 2 * h /\ k \in 0 .. W
    BY <2>1, WidthPowers
  <2>3. ASSUME NEW a \in Nat, NEW b \in Nat
        PROVE  Ands[k][a][b] \in Nat
    <3> DEFINE x == Ands[k-1][a \div 2][b \div 2]
               c == (a % 2) * (b % 2)
    <3>1. x \in Nat
      BY <1>2
    <3>2. c \in {0, 1}
      OBVIOUS
    <3>3. Ands[k][a][b] = 2 * x + c
      BY <2>1, BitSteps
    <3> HIDE DEF x, c, h
    <3> QED
      BY <2>2, <3>1, <3>2, <3>3
  <2> QED
    BY <2>2, <2>3
<1>3. ASSUME NEW n \in 0 .. W
      PROVE  n \in G
  <2> HIDE DEF G
  <2>1. n \in Nat
    BY WidthPowers
  <2>2. \A k \in 1 .. n : k-1 \in G => k \in G
    BY <1>2
  <2> QED
    BY <1>1, <2>1, <2>2, Numbers!Inductive
<1> QED
  BY <1>3

\* A number "and" itself.
LEMMA AndSame ==
  \A k \in 0 .. W : \A a \in 0 .. 2 ^ k - 1 : Ands[k][a][a] = a
<1> DEFINE G == {k \in 0 .. W : \A a \in 0 .. 2 ^ k - 1 : Ands[k][a][a] = a}
<1>1. 0 \in G
  <2>1. \A a \in 0 .. 2 ^ 0 - 1 : a = 0
    BY WidthPowers
  <2>2. Ands[0][0][0] = 0
    BY BitSteps
  <2> QED
    BY <2>1, <2>2, WidthPowers
<1>2. ASSUME NEW n \in 0 .. W, NEW k \in 1 .. n, k-1 \in G
      PROVE  k \in G
  <2>1. k \in 1 .. W
    BY WidthPowers
  <2> DEFINE h == 2 ^ (k-1)
  <2>2. h \in Nat \ {0} /\ 2 ^ k = 2 * h /\ k \in 0 .. W
    BY <2>1, WidthPowers
  <2>3. ASSUME NEW a \in 0 .. 2 ^ k - 1
        PROVE  Ands[k][a][a] = a
    <3>1. a \in Nat /\ a \div 2 \in 0 .. h - 1 /\ a % 2 \in {0, 1} /\ a = 2 * (a \div 2) + (a % 2)
      BY <2>2
    <3>2. Ands[k-1][a \div 2][a \div 2] = a \div 2
      BY <1>2, <3>1
    <3>3. Ands[k][a][a] = 2 * Ands[k-1][a \div 2][a \div 2] + (a % 2) * (a % 2)
      BY <2>1, <3>1, BitSteps
    <3>4. (a % 2) * (a % 2) = a % 2
      BY <3>1
    <3> QED
      BY <3>1, <3>2, <3>3, <3>4
  <2> QED
    BY <2>2, <2>3
<1>3. ASSUME NEW n \in 0 .. W
      PROVE  n \in G
  <2> HIDE DEF G
  <2>1. n \in Nat
    BY WidthPowers
  <2>2. \A k \in 1 .. n : k-1 \in G => k \in G
    BY <1>2
  <2> QED
    BY <1>1, <2>1, <2>2, Numbers!Inductive
<1> QED
  BY <1>3

\* The remainder of a division by a power of two keeps the lowest bit apart.
LEMMA RemainderSteps ==
  ASSUME NEW a \in Nat, NEW p \in Nat \ {0}
  PROVE  a % (2 * p) = 2 * ((a \div 2) % p) + (a % 2)
<1> DEFINE q == (a \div 2) \div p
           r == (a \div 2) % p
           b == a % 2
           m == 2 * p
           t == 2 * r + b
<1>1. a \div 2 \in Int /\ b \in {0, 1} /\ a = 2 * (a \div 2) + b
  OBVIOUS
<1>2. q \in Int /\ r \in 0 .. p-1 /\ a \div 2 = q * p + r
  BY <1>1, Numbers!Division
<1> HIDE DEF q, r, b
<1>3. m \in Nat \ {0} /\ t \in 0 .. m-1
  BY <1>1, <1>2
<1>4. a = q * m + t
  <2>1. q * m = 2 * (q * p) /\ q * p \in Int
    BY <1>2
  <2> QED
    BY <1>1, <1>2, <2>1
<1> HIDE DEF m, t
<1>5. a \in Int /\ q \in Int
  BY <1>2
<1>6. a % m = t
  BY <1>3, <1>4, <1>5, Numbers!DivisionIs, Zenon
<1> QED
  BY <1>6 DEF m, t, r, b

\* "And" with ones followed by zeros, and with the ones that are left.
LEMMA AndBlock ==
  \A k \in 0 .. W : \A a \in 0 .. 2 ^ k - 1, j \in 0 .. k :
    /\ Ands[k][a][2 ^ k - 2 ^ j] = a - (a % (2 ^ j))
    /\ Ands[k][a][2 ^ j - 1] = a % (2 ^ j)
<1> DEFINE P(k) == \A a \in 0 .. 2 ^ k - 1, j \in 0 .. k :
                     /\ Ands[k][a][2 ^ k - 2 ^ j] = a - (a % (2 ^ j))
                     /\ Ands[k][a][2 ^ j - 1] = a % (2 ^ j)
           G == {k \in 0 .. W : P(k)}
<1>1. 0 \in G
  <2>1. 2 ^ 0 - 2 ^ 0 = 0 /\ 2 ^ 0 - 1 = 0 /\ 2 ^ 0 = 1
    BY WidthPowers
  <2>2. \A a \in 0 .. 2 ^ 0 - 1 : a = 0
    BY <2>1
  <2>3. \A j \in 0 .. 0 : j = 0
    OBVIOUS
  <2>4. Ands[0][0][0] = 0 /\ 0 % 1 = 0 /\ 0 - 0 = 0
    BY BitSteps
  <2>5. P(0)
    BY <2>1, <2>2, <2>3, <2>4
  <2> HIDE DEF P
  <2> QED
    BY <2>5, WidthPowers
<1>2. ASSUME NEW n \in 0 .. W, NEW k \in 1 .. n, k-1 \in G
      PROVE  k \in G
  <2>1. k \in 1 .. W
    BY WidthPowers
  <2> DEFINE h == 2 ^ (k-1)
  <2>2. h \in Nat \ {0} /\ 2 ^ k = 2 * h /\ k \in 0 .. W /\ k-1 \in 0 .. W
    BY <2>1, WidthPowers
  <2>3. ASSUME NEW a \in 0 .. 2 ^ k - 1, NEW j \in 0 .. k
        PROVE  /\ Ands[k][a][2 ^ k - 2 ^ j] = a - (a % (2 ^ j))
               /\ Ands[k][a][2 ^ j - 1] = a % (2 ^ j)
    <3> DEFINE e == a \div 2
               b == a % 2
    <3>1. a \in Nat /\ e \in Nat /\ e \in 0 .. h - 1 /\ b \in {0, 1} /\ a = 2 * e + b
      BY <2>2
    <3>2. ASSUME NEW m \in Nat
          PROVE  Ands[k][a][m] = 2 * Ands[k-1][e][m \div 2] + b * (m % 2)
      BY <2>1, <3>1, BitSteps
    <3> HIDE DEF e, b
    <3>3. CASE j = 0
      <4>1. 2 ^ j = 1 /\ a % 1 = 0
        BY <3>1, <3>3, WidthPowers
      <4>2. 0 \in 0 .. k-1 /\ 2 ^ 0 = 1
        BY <2>1, WidthPowers
      <4>3. Ands[k-1][e][h - 1] = e - (e % 1) /\ e % 1 = 0 /\ Ands[k-1][e][1 - 1] = e % 1
        <5>1. \A i \in 0 .. k-1 : /\ Ands[k-1][e][h - 2 ^ i] = e - (e % (2 ^ i))
                                  /\ Ands[k-1][e][2 ^ i - 1] = e % (2 ^ i)
          BY <1>2, <3>1
        <5>2. Ands[k-1][e][h - 1] = e - (e % 1) /\ Ands[k-1][e][1 - 1] = e % 1
          BY <4>2, <5>1
        <5> QED
          BY <3>1, <5>2
      <4> DEFINE m == 2 * h - 1
      <4>4. m \in Nat /\ m \div 2 = h - 1 /\ m % 2 = 1
        BY <2>2
      <4>5. 0 \in Nat /\ 0 \div 2 = 0 /\ 0 % 2 = 0 /\ 1 - 1 = 0
        OBVIOUS
      <4>6. Ands[k][a][m] = 2 * Ands[k-1][e][m \div 2] + b * (m % 2)
        BY <3>2, <4>4
      <4>7. Ands[k][a][0] = 2 * Ands[k-1][e][0] + b * 0
        BY <3>2, <4>5
      <4>8. Ands[k][a][m] = a
        BY <3>1, <4>3, <4>4, <4>6
      <4>9. Ands[k][a][0] = 0
        BY <3>1, <4>3, <4>5, <4>7
      <4> QED
        BY <2>2, <3>1, <4>1, <4>5, <4>8, <4>9
    <3>4. CASE j # 0
      <4> DEFINE p == 2 ^ (j-1)
                 i == j-1
      <4>1. j \in 1 .. W /\ i \in 0 .. k-1 /\ p \in Nat \ {0} /\ 2 ^ j = 2 * p
        <5>1. j \in 1 .. W /\ i \in 0 .. k-1
          BY <2>1, <3>4, WidthPowers
        <5> QED
          BY <5>1, WidthPowers
      <4>2. Ands[k-1][e][h - p] = e - (e % p) /\ Ands[k-1][e][p - 1] = e % p
        BY <1>2, <3>1, <4>1
      <4>3. a % (2 * p) = 2 * (e % p) + b
        BY <3>1, <4>1, RemainderSteps DEF e, b
      <4>4. p =< h
        <5>1. k-1 \in Nat /\ i \in Nat /\ i =< k-1
          BY <2>1, <4>1
        <5> DEFINE d == (k-1) - i
        <5>2. d \in Nat /\ d + i = k-1
          BY <5>1
        <5> HIDE DEF d, i
        <5>3. 2 ^ (d + i) = 2 ^ d * 2 ^ i
          BY <5>1, <5>2, Numbers!PowersAdd
        <5> DEFINE f == 2 ^ d
        <5>4. f \in Nat \ {0} /\ h = f * p
          BY <5>2, <5>3, Numbers!PowerOfTwo DEF i
        <5> HIDE DEF f, h, p
        <5>5. 1 * p =< f * p
          BY <4>1, <5>4, Numbers!ProductOrder
        <5> QED
          BY <4>1, <5>4, <5>5
      <4> HIDE DEF p, h
      <4> DEFINE m == 2 * h - 2 * p
                 l == 2 * p - 1
      <4>5. m \in Nat /\ m \div 2 = h - p /\ m % 2 = 0 /\ l \in Nat /\ l \div 2 = p - 1 /\ l % 2 = 1
        BY <2>2, <4>1, <4>4
      <4>6. Ands[k][a][m] = 2 * (e - (e % p)) + b * 0 /\ Ands[k][a][l] = 2 * (e % p) + b * 1
        BY <3>2, <4>2, <4>5
      <4> DEFINE r == e % p
      <4>7. r \in Int
        BY <3>1, <4>1
      <4> HIDE DEF r
      <4>8. Ands[k][a][m] = 2 * (e - r) + b * 0 /\ Ands[k][a][l] = 2 * r + b * 1
            /\ a % (2 * p) = 2 * r + b
        BY <4>3, <4>6 DEF r
      <4>9. Ands[k][a][m] = a - (2 * r + b) /\ Ands[k][a][l] = 2 * r + b
        BY <3>1, <4>7, <4>8
      <4> QED
        BY <2>2, <4>1, <4>8, <4>9
    <3> QED
      BY <3>3, <3>4
  <2> QED
    BY <2>2, <2>3
<1>3. ASSUME NEW n \in 0 .. W
      PROVE  n \in G
  <2> HIDE DEF G
  <2>1. n \in Nat
    BY WidthPowers
  <2>2. \A k \in 1 .. n : k-1 \in G => k \in G
    BY <1>2
  <2> QED
    BY <1>1, <2>1, <2>2, Numbers!Inductive
<1> QED
  BY <1>3

-----------------------------------------------------------------------------

\* A number of k bits, shifted to the left by one with c coming in.
ShiftedIn(k, m, c) == (2 * m + c) % 2 ^ k

LEMMA ShiftedInSteps ==
  ASSUME NEW k \in 1 .. W, NEW m \in Nat, NEW c \in {0, 1}
  PROVE  LET s == ShiftedIn(k, m, c)
         IN  /\ s \in Nat /\ s % 2 = c
             /\ s \div 2 = ShiftedIn(k-1, m \div 2, m % 2)
             /\ Xors[k][m][s] = 2 * Xors[k-1][m \div 2][s \div 2] + (((m % 2) + c) % 2)
<1> DEFINE h == 2 ^ (k-1)
           q == m \div h
           r == m % h
           x == 2 * m + c
           p == 2 * h
           t == 2 * r + c
           s == x % p
<1>1. h \in Nat \ {0} /\ 2 ^ k = p /\ p \in Nat \ {0}
  BY WidthPowers
<1>2. q \in Int /\ r \in 0 .. h-1 /\ m = q * h + r
  <2> HIDE DEF h
  <2>1. m \in Int
    OBVIOUS
  <2> QED
    BY <1>1, <2>1, Numbers!Division
<1>3. m = 2 * (m \div 2) + (m % 2) /\ ShiftedIn(k-1, m \div 2, m % 2) = r
  BY DEF ShiftedIn
<1>4. x \in Int /\ x \in Nat
  OBVIOUS
<1> HIDE DEF q, r, h
<1>5. t \in 0 .. p-1 /\ t \in Nat
  BY <1>1, <1>2
<1>6. x = q * p + t
  <2>1. q * p = 2 * (q * h) /\ q * h \in Int
    BY <1>1, <1>2
  <2> QED
    BY <1>2, <2>1
<1>7. t % 2 = c /\ t \div 2 = r
  BY <1>2
<1> HIDE DEF x, t, p
<1>8. s = t
  BY <1>1, <1>2, <1>4, <1>5, <1>6, Numbers!DivisionIs, Zenon
<1>9. ShiftedIn(k, m, c) = s
  BY <1>1, Zenon DEF ShiftedIn, x
<1> HIDE DEF s
<1>10. Xors[k][m][s] = 2 * Xors[k-1][m \div 2][s \div 2] + (((m % 2) + (s % 2)) % 2)
  BY <1>5, <1>8, BitSteps
<1> QED
  BY <1>3, <1>5, <1>7, <1>8, <1>9, <1>10

\* If a number is the same with each bit next to the one below it, starting
\* from c, all its bits are c.
LEMMA NoChange ==
  \A k \in 0 .. W : \A m \in 0 .. 2 ^ k - 1, c \in {0, 1} :
    Xors[k][m][ShiftedIn(k, m, c)] = 0 => m = c * (2 ^ k - 1)
<1> DEFINE P(k) == \A m \in 0 .. 2 ^ k - 1, c \in {0, 1} :
                     Xors[k][m][ShiftedIn(k, m, c)] = 0 => m = c * (2 ^ k - 1)
           G == {k \in 0 .. W : P(k)}
<1>1. 0 \in G
  <2>1. 2 ^ 0 = 1 /\ 0 \in 0 .. W
    BY WidthPowers
  <2>2. P(0)
    BY <2>1
  <2> HIDE DEF P
  <2> QED
    BY <2>1, <2>2
<1>2. ASSUME NEW n \in 0 .. W, NEW k \in 1 .. n, k-1 \in G
      PROVE  k \in G
  <2>1. k \in 1 .. W
    BY WidthPowers
  <2> DEFINE h == 2 ^ (k-1)
  <2>2. h \in Nat \ {0} /\ 2 ^ k = 2 * h /\ k \in 0 .. W /\ k-1 \in 0 .. W
    BY <2>1, WidthPowers
  <2>3. ASSUME NEW m \in 0 .. 2 ^ k - 1, NEW c \in {0, 1},
               Xors[k][m][ShiftedIn(k, m, c)] = 0
        PROVE  m = c * (2 ^ k - 1)
    <3> DEFINE e == m \div 2
               b == m % 2
               s == ShiftedIn(k-1, e, b)
               x == Xors[k-1][e][s]
    <3>1. m \in Nat /\ e \in Nat /\ e \in 0 .. h - 1 /\ b \in {0, 1} /\ m = 2 * e + b
      BY <2>2
    <3>2. s \in Nat
      <4>1. 2 * e + b \in Nat
        BY <3>1
      <4> QED
        BY <2>2, <4>1 DEF ShiftedIn
    <3>3. x \in Nat
      BY <2>2, <3>1, <3>2, XorRange, WidthPowers
    <3>4. 2 * x + ((b + c) % 2) = 0
      <4> DEFINE z == Xors[k][m][ShiftedIn(k, m, c)]
      <4>1. /\ ShiftedIn(k, m, c) \div 2 = s
            /\ z = 2 * Xors[k-1][e][ShiftedIn(k, m, c) \div 2] + ((b + c) % 2)
        BY <2>1, <3>1, ShiftedInSteps
      <4>2. z = 0
        BY <2>3
      <4> HIDE DEF z, s, e, b
      <4> QED
        BY <4>1, <4>2 DEF x
    <3>5. x = 0 => e = b * (h - 1)
      BY <1>2, <3>1
    <3> HIDE DEF e, b, x, h
    <3>6. x = 0 /\ b = c
      BY <3>1, <3>3, <3>4
    <3> QED
      BY <2>2, <3>1, <3>5, <3>6
  <2>4. P(k)
    BY <2>3
  <2> HIDE DEF P
  <2> QED
    BY <2>2, <2>4
<1>3. ASSUME NEW n \in 0 .. W
      PROVE  n \in G
  <2> HIDE DEF G
  <2>1. n \in Nat
    BY WidthPowers
  <2>2. \A k \in 1 .. n : k-1 \in G => k \in G
    BY <1>2
  <2> QED
    BY <1>1, <2>1, <2>2, Numbers!Inductive
<1> QED
  BY <1>3

\* With one change at most, from zeros at the right, ones follow the zeros.
AtMostOne(k, t) == t = 0 \/ Ands[k][t][t - 1] = 0

LEMMA OneChange ==
  \A k \in 0 .. W : \A m \in 0 .. 2 ^ k - 1 :
    AtMostOne(k, Xors[k][m][ShiftedIn(k, m, 0)]) => \E j \in 0 .. k : m = 2 ^ k - 2 ^ j
<1> DEFINE P(k) == \A m \in 0 .. 2 ^ k - 1 :
                     AtMostOne(k, Xors[k][m][ShiftedIn(k, m, 0)])
                       => \E j \in 0 .. k : m = 2 ^ k - 2 ^ j
           G == {k \in 0 .. W : P(k)}
<1>1. 0 \in G
  <2>1. 2 ^ 0 = 1 /\ 0 \in 0 .. W /\ 2 ^ 0 - 2 ^ 0 = 0 /\ 0 \in 0 .. 0
    BY WidthPowers
  <2>2. \A m \in 0 .. 2 ^ 0 - 1 : m = 2 ^ 0 - 2 ^ 0
    BY <2>1
  <2>3. P(0)
    BY <2>1, <2>2
  <2> HIDE DEF P
  <2> QED
    BY <2>1, <2>3
<1>2. ASSUME NEW n \in 0 .. W, NEW k \in 1 .. n, k-1 \in G
      PROVE  k \in G
  <2>1. k \in 1 .. W
    BY WidthPowers
  <2> DEFINE h == 2 ^ (k-1)
  <2>2. h \in Nat \ {0} /\ 2 ^ k = 2 * h /\ k \in 0 .. W /\ k-1 \in 0 .. W
    BY <2>1, WidthPowers
  <2>3. ASSUME NEW m \in 0 .. 2 ^ k - 1,
               AtMostOne(k, Xors[k][m][ShiftedIn(k, m, 0)])
        PROVE  \E j \in 0 .. k : m = 2 ^ k - 2 ^ j
    <3> DEFINE e == m \div 2
               b == m % 2
               s == ShiftedIn(k-1, e, b)
               u == Xors[k-1][e][s]
               t == Xors[k][m][ShiftedIn(k, m, 0)]
    <3>1. m \in Nat /\ e \in Nat /\ e \in 0 .. h - 1 /\ b \in {0, 1} /\ m = 2 * e + b
      BY <2>2
    <3>2. s \in Nat
      <4>1. 2 * e + b \in Nat
        BY <3>1
      <4> QED
        BY <2>2, <4>1 DEF ShiftedIn
    <3>3. u \in 0 .. h - 1 /\ u \in Nat
      BY <2>2, <3>1, <3>2, XorRange
    <3>4. t = 2 * u + b
      <4>1. t = 2 * u + ((b + 0) % 2)
        BY <2>1, <3>1, ShiftedInSteps
      <4> HIDE DEF b, u, t
      <4> QED
        BY <3>1, <3>3, <4>1
    <3>5. t = 0 \/ Ands[k][t][t - 1] = 0
      BY <2>3 DEF AtMostOne
    <3>6. ASSUME NEW c \in Nat, NEW d \in Nat
          PROVE  Ands[k][c][d] = 2 * Ands[k-1][c \div 2][d \div 2] + (c % 2) * (d % 2)
      BY <2>1, BitSteps
    <3>7. /\ AtMostOne(k-1, Xors[k-1][e][ShiftedIn(k-1, e, 0)])
               => \E j \in 0 .. k-1 : e = h - 2 ^ j
          /\ Xors[k-1][e][ShiftedIn(k-1, e, 1)] = 0 => e = 1 * (h - 1)
      BY <1>2, <2>2, <3>1, NoChange
    <3>8. CASE b = 0
      <4>1. AtMostOne(k-1, u)
        <5>1. CASE u = 0
          BY <5>1 DEF AtMostOne
        <5>2. CASE u # 0
          <6> DEFINE y == Ands[k-1][u][u - 1]
          <6> HIDE DEF u, t
          <6>1. t \in Nat /\ t # 0 /\ t - 1 \in Nat /\ t \div 2 = u /\ t % 2 = 0
                /\ (t - 1) \div 2 = u - 1 /\ (t - 1) % 2 = 1
            BY <3>3, <3>4, <3>8, <5>2
          <6>2. Ands[k][t][t - 1] = 2 * y + 0 * 1
            BY <3>6, <6>1
          <6>3. 2 * y + 0 * 1 = 0
            BY <3>5, <6>1, <6>2
          <6>4. y \in Int
            BY <2>2, <3>3, <5>2, AndType
          <6>5. y = 0
            <7> HIDE DEF y
            <7> QED
              BY <6>3, <6>4
          <6> QED
            BY <6>5 DEF AtMostOne
        <5> QED
          BY <5>1, <5>2
      <4>2. PICK j \in 0 .. k-1 : e = h - 2 ^ j
        BY <3>7, <3>8, <4>1
      <4>3. j + 1 \in 1 .. W /\ j + 1 \in 0 .. k /\ (j + 1) - 1 = j
        BY <2>1, WidthPowers
      <4>4. 2 ^ (j + 1) = 2 * 2 ^ j /\ 2 ^ j \in Nat
        BY <4>3, WidthPowers
      <4> HIDE DEF e, b, h
      <4>5. m = 2 ^ k - 2 ^ (j + 1)
        BY <2>2, <3>1, <3>8, <4>2, <4>4
      <4> QED
        BY <4>3, <4>5
    <3>9. CASE b = 1
      <4> HIDE DEF u, t
      <4>1. t \in Nat /\ t # 0 /\ t - 1 \in Nat /\ t \div 2 = u /\ t % 2 = 1
            /\ (t - 1) \div 2 = u /\ (t - 1) % 2 = 0
        BY <3>3, <3>4, <3>9
      <4>2. Ands[k][t][t - 1] = 2 * Ands[k-1][u][u] + 1 * 0
        BY <3>6, <4>1
      <4>3. Ands[k-1][u][u] = u
        BY <2>2, <3>3, AndSame
      <4>4. u = 0
        BY <3>3, <3>5, <4>1, <4>2, <4>3
      <4>5. e = 1 * (h - 1)
        BY <3>7, <3>9, <4>4 DEF u
      <4> HIDE DEF e, b, h
      <4>6. m = 2 ^ k - 2 ^ 0 /\ 0 \in 0 .. k
        BY <2>1, <2>2, <3>1, <3>9, <4>5, WidthPowers
      <4> QED
        BY <4>6
    <3> QED
      BY <3>1, <3>8, <3>9
  <2>4. P(k)
    BY <2>3
  <2> HIDE DEF P
  <2> QED
    BY <2>2, <2>4
<1>3. ASSUME NEW n \in 0 .. W
      PROVE  n \in G
  <2> HIDE DEF G
  <2>1. n \in Nat
    BY WidthPowers
  <2>2. \A k \in 1 .. n : k-1 \in G => k \in G
    BY <1>2
  <2> QED
    BY <1>1, <2>1, <2>2, Numbers!Inductive
<1> QED
  BY <1>3

-----------------------------------------------------------------------------

\* The mask check, and what the operators of decode_address give with a mask
\* that has passed it.
LEMMA MasksAreBlocks ==
  ASSUME NEW m \in Address, LeftBitsOnly(m)
  PROVE  \E k \in 0 .. W : m = 2 ^ W - 2 ^ k
<1> DEFINE s == (2 * m) % 2 ^ W
           t == Xor(m, s)
<1>1. W \in 0 .. W /\ m \in Nat /\ m \in 0 .. 2 ^ W - 1 /\ 2 ^ W \in Nat \ {0}
  BY WidthPowers DEF Address
<1>2. ShiftedIn(W, m, 0) = s /\ s \in Nat
  <2>1. 2 * m + 0 = 2 * m /\ 2 * m \in Nat
    BY <1>1
  <2> QED
    BY <1>1, <2>1 DEF ShiftedIn
<1> HIDE DEF s
<1>3. t = Xors[W][m][s]
  BY <1>1, <1>2, BitSteps
<1>4. t = 0 \/ And(t, t - 1) = 0
  BY DEF LeftBitsOnly, s
<1>5. t \in Nat
  BY <1>1, <1>2, <1>3, XorRange
<1> HIDE DEF t
<1>6. AtMostOne(W, t)
  <2>1. CASE t = 0
    BY <2>1 DEF AtMostOne
  <2>2. CASE t # 0
    <3>1. t - 1 \in Nat
      BY <1>5, <2>2
    <3> QED
      BY <1>4, <1>5, <2>2, <3>1, BitSteps DEF AtMostOne
  <2> QED
    BY <2>1, <2>2
<1> QED
  BY <1>1, <1>2, <1>3, <1>6, OneChange

LEMMA BlockMasks ==
  ASSUME NEW k \in 0 .. W, NEW a \in Address
  PROVE  /\ And(a, 2 ^ W - 2 ^ k) = a - (a % (2 ^ k))
         /\ And(a, Complement(2 ^ W - 2 ^ k)) = a % (2 ^ k)
         /\ 2 ^ k \in Nat \ {0} /\ 2 ^ W \in Nat \ {0} /\ 2 ^ k =< 2 ^ W
         /\ \E e \in Nat : 2 ^ W = e * 2 ^ k
<1> DEFINE p == 2 ^ k
           v == 2 ^ W
           e == 2 ^ (W - k)
<1>1. W \in 0 .. W /\ p \in Nat \ {0} /\ v \in Nat \ {0} /\ a \in 0 .. v - 1 /\ a \in Nat
  BY WidthPowers DEF Address
<1>2. v = e * p /\ e \in Nat \ {0}
  <2>1. W - k \in Nat /\ (W - k) + k = W /\ k \in Nat
    BY WidthPowers
  <2>2. 2 ^ ((W - k) + k) = e * p
    BY <2>1, Numbers!PowersAdd
  <2>3. e \in Nat \ {0}
    BY <2>1, Numbers!PowerOfTwo
  <2> QED
    BY <2>1, <2>2, <2>3
<1>3. Ands[W][a][v - p] = a - (a % p) /\ Ands[W][a][p - 1] = a % p
  BY <1>1, AndBlock
<1>4. AllOnes = v - 1
  BY DEF AllOnes
<1> HIDE DEF p, v, e
<1>5. p =< v
  <2>1. 1 * p =< e * p
    BY <1>1, <1>2, Numbers!ProductOrder
  <2> QED
    BY <1>1, <1>2, <2>1
<1>6. v - p \in Nat /\ p - 1 \in Nat /\ Complement(v - p) = p - 1
  BY <1>1, <1>4, <1>5 DEF Complement
<1>7. And(a, v - p) = Ands[W][a][v - p] /\ And(a, p - 1) = Ands[W][a][p - 1]
  BY <1>1, <1>6, BitSteps
<1> QED
  BY <1>1, <1>2, <1>3, <1>5, <1>6, <1>7 DEF p, v

-----------------------------------------------------------------------------

\* What set_range has checked stays true of the target it was called for.
MapIInv ==
  /\ base \in [Target -> Address] /\ mask \in [Target -> Address]
  /\ \A i \in Target : LeftBitsOnly(mask[i]) /\ And(base[i], mask[i]) = base[i]

LEMMA OnesUnchanged ==
  \A k \in 0 .. W : Xors[k][2 ^ k - 1][ShiftedIn(k, 2 ^ k - 1, 1)] = 0
<1> DEFINE P(k) == Xors[k][2 ^ k - 1][ShiftedIn(k, 2 ^ k - 1, 1)] = 0
           G == {k \in 0 .. W : P(k)}
<1>1. 0 \in G
  <2>1. 2 ^ 0 - 1 = 0 /\ 2 ^ 0 = 1 /\ 0 \in 0 .. W
    BY WidthPowers
  <2>2. ShiftedIn(0, 0, 1) \in Nat
    BY <2>1 DEF ShiftedIn
  <2>3. P(0)
    BY <2>1, <2>2, BitSteps
  <2> HIDE DEF P
  <2> QED
    BY <2>1, <2>3
<1>2. ASSUME NEW n \in 0 .. W, NEW k \in 1 .. n, k-1 \in G
      PROVE  k \in G
  <2>1. k \in 1 .. W
    BY WidthPowers
  <2> DEFINE h == 2 ^ (k-1)
             m == 2 ^ k - 1
             s == ShiftedIn(k, m, 1)
  <2>2. h \in Nat \ {0} /\ 2 ^ k = 2 * h /\ k \in 0 .. W /\ k-1 \in 0 .. W
    BY <2>1, WidthPowers
  <2>3. m \in Nat /\ m \div 2 = h - 1 /\ m % 2 = 1
    BY <2>2
  <2>4. Xors[k-1][h - 1][ShiftedIn(k-1, h - 1, 1)] = 0
    BY <1>2
  <2> HIDE DEF h, m
  <2>5. /\ s \div 2 = ShiftedIn(k-1, m \div 2, m % 2)
        /\ Xors[k][m][s] = 2 * Xors[k-1][m \div 2][s \div 2] + (((m % 2) + 1) % 2)
    BY <2>1, <2>3, ShiftedInSteps
  <2> HIDE DEF s
  <2>6. Xors[k][m][s] = 0
    BY <2>3, <2>4, <2>5
  <2>7. P(k)
    BY <2>6 DEF m, s
  <2> HIDE DEF P
  <2> QED
    BY <2>2, <2>7
<1>3. ASSUME NEW n \in 0 .. W
      PROVE  n \in G
  <2> HIDE DEF G
  <2>1. n \in Nat
    BY WidthPowers
  <2>2. \A k \in 1 .. n : k-1 \in G => k \in G
    BY <1>2
  <2> QED
    BY <1>1, <2>1, <2>2, Numbers!Inductive
<1> QED
  BY <1>3

LEMMA FreshTarget ==
  AllOnes \in Address /\ LeftBitsOnly(AllOnes) /\ And(AllOnes, AllOnes) = AllOnes
<1> DEFINE v == 2 ^ W
           h == 2 ^ (W-1)
<1>1. W \in 1 .. W /\ W \in 0 .. W /\ v \in Nat \ {0} /\ h \in Nat \ {0} /\ v = 2 * h
      /\ AllOnes = v - 1 /\ 0 \in 0 .. W /\ 2 ^ 0 = 1
  BY WidthPowers DEF AllOnes
<1>2. AllOnes \in Address
  BY <1>1 DEF Address
<1>3. And(AllOnes, AllOnes) = AllOnes
  <2>1. Ands[W][AllOnes][AllOnes] = AllOnes /\ AllOnes \in Nat
    BY <1>1, <1>2, AndSame DEF Address
  <2> QED
    BY <2>1, BitSteps
<1> DEFINE s == (2 * AllOnes) % v
<1>4. Xor(AllOnes, s) = 1
  <2>1. AllOnes \in Nat /\ AllOnes \div 2 = h - 1 /\ AllOnes % 2 = 1
    BY <1>1
  <2>2. ShiftedIn(W, AllOnes, 0) = s
    <3>1. 2 * AllOnes + 0 = 2 * AllOnes
      BY <2>1
    <3> QED
      BY <3>1 DEF ShiftedIn
  <2> HIDE DEF s, h
  <2>3. /\ s \in Nat /\ s \div 2 = ShiftedIn(W-1, AllOnes \div 2, AllOnes % 2)
        /\ Xors[W][AllOnes][s] = 2 * Xors[W-1][AllOnes \div 2][s \div 2] + (((AllOnes % 2) + 0) % 2)
    BY <1>1, <2>1, <2>2, ShiftedInSteps
  <2>4. Xors[W-1][h - 1][ShiftedIn(W-1, h - 1, 1)] = 0
    <3>1. W-1 \in 0 .. W
      BY <1>1, WidthPowers
    <3> QED
      BY <3>1, OnesUnchanged DEF h
  <2>5. Xors[W][AllOnes][s] = 1
    BY <2>1, <2>3, <2>4
  <2> QED
    BY <2>1, <2>3, <2>5, BitSteps
<1>5. And(1, 1 - 1) = 0
  <2>1. 1 \in Nat /\ 0 \in Nat /\ 1 - 1 = 0 /\ 1 \div 2 = 0 /\ 0 \div 2 = 0 /\ 1 % 2 = 1 /\ 0 % 2 = 0
    OBVIOUS
  <2>2. And(1, 0) = 2 * Ands[W-1][0][0] + 1 * 0
    <3>1. ASSUME NEW a \in Nat, NEW c \in Nat
          PROVE  And(a, c) = 2 * Ands[W-1][a \div 2][c \div 2] + (a % 2) * (c % 2)
      <4>1. /\ And(a, c) = Ands[W][a][c]
            /\ \A k \in 1 .. W :
                 Ands[k][a][c] = 2 * Ands[k-1][a \div 2][c \div 2] + (a % 2) * (c % 2)
        BY BitSteps
      <4> QED
        BY <1>1, <4>1, Zenon
    <3>2. And(1, 0) = 2 * Ands[W-1][1 \div 2][0 \div 2] + (1 % 2) * (0 % 2)
      BY <3>1
    <3> QED
      BY <2>1, <3>2
  <2>3. W-1 \in 0 .. W /\ 0 \in 0 .. 2 ^ (W-1) - 1
    BY <1>1, WidthPowers
  <2>4. Ands[W-1][0][0] = 0
    BY <2>3, AndSame
  <2> QED
    BY <2>1, <2>2, <2>4
<1> QED
  BY <1>2, <1>3, <1>4, <1>5 DEF LeftBitsOnly

LEMMA MapSteps ==
  ASSUME MapIInv, Configure
  PROVE  MapIInv'
<1>1. PICK i \in Target, b \in Address, m \in Address : SetRange(i, b, m)
  BY DEF Configure
<1>2. CASE ~Acceptable(b, m)
  BY <1>1, <1>2 DEF SetRange, MapIInv
<1>3. CASE Acceptable(b, m)
  <2>1. base' = [base EXCEPT ![i] = b] /\ mask' = [mask EXCEPT ![i] = m]
    BY <1>1, <1>3 DEF SetRange
  <2>2. LeftBitsOnly(m) /\ And(b, m) = b
    BY <1>3 DEF Acceptable
  <2> QED
    BY <2>1, <2>2 DEF MapIInv
<1> QED
  BY <1>2, <1>3

LEMMA DecodeMatches ==
  ASSUME NEW a, Decode(a) # T
  PROVE  Decode(a) \in Target /\ Matches(Decode(a), a)
<1> DEFINE S == {j \in Target : Matches(j, a)}
           First(j) == Matches(j, a) /\ \A l \in Target : Matches(l, a) => j =< l
<1>1. Decode(a) = CHOOSE j \in Target : First(j)
  BY DEF Decode
<1>2. \E j \in Target : First(j)
  <2>1. S \subseteq Nat /\ S # {}
    BY TAssumption DEF Decode, Target
  <2> HIDE DEF S
  <2>2. \E j \in S : \A l \in S : j =< l
    BY <2>1, Numbers!LeastOne
  <2> QED
    BY <2>2 DEF S
<1>3. \A j : First(j) => Matches(j, a)
  OBVIOUS
<1> HIDE DEF First
<1> QED
  BY <1>1, <1>2, <1>3

LEMMA MapInvHolds ==
  ASSUME MapIInv
  PROVE  MapInv
<1> DEFINE v == 2 ^ W
<1>1. ASSUME NEW i \in Target
      PROVE  \E k \in 0 .. W : mask[i] = 2 ^ W - 2 ^ k
  BY MasksAreBlocks DEF MapIInv
<1>2. ASSUME NEW i \in Target, NEW k \in 0 .. W, mask[i] = 2 ^ W - 2 ^ k
      PROVE  LET p == 2 ^ k
             IN  /\ base[i] % p = 0
                 /\ \A a \in Address : Matches(i, a) <=> a - (a % p) = base[i]
                 /\ \A a \in Address : Masked(i, a) = a % p
                 /\ base[i] \in Address /\ p \in Nat \ {0} /\ \E e \in Nat : 2 ^ W = e * p
  <2> DEFINE p == 2 ^ k
             b == base[i]
  <2>1. b \in Address /\ And(b, mask[i]) = b
    BY DEF MapIInv
  <2>2. b - (b % p) = b /\ p \in Nat \ {0} /\ \E e \in Nat : 2 ^ W = e * p
    BY <1>2, <2>1, BlockMasks
  <2>3. b % p = 0
    <3>1. b % p \in Int /\ b \in Int
      BY <2>1, <2>2, WidthPowers DEF Address
    <3> HIDE DEF b, p
    <3> QED
      BY <2>2, <3>1
  <2>4. ASSUME NEW a \in Address
        PROVE  (Matches(i, a) <=> a - (a % p) = b) /\ Masked(i, a) = a % p
    BY <1>2, BlockMasks DEF Matches, Masked
  <2> QED
    BY <2>1, <2>2, <2>3, <2>4
<1>3. RangesAreBlocks
  <2> SUFFICES ASSUME NEW i \in Target
               PROVE  \E k \in 0 .. W :
                        /\ mask[i] = 2 ^ W - 2 ^ k
                        /\ base[i] % 2 ^ k = 0
                        /\ {a \in Address : Matches(i, a)} = base[i] .. base[i] + 2 ^ k - 1
    BY DEF RangesAreBlocks
  <2>1. PICK k \in 0 .. W : mask[i] = 2 ^ W - 2 ^ k
    BY <1>1
  <2> DEFINE p == 2 ^ k
             b == base[i]
  <2>2. /\ b % p = 0 /\ \A a \in Address : Matches(i, a) <=> a - (a % p) = b
        /\ b \in Address /\ p \in Nat \ {0} /\ \E e \in Nat : v = e * p
    BY <1>2, <2>1
  <2>3. PICK e \in Nat : v = e * p
    BY <2>2
  <2>4. v \in Nat \ {0} /\ Address = 0 .. v - 1
    BY WidthPowers DEF Address
  <2> HIDE DEF p, b, v
  <2> DEFINE q == b \div p
  <2>5. /\ b \in Int /\ 0 =< b /\ b < v /\ q \in Int /\ b = q * p
        /\ p \in Int /\ p >= 1 /\ v \in Int /\ e \in Int
    <3>1. b \in 0 .. v - 1 /\ b \in Int
      BY <2>2, <2>4
    <3>2. q \in Int /\ b = q * p + (b % p)
      BY <2>2, <3>1, Numbers!Division
    <3>3. q * p \in Int
      BY <2>2, <3>2
    <3> QED
      BY <2>2, <3>1, <3>2, <3>3
  <2> HIDE DEF q
  <2>6. b + p =< v
    <3>1. ASSUME e =< q
          PROVE  FALSE
      <4>1. e * p =< q * p
        BY <2>5, <3>1, Numbers!ProductOrder
      <4> QED
        BY <2>3, <2>5, <4>1
    <3>2. q + 1 =< e
      BY <2>5, <3>1
    <3>3. (q + 1) * p =< e * p
      BY <2>5, <3>2, Numbers!ProductOrder
    <3>4. (q + 1) * p = q * p + p
      BY <2>5
    <3> QED
      BY <2>3, <2>5, <3>3, <3>4
  <2>7. ASSUME NEW a \in Address, Matches(i, a)
        PROVE  a \in b .. b + p - 1
    <3>1. a \in Int /\ a % p \in 0 .. p - 1 /\ a - (a % p) = b
      BY <2>2, <2>4, <2>7
    <3> QED
      BY <2>2, <2>5, <3>1
  <2>8. ASSUME NEW a \in b .. b + p - 1
        PROVE  a \in Address /\ Matches(i, a)
    <3> DEFINE r == a - b
    <3>1. a \in Int /\ a \in 0 .. v - 1 /\ r \in 0 .. p - 1 /\ r \in Int
      BY <2>5, <2>6
    <3>2. a = q * p + r /\ p \in Nat \ {0}
      BY <2>2, <2>5, <3>1
    <3> HIDE DEF r
    <3>3. a % p = r
      BY <2>5, <3>1, <3>2, Numbers!DivisionIs, Zenon
    <3>4. a - (a % p) = b
      BY <2>5, <3>1, <3>3 DEF r
    <3> QED
      BY <2>2, <2>4, <3>1, <3>4
  <2>9. {a \in Address : Matches(i, a)} = b .. b + p - 1
    BY <2>7, <2>8
  <2> QED
    BY <2>1, <2>2, <2>9 DEF p, b
<1>4. DecodeRoundTrip
  <2> SUFFICES ASSUME NEW a \in Address, Decode(a) # T
               PROVE  Compose(Decode(a), Masked(Decode(a), a)) = a
    BY DEF DecodeRoundTrip
  <2> DEFINE i == Decode(a)
             b == base[i]
  <2>1. i \in Target /\ Matches(i, a)
    BY DecodeMatches
  <2>2. PICK k \in 0 .. W : mask[i] = 2 ^ W - 2 ^ k
    BY <1>1, <2>1
  <2> DEFINE p == 2 ^ k
             r == a % p
  <2>3. a - r = b /\ Masked(i, a) = r /\ b \in Address /\ p \in Nat \ {0}
    BY <1>2, <2>1, <2>2
  <2>4. v \in Nat \ {0} /\ a \in 0 .. v - 1 /\ b \in 0 .. v - 1 /\ r \in Int
    BY <2>3, WidthPowers DEF Address
  <2>5. Compose(i, r) = (r + b) % v
    BY DEF Compose
  <2> HIDE DEF i, b, r, v
  <2>6. r + b = a /\ a % v = a
    BY <2>3, <2>4
  <2> QED
    BY <2>3, <2>5, <2>6 DEF i
<1> QED
  BY <1>3, <1>4 DEF MapInv

(***************************************************************************)
(* Whatever calls of set_range the map has been built by, for addresses of *)
(* any width: every target's range is an aligned block, and an address     *)
(* that decodes to a target is composed back from what it is handed.       *)
(***************************************************************************)
THEOREM MapInvariance == MapSpec => []MapInv
<1>1. MapInit => MapIInv
  BY FreshTarget DEF MapInit, MapIInv
<1>2. MapIInv /\ [Configure]_mapVars => MapIInv'
  <2> SUFFICES ASSUME MapIInv, [Configure]_mapVars
               PROVE  MapIInv'
    OBVIOUS
  <2>1. CASE UNCHANGED mapVars
    BY <2>1 DEF mapVars, MapIInv
  <2> QED
    BY <2>1, MapSteps
<1>3. MapIInv => MapInv
  BY MapInvHolds
<1> QED
  BY <1>1, <1>2, <1>3, PTL DEF MapSpec

(***************************************************************************)
(* The platform builds its map and then runs on it, so both halves hold of *)
(* it: the map's properties, and that no request is stranded.              *)
(***************************************************************************)
THEOREM TopInvariance == TopSpec => []IInv /\ []MapInv
<1>1. TopInit => Init /\ MapInit
  BY DEF TopInit
<1>2. [TopNext]_topVars => [Next]_vars /\ [Configure]_mapVars
  <2> SUFFICES ASSUME [TopNext]_topVars
               PROVE  [Next]_vars /\ [Configure]_mapVars
    OBVIOUS
  <2>1. CASE Build
    BY <2>1 DEF Build
  <2>2. CASE Start
    BY <2>2 DEF Start
  <2>3. CASE Transport
    BY <2>3 DEF Transport, DecodedRequest, Next
  <2>4. CASE UNCHANGED topVars
    BY <2>4 DEF topVars
  <2> QED
    BY <2>1, <2>2, <2>3, <2>4 DEF TopNext
<1>3. TopSpec => Spec /\ MapSpec
  BY <1>1, <1>2, PTL DEF TopSpec, Spec, MapSpec
<1> QED
  BY <1>3, BusInvariance, MapInvariance, PTL

====
