------------------------------- MODULE Arbiter -------------------------------
(***************************************************************************)
(* What a multi port arbiter promises to its masters, with no trace of how *)
(* Mpa.h achieves it: one owner at a time, an owner that hands over to the *)
(* waiting master of highest priority (the smallest port) the moment it is *)
(* done, and a bus that is never idle while a master is waiting.           *)
(***************************************************************************)
EXTENDS Integers

CONSTANTS
  N,      \* number of master ports, 0 .. N-1, port 0 has the highest priority
  NoPort  \* the owner of an idle bus

VARIABLES
  owner,  \* the port the bus is granted to
  queue   \* the ports whose request has not been granted yet

vars == <<owner, queue>>

Port == 0 .. N-1

Highest(S) == CHOOSE p \in S : \A q \in S : p =< q

Init ==
  /\ owner = NoPort
  /\ queue = {}

\* An idle bus is granted at once.
Take(p) ==
  /\ owner = NoPort
  /\ owner' = p
  /\ UNCHANGED queue

\* A busy bus makes the master wait.
Enqueue(p) ==
  /\ owner # NoPort
  /\ p # owner
  /\ p \notin queue
  /\ queue' = queue \cup {p}
  /\ UNCHANGED owner

\* The owner is done and nobody waits.
Release ==
  /\ owner # NoPort
  /\ queue = {}
  /\ owner' = NoPort
  /\ UNCHANGED queue

\* The owner is done and the waiting master of highest priority takes over.
HandOver ==
  /\ owner # NoPort
  /\ queue # {}
  /\ owner' = Highest(queue)
  /\ queue' = queue \ {Highest(queue)}

Next ==
  \/ \E p \in Port : Take(p) \/ Enqueue(p)
  \/ Release
  \/ HandOver

Spec == Init /\ [][Next]_vars
=============================================================================
