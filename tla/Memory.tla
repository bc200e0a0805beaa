------------------------------- MODULE Memory -------------------------------
(***************************************************************************)
(* What a program expects of its loads and stores when no other master     *)
(* writes: a load returns the value of the last store to its address.      *)
(***************************************************************************)
CONSTANTS Address, Val

VARIABLES
  content, \* the value of each address
  result   \* what the last load returned, NoResult after a store

NoResult == <<>>

Init == content \in [Address -> Val] /\ result = NoResult

Load(a) == result' = <<a, content[a]>> /\ UNCHANGED content

Store(a, v) ==
  /\ content' = [content EXCEPT ![a] = v]
  /\ result' = NoResult

Forget == result' = NoResult /\ UNCHANGED content

Next ==
  \/ \E a \in Address : Load(a) \/ \E v \in Val : Store(a, v)
  \/ Forget

Spec == Init /\ [][Next]_<<content, result>>
=============================================================================
