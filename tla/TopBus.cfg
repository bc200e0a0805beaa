\* Two targets on 3-bit addresses with every base and mask, in every order of
\* set_range calls, and three initiators: one in service, one notified or
\* newly come and one to be forgotten.
SPECIFICATION TopFairSpec
CONSTANTS
  N = 3
  W = 3
  T = 2
INVARIANTS IInv MapInv
PROPERTY FirstServed
