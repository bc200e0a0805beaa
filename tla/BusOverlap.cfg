\* Two targets on 3-bit addresses with every base and mask, in every order of
\* set_range calls.  A call that is refused changes nothing.
SPECIFICATION MapSpec
CONSTANTS
  W = 3
  T = 2
INVARIANT RangesDoNotConflict
