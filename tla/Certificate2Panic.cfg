\* One subscriber, one reload.
CONSTANTS
  Subscribers = {s1}
  MaxVersion = 2
  MaxWrites = 2
SPECIFICATION Spec
INVARIANT NoPanic
CHECK_DEADLOCK FALSE
