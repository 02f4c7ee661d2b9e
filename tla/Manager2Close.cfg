\* One subscriber, two signals.
CONSTANTS
  Subscribers = {s1}
  MaxGen = 3
  MaxReloads = 1
  MaxSignals = 2
SPECIFICATION Spec
PROPERTY CloseReleases
CHECK_DEADLOCK FALSE
