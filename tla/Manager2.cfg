\* Three generations, two reloads, two signals, one subscriber.  Once nothing
\* happens any more the system rests.
CONSTANTS
  Subscribers = {s1}
  MaxGen = 3
  MaxReloads = 2
  MaxSignals = 2
SPECIFICATION Spec
INVARIANTS
  InstalledOpen
  ServesLatest
  NoneLeaked
PROPERTY SubscriberFresh
CHECK_DEADLOCK FALSE
