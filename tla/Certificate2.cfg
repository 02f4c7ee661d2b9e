\* One subscriber and two changes of the files.  The second event may be
\* dropped while the first waits in the channel, and two exchanges of a
\* directory are two reloads: the second may find the subscriber busy, or its
\* channel full.  Once nothing is written any more the system rests.
CONSTANTS
  Subscribers = {s1}
  MaxVersion = 2
  MaxWrites = 2
SPECIFICATION Spec
INVARIANTS
  StoredGoes
  ClosedOnce
PROPERTIES
  Fresh
  SubscriberFresh
  CloseReturns
CHECK_DEADLOCK FALSE
