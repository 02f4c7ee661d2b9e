\* Three jobs share two tokens, each runs two rounds.  Two lookups, two
\* browsers, two pairs of files added twice: enough for one to come between
\* the steps of the other.  All but the workers may rest anywhere.
CONSTANTS
  Jobs = {j1, j2, j3}
  N = 2
  MaxRounds = 2
  \* env: a value that changes once, lookups that overlap, one restart
  Lookers = {l1, l2}
  MaxVersion = 2
  MaxRestarts = 1
  \* oidc: tokens and credentials that expire in the moment they are made, or
  \* never: an expired one differs from a fresh one by one tick
  Requests = {r1, r2}
  LoginLife = 0
  CredsLife = 0
  MaxTime = 2
  MaxCodes = 2
  \* certs: the version a pair gets when it is rewritten has IP SANs
  Pairs = {p1, p2}
  DefaultCert = p1
  Adds = {a1, a2}
  IPVersions = {2}
  MaxWrites = 1
  MaxRewrites = 1
SPECIFICATION ServicesSpec
INVARIANTS
  AtMostN
  WaitCoversOngoing
  NeverOlder
  ServedFresh
PROPERTIES
  WaitTerminates
  ShutsDown
  TickerHeals
CHECK_DEADLOCK FALSE
