\* Every list of up to five decisions, jobs of two policies (so that the last
\* job is partial), two workers for up to three jobs.
CONSTANTS
  MaxPolicies = 5
  PerWorker = 2
  Procs = 2
SPECIFICATION Spec
INVARIANTS
  YesSawEveryJob
  LeavesNoWorker
PROPERTIES
  Implements
  Terminates
