\* Three tasks, limits of none, one and two, every number of tracked errors,
\* with and without a context.
CONSTANTS
  NumTasks = 3
  MaxConc = 2
SPECIFICATION Spec
INVARIANTS
  ConcurrencyBound
  WaitSeesAll
  RootCause
PROPERTY WaitReturns
