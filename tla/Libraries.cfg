\* Of quick: two Saves, or two Files of arbitrary callers with up to two Writes
\* each, so that a file can be whole, short or torn.
CONSTANTS
  Files = {f1, f2}
  Nobody = Nobody
  MaxWrites = 2
  \* wildcard
  Letters = {"a", "b"}
  MaxPattern = 5
  MaxName = 4
  \* ellipses
  Args <- MCArgs
  \* ilm
  Creations <- MCCreations
  Edits <- MCEdits
  Today = 2
  MaxEdits = 2
  \* rng: two blocks of two lanes
  Callers = {"owner"}
  Async = FALSE
  Lanes = 3
  BufferSize = 6
  Sizes <- MCSizes
  MaxOffset = 7
  MaxLen = 6
  MaxResets = 1
SPECIFICATION LibrariesSpec
INVARIANTS
  Intact
  AnswerHolds
  NoLitter
  Recoverable
  Correct
  QuadraticWork
  ExpandsToMeaning
  
  StreamExact
