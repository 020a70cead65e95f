SPECIFICATION Spec
CONSTANTS
  short = short
  other = other
  long = long
  task = task
  NumKeys = 2
  Values = {short, other, long}
  Longer = {long}
  NoValue = NoValue
  Empty = Empty
  Torn = Torn
  Readers = {task}
  Faults = {"openFails", "writeFails", "syncFails", "removeFails", "statFails", "readFails"}
  EarlyCli = FALSE
INVARIANT TypeOK
INVARIANT PendingCovers
INVARIANT SavedIsStored
PROPERTY ReadsUndisturbed
PROPERTY ImplementsPromise
