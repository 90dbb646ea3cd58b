\* Two overlapping queries for one trace, then a shutdown.
SPECIFICATION Spec
CONSTANTS
  Calls = {c1, c2}
  NoCall = NoCall
  Kinds = {"query"}
  Files = {f1}
  MaxVersion = 1
  MaxNow = 0
  IdleTimeout = 0
  MaxDaemons = 2
  Serial = FALSE
  Crashes = FALSE
  OneChange = FALSE
INVARIANT NoOrphans
CHECK_DEADLOCK FALSE
