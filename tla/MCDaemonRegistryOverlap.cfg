\* Two overlapping queries for one trace, where one daemon may be resident.
SPECIFICATION Spec
CONSTANTS
  Calls = {c1, c2}
  NoCall = NoCall
  Kinds = {"query"}
  Files = {f1}
  MaxVersion = 1
  MaxNow = 0
  IdleTimeout = 0
  MaxDaemons = 1
  Serial = FALSE
  Crashes = FALSE
  OneChange = FALSE
INVARIANT SomePromiseKept
CHECK_DEADLOCK FALSE
