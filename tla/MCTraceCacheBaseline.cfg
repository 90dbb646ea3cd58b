\* Two calls one after the other, about one trace and two it may be compared with.
SPECIFICATION Spec
CONSTANTS
  Calls = {c1, c2}
  Files = {f1, f2}
  Shapes = {"digest"}
  Baselines = {f1, f2}
  NoFile = NoFile
  MaxVersion = 1
  MaxEntries = 2
  Quiet = TRUE
INVARIANT ComparesWithBaseline
CHECK_DEADLOCK FALSE
