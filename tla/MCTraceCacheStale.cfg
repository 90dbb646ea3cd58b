\* Two calls about one file that is captured again while they run.
SPECIFICATION Spec
CONSTANTS
  Calls = {c1, c2}
  Files = {f1}
  Shapes = {"digest"}
  Baselines = {}
  NoFile = NoFile
  MaxVersion = 2
  MaxEntries = 2
  Quiet = FALSE
INVARIANT NeverStale
CHECK_DEADLOCK FALSE
