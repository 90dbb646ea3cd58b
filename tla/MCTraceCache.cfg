\* Four calls about two traces, one the baseline of comparisons, captured again
\* only between the calls, with more keys than the cache has room for.
SPECIFICATION Spec
CONSTANTS
  Calls = {c1, c2, c3, c4}
  Files = {f1, f2}
  Shapes = {"digest"}
  Baselines = {f2}
  NoFile = NoFile
  MaxVersion = 2
  MaxEntries = 2
  Quiet = TRUE
SYMMETRY CacheSymmetry
INVARIANTS
  TypeOK
  AnswersOwnQuestion
PROPERTIES
  EvictsLeastRecentlyUsed
  ImplementsService
CHECK_DEADLOCK FALSE
