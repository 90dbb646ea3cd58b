\* Calls of every kind one after the other, two files, each rewritten once, the
\* reaper, shutdown and crash: what the documents promise.  One
\* file grows too large for any daemon; two of the smallest just fit.
SPECIFICATION MemorySpec
CONSTANTS
  Calls = {c1, c2}
  NoCall = NoCall
  Kinds = {"query", "unload", "control"}
  Files = {f1, f2}
  MaxVersion = 2
  MaxNow = 1
  IdleTimeout = 0
  MaxDaemons = 1
  Serial = TRUE
  Crashes = TRUE
  OneChange = FALSE
  FileMb <- MCFileMb
  TotalMb = 148
  MinFreeMb = 20
  MaxDaemonMb = 100
  Linux = TRUE
SYMMETRY CallSymmetry
INVARIANTS
  TypeOK
  FreshContents
  OneDaemonPerTrace
  WithinLimit
  LoadingVisible
  HeadroomKept
CHECK_DEADLOCK FALSE
