\* Two overlapping calls of any kind, one file, the reaper, shutdown and a crash
\* of the server; in each behaviour the file is rewritten or the clock moves, once:
\* what may become of a daemon and of its handle, liveness and the refinement of
\* TraceService.
SPECIFICATION FairSpec
CONSTANTS
  Calls = {c1, c2}
  NoCall = NoCall
  Kinds = {"query", "unload", "control"}
  Files = {f1}
  MaxVersion = 2
  MaxNow = 1
  IdleTimeout = 0
  MaxDaemons = 1
  Serial = FALSE
  Crashes = TRUE
  OneChange = TRUE
INVARIANTS
  RegisteredHandles
  OneTerminator
  LostOnlyToDuplicates
PROPERTIES
  RemovedOnlyIfEnded
  ImplementsService
  CallsSettle
  ShutdownCompletes
CHECK_DEADLOCK FALSE
