\* Every mode, with the questions and traces of MCLoadedTrace; four rows of
\* allocations found and taken in batches of up to two, any of them without an
\* allocation, room for two of them or for all, and three pauses.
SPECIFICATION Spec
CONSTANTS
  Open = Open
  NoName = NoName
  NoTag = NoTag
  NoTracker = NoTracker
  NoAnswer = NoAnswer
  OverviewTop = 2
  SlowestShown = 1
  TopPerThread = 2
  TrackerBits = 2
  MaxHeaps = 3
  Questions <- MCQuestions
  Rows = 4
  Limits = {2, 4}
  MaxBatch = 2
  Timeout = 3
INVARIANTS
  
  RangesAreFrames
  DigestsExact
  ViewsAgree
  ComparesFair
  MemoryViewsExact
  AnswerHonest
PROPERTY
  QueryReturns
CHECK_DEADLOCK FALSE
