\* A session of questions, some to break each sentence of the descriptions.
SPECIFICATION SessionSpec
CONSTANTS
  Open = Open
  NoName = NoName
  NoTag = NoTag
  NoTracker = NoTracker
  NoAnswer = NoAnswer
  OverviewTop = 2
  SlowestShown = 1
  TopPerThread = 2
  TrackerBits = 2
  MaxHeaps = 3
  Questions <- SessionQuestions
  Rows = 4
  Limits = {2, 4}
  MaxBatch = 2
  Timeout = 3
INVARIANT SomeTextKept
CHECK_DEADLOCK FALSE
