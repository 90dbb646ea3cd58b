\* Every tool by both routes, and the one-shot process with its faults.
SPECIFICATION Spec
CONSTANTS
  MostGiven = 2
  MaxStdout = 2
  MaxWritten = 3
  SomeTexts <- MCTexts
  SomeRanges <- MCRanges
  Positive <- MCPositive
  Nonnegative <- MCNonnegative
  Outputs <- MCOutputs
  Nothing <- NotJson
  Written <- Text
  Found <- extractTrailingJson
INVARIANTS
  AsAsked
  VariantsTellApart
  ResultIsOutput
PROPERTY
  RunsAnswered
CHECK_DEADLOCK FALSE
