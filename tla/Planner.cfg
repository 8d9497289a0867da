SPECIFICATION Spec
CONSTANTS
  None = None
  Graphs <- MCGraphs
  MaxRequestRetries = 2
  MaxFormatRepairs = 1
INVARIANTS CallsBounded AcceptsWhatCanRun EndRecorded
CHECK_DEADLOCK FALSE
