SPECIFICATION Spec
CONSTANTS
  Job = {1, 2}
  Share <- MCShare
  ROW_LIMIT = 2
  MaxStints = 2
  Flushes = 2
  StrayCursors = {1}
INVARIANT SnapshotExact
PROPERTY BrowserSeesTheEnd
CHECK_DEADLOCK FALSE
