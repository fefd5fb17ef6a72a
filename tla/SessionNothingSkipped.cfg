SPECIFICATION Spec
CONSTANTS
  Channels = {0}
  NumberMod = 16
  IndexMod = 16
  KeyBase = 16
  AssertAborts = {TRUE}
  DebuggerRethrows = {TRUE}
  Garbage = Garbage
  Kinds = {"ordered"}
  Splits = {FALSE}
  MayReorder = TRUE
  MayLose = FALSE
  MayDuplicate = FALSE
  MaxFrames = 1
  MaxDatagrams = 5
  MaxResends = 2
  MaxInFlight = 3
  MaxDuplicates = 0
INVARIANT NothingSkipped
CHECK_DEADLOCK FALSE
