SPECIFICATION Spec
CONSTANTS
  Channels = {0, 16}
  NumberMod = 16
  IndexMod = 16
  KeyBase = 16
  AssertAborts = {TRUE, FALSE}
  DebuggerRethrows = {TRUE, FALSE}
  Garbage = Garbage
  Kinds = {"ordered", "sequenced"}
  Splits = {FALSE, TRUE}
  MayReorder = TRUE
  MayLose = TRUE
  MayDuplicate = TRUE
  MaxFrames = 1
  MaxDatagrams = 4
  MaxResends = 2
  MaxInFlight = 2
  MaxDuplicates = 1
INVARIANT TypeOK
INVARIANT DuplicateOnlyAboveGap
INVARIANT MissingAboveGap
INVARIANT FirstCopiesAreProcessed
PROPERTY ChannelIsolation
PROPERTY DownOnlyOnRepeat
CHECK_DEADLOCK FALSE
