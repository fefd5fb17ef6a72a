SPECIFICATION FairSpec
CONSTANTS
  Channels = {0, 16}
  NumberMod = 2
  IndexMod = 3
  KeyBase = 16
  AssertAborts = {TRUE}
  DebuggerRethrows = {TRUE}
  Garbage = Garbage
  Kinds = {"plain", "tiny", "ordered"}
  Splits = {FALSE}
  MayReorder = FALSE
  MayLose = FALSE
  MayDuplicate = FALSE
  MaxFrames = 2
  MaxDatagrams = 3
  MaxResends = 1
  MaxInFlight = 2
  MaxDuplicates = 0
INVARIANT OrderedInOrder
INVARIANT PlainOnce
INVARIANT Undisturbed
INVARIANT OnlyTinyTailsAreLost
PROPERTY EverySentIsProcessed
CHECK_DEADLOCK FALSE
