SPECIFICATION FairSpec
CONSTANTS
  NewClients = {c1}
  OldClients = {c3}
  Addresses <- MCAddresses
  Speaks <- MCSpeaks
  Adjustments <- MCAdjustments
  protocol_version = 6
  Timeout = 1
  ClockMod = 100
  NumberMod = 2
  MaxClock = 2
  MaxAdjusted = 1
  MaxRestarts = 1
  MaxData = 2
  MaxLosses = 1
  MaxInFlight = 2
INVARIANT TypeOK
INVARIANT OldVersionsStayOut
INVARIANT ReplyTwoMeansSession
PROPERTY ForgottenOnlyWhenSilent
PROPERTY SessionOutlivesHandshakes
PROPERTY EveryClientGetsIn
CHECK_DEADLOCK FALSE
