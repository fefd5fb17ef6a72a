SPECIFICATION Spec
CONSTANTS
  BlockSize = 700
  protocol_version <- MCVersion
  server_guid <- MCGuid
  server_id <- MCServerId
  Clocks <- MCClocks
  ShiftModuli = {32, 64}
  ClientPackets <- MCClientPackets
  client_ip <- MCIp
  client_port <- MCPort
  Mtus = {400, 576}
  SeqNumbers = {0, 255, 16777215}
  Reliabilities = {0, 1, 2, 3, 4}
INVARIANT TypeOK
INVARIANT NothingThrows
INVARIANT OfflineRepliesReadable
INVARIANT FramesSplit
INVARIANT FramedRepliesReadable
