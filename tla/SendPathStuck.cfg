SPECIFICATION FairSpec
CONSTANTS
  Clients = {c1}
  Buffers = {b1, b2, b3, b4}
  IndexMod = 8
  Payloads = {"request"}
  MaxPayloads = 1
  AckCounts = {}
  NoBuffer = NoBuffer
  NoClient = NoClient
PROPERTY RentReturns
CHECK_DEADLOCK FALSE
