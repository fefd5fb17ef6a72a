SPECIFICATION Spec
CONSTANTS
  Clients = {c1, c2}
  Buffers = {b1, b2, b3, b4}
  IndexMod = 2
  Payloads = {"request", "secure request", "ping", "odd ping", "pong", "no reply"}
  MaxPayloads = 2
  AckCounts = {0, 1, 256}
  NoBuffer = NoBuffer
  NoClient = NoClient
SYMMETRY SendSymmetry
INVARIANT TypeOK
INVARIANT BuffersPartitioned
INVARIANT UnackedIntact
INVARIANT OnlyUnackedFillThePool
PROPERTY RepliesLikeReliableReplies
CHECK_DEADLOCK FALSE
