CONSTANTS
  Bytes = {0, 2, 3}
  MaxStream = 6
  Inputs <- AllInputs
  ByteValues = 256
  MaxTimeouts = 2
SPECIFICATION FairSpec
INVARIANTS
  PacketsExact
  TimeoutCostsOnePacket
  LengthAfterRun
PROPERTIES
  StreamConsumed
