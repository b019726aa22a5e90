\* CoLaB among other bytes: the search for STX does not end.
CONSTANTS
  Bytes = {0, 2}
  MaxStream = 8
  Inputs <- NoisyInputs
  ByteValues = 256
  MaxTimeouts = 0
SPECIFICATION FairSpec
PROPERTIES
  StreamConsumed
