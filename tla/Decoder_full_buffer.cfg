SPECIFICATION Spec
CONSTANTS
  CalXor <- XorOf
  MaxDataLen = 4
  Inputs <- MCInputs
  MayFollow <- MCMayFollow
  Payloads <- MCPayloads
  IndexRange = 3
  Lengths = {3}
  MaxStream = 3
PROPERTIES
  ProcessReturns
CHECK_DEADLOCK FALSE
