SPECIFICATION Spec
CONSTANTS
  CalXor <- XorOf
  MaxDataLen = 4
  Inputs <- MCInputs
  MayFollow <- MCMayFollow
  Payloads <- MCPayloads
  IndexRange = 3
  Lengths = {1, 2}
  MaxStream = 19
INVARIANTS
  OkIfDecoded
CHECK_DEADLOCK FALSE
