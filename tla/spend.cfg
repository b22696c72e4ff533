\* Two lots and a retry, over a tree of blocks with lies about every position and nonce.
SPECIFICATION Spec
CONSTANTS
  None = None
  Lots = 3
  Fee <- MCFee
  Ticket = 2
  MaxLots = 2
  MaxAttempts = 3
  MaxFeePerLot = 3
  MaxSpend = 8
  Minted = {0, 1}
  MaxBlocks = 4
  MaxEvents = 2
  MaxForeign = 2
\* The tree stops at MaxBlocks.
CHECK_DEADLOCK FALSE
INVARIANTS
  CapsHold
  VerdictsTrue
  SpendStaysLoadable
