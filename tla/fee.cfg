\* Rates, freezes, rotations, a reset of the rules and a reorganization.
SPECIFICATION Spec
CONSTANTS
  op = op  gd = gd  st = st  spare = spare  zero = zero
  None = None
  Accounts = {op, gd, st, spare, zero}
  Reserved = {zero}
  FirstRoles <- MCRoles
  FirstRate = 5
  Rates = {5, 6, 7}
  FeeAt <- MCFeeAt
  LegacyFee = 9
  LegacyBefore = TRUE
  Start = 0
  From = 1
  Grace = 1
  Delay = 2
  GuardianDelay = 3
  Resets <- MCResets
  U32 = 7
  MaxHeight = 7
  MaxOps = 3
  MaxRollbacks = 1
\* The chain stops at MaxHeight.
CHECK_DEADLOCK FALSE
INVARIANTS
  QuotedFeesAccepted
  RatesAnnounced
  FreezeHolds
  NeverHalts
  RolesAnnounced
