\* Offers, trades and lots through a reorganization and finality.
SPECIFICATION Spec
CONSTANTS
  alice = alice  bob = bob  pair = pair
  None = None
  Owners = {alice, bob}
  Pairs = {pair}
  Signers <- MCSigners
  Proposals = {1}
  Symbols = {X}
  MaxSeq = 3
  Cap = 2
  Limit = 1
  Lot = 1
  Fee <- MCFee
  Start = 0
  Policies = {"issuer", "progressive"}
  Amounts = {1}
  Expiries = {2}
  OfferSeqs = {2}
  MaxHeight = 3
  MaxOps = 3
  MaxRollbacks = 1
\* The chain stops at MaxHeight.
CHECK_DEADLOCK FALSE
SYMMETRY AccountSymmetry
INVARIANTS
  TokensNeverHalt
  TradesAreAtomic
  LotsArePaid
  LotsStayOpen
