\* An installation of two wallets over locks, restarts and failing writes.
SPECIFICATION BookSpec
CONSTANTS
  A = A  B = B  p = p  q = q  NoRoot = NoRoot
  Roots = {A, B}
  Passwords = {p, q}
  Installed <- MCInstalled
  MaxAccounts = 3
  MaxQueue = 2
  MaxKeyOps = 4
\* Operations are bounded.
CHECK_DEADLOCK FALSE
INVARIANTS
  BookLoads
  AddedStay
  BackupsRestore
