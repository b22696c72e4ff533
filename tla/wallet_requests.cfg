\* Requests of one page and of the wallet, two windows, one event of every kind.  The wallet may
\* really rest with nothing asked and no event left, so a deadlock is no error.
SPECIFICATION Spec
CONSTANTS
  a1 = a1  a2 = a2  n1 = n1  n2 = n2

  Requests = {r1, r2}
  Pages = {page}
  NoPage = NoPage
  Calls = {w1, w2}
  Accounts = {a1, a2}
  Networks = {n1, n2}
  NoNetwork = NoNetwork
  NoRequest = NoRequest
  First <- MCFirst
  Kinds = {"connect", "transaction", "proof", "session"}
  Events = {"lock", "select", "switch", "revoke", "leave", "cancel", "expire", "clear", "crash", "write", "retip"}
  MaxEvents = 1
  MaxClearFailures = 0
SYMMETRY Symmetry
CHECK_DEADLOCK FALSE
INVARIANTS
  MutexOwned
  SignsAsShown
  NotSubmittedIsTrue
  SentIsKept
  OneOpenPayment
PROPERTIES
  NothingAfterEnd
  LockWins
