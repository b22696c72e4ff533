\* A mint session and a payment over two windows and two documents of the popup, with one reload
\* of the page and one reset by the wallet.
SPECIFICATION Spec
CONSTANTS
  ask = ask  pay = pay
  None = None
  Requests = {ask, pay}
  Kind <- MCKind
  MaxWins = 2
  MaxDocs = 2
  MaxLeaves = 1
  MaxResets = 1
\* Every request settles and windows stay closed.
CHECK_DEADLOCK FALSE
INVARIANT
  ShownSessionRuns
PROPERTIES
  OutcomesAreTrue
  QueuedMoves
