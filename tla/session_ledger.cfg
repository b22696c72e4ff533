\* Two payments with every outcome, one lot: forks, a crash, a failed write and a foreign save anywhere.
SPECIFICATION Spec
CONSTANTS
  raceA = raceA  lotB = lotB  lotC = lotC  failD = failD
  NoPlace = NoPlace
  Rival = Rival
  Height <- MCHeight
  Effect <- MCEffect
  Places = {raceA, lotB, lotC, failD}
  MaxAttempts = 2
  MaxLots = 1
  StopReasons = {"stopped", "update"}
  NoSettle = {"update"}
  MaxHeight = 2
  MaxQueue = 1
  MaxSaves = 1
  MaxCrashes = 1
  MaxWriteFailures = 1
  MaxReorgs = 1
  MaxHistories = 0
  HistoryRepeats = FALSE
  MaxRivals = 1
\* The system rests once the session ended and history is final.
CHECK_DEADLOCK FALSE
INVARIANTS
  LedgerLoads
  ReleasedInHistory
  ReleasedInLedger
  SignaturesCounted
PROPERTIES
  NothingAfterStop
  SignsOnVerifiedGround
