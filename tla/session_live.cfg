\* One payment, a crash, a failed write, and history passes for ever.
SPECIFICATION FairSpec
CONSTANTS
  raceA = raceA  lotB = lotB  lotC = lotC  failD = failD
  NoPlace = NoPlace
  Rival = Rival
  Height <- MCHeight
  Effect <- MCEffect
  Places = {lotB}
  MaxAttempts = 1
  MaxLots = 1
  StopReasons = {"stopped"}
  NoSettle = {}
  MaxHeight = 1
  MaxQueue = 1
  MaxSaves = 0
  MaxCrashes = 1
  MaxWriteFailures = 1
  MaxReorgs = 0
  MaxHistories = 0
  HistoryRepeats = TRUE
  MaxRivals = 1
\* The system rests once the session ended and history is final.
CHECK_DEADLOCK FALSE
INVARIANTS
  FreeAccountIsSettled
PROPERTIES
  HistoryKeepsFinal
  SessionRests
  AccountFrees
