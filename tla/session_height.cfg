\* A line that expired after it was reported in a block.
SPECIFICATION Spec
CONSTANTS
  raceA = raceA  lotB = lotB  lotC = lotC  failD = failD
  NoPlace = NoPlace
  Rival = Rival
  Height <- MCHeight
  Effect <- MCEffect
  Places = {raceA}
  MaxAttempts = 1
  MaxLots = 1
  StopReasons = {}
  NoSettle = {}
  MaxHeight = 1
  MaxQueue = 1
  MaxSaves = 0
  MaxCrashes = 0
  MaxWriteFailures = 0
  MaxReorgs = 1
  MaxHistories = 2
  HistoryRepeats = FALSE
  MaxRivals = 0
\* The system rests once the session ended and history is final.
CHECK_DEADLOCK FALSE
INVARIANTS
  FinalLineKeepsOwnHeight
