\* Two passes of the history task over two payments a reorganization may move.
SPECIFICATION Spec
CONSTANTS
  raceA = raceA  lotB = lotB  lotC = lotC  failD = failD
  NoPlace = NoPlace
  Rival = Rival
  Height <- MCHeight
  Effect <- MCEffect
  Places = {raceA, lotB}
  MaxAttempts = 2
  MaxLots = 1
  StopReasons = {}
  NoSettle = {}
  MaxHeight = 1
  MaxQueue = 1
  MaxSaves = 0
  MaxCrashes = 0
  MaxWriteFailures = 0
  MaxReorgs = 1
  MaxHistories = 2
  HistoryRepeats = FALSE
  MaxRivals = 1
\* The system rests once the session ended and history is final.
CHECK_DEADLOCK FALSE
PROPERTIES
  VerdictsStand
INVARIANTS
  FinalLinesAreTrue
  HistoryCorrectsVerdicts
