SPECIFICATION Spec
CONSTANTS
  Workers = {w1}
  Markets = {m1}
  Clients = {c1, c2}
  None = None
  m1 = m1
  Watches <- SameMarket
  MaxTotal = 2
  MaxPerMarket = 2
  MaxFrames = 1
  MaxEdits = 2
  MaxWriters = 2
  MaxSockets = 3
  MaxCloses = 1
  MaxFaults = 1
INVARIANTS TypeOK ShownWasCommitted RegistryCounts FramesInOrder
PROPERTIES FrameReaches
CHECK_DEADLOCK FALSE
