SPECIFICATION MCSpec
CONSTANTS
  Ids <- MCIds
  Sensors <- MCSensors
  Plain = {p}
  Small = {}
  Times = {0}
  NoTime = NoTime
  MaxHandles = 2
  MaxRows = 2
  MaxBlocks = 2
  FlushResults = {"ok"}
  Reopen = TRUE
  MaxReaders = 2
  LateSelect = FALSE
  SmallByGenerate = FALSE
INVARIANT RightSensor
CHECK_DEADLOCK FALSE
