SPECIFICATION MCSpec
CONSTANTS
  Ids <- MCIds
  Sensors <- MCSensors
  Plain = {p}
  Small = {}
  Times = {0}
  NoTime = NoTime
  MaxHandles = 2
  MaxRows = 2
  MaxBlocks = 2
  FlushResults = {"ok", "data"}
  Reopen = FALSE
  MaxReaders = 2
  LateSelect = FALSE
  SmallByGenerate = FALSE
INVARIANTS ContainersTypeOK ListsExact
PROPERTIES  OnlyBadFramesMislead EachIsALog ReadsEveryChannel
CHECK_DEADLOCK FALSE
