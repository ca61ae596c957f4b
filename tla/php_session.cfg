SPECIFICATION MCSpec
CONSTANTS
  Ids <- MCIds
  Sensors = {"a"}
  Kinds <- MCKinds
  Plain = {p}
  Small = {}
  Times = {0, 1}
  NoTime = NoTime
  MaxHandles = 2
  MaxRows = 2
  MaxBlocks = 2
  FlushResults = {"ok"}
  Reopen = FALSE
  MaxReaders = 1
  LateSelect = FALSE
  SmallByGenerate = FALSE
  ShortWrites = TRUE
INVARIANTS SessionTypeOK RowsTold FileLeftWhole QuietLoopReadAll GeneratedExplained
CHECK_DEADLOCK FALSE
