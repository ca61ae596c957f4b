SPECIFICATION Spec
CONSTANTS
  Names <- MCNames
  Units <- MCUnits
  NameLen <- MCNameLen
  UnitLen <- MCUnitLen
  HashOf <- MCHashOf
  Values <- MCValues
  IndexMod = 65536
  WordMod = 1000
  TsNull = TsNull
  NoEntry = NoEntry
  Times = {0, 3}
  SubTicks = 2
  BucketSize = 1030
  Sizes = {1030, 1200}
  Extends = {}
  FlushResults = {"ok", "meta"}
  MaxRows = 3
  MaxWire = 5
INVARIANTS TypeOK BucketBound DictionaryExact LastValueCurrent FailureSticks
PROPERTY RefusedLeavesNothing
CHECK_DEADLOCK FALSE
