SPECIFICATION Spec
CONSTANTS
  Names <- ShortNames
  Units <- MCUnits
  NameLen <- ShortNameLen
  UnitLen <- MCUnitLen
  HashOf <- ShortHashOf
  Values <- MCValues
  IndexMod = 2
  WordMod = 1000
  TsNull = TsNull
  NoEntry = NoEntry
  Times = {0, 3}
  SubTicks = 2
  BucketSize = 1200
  Sizes = {}
  Extends = {}
  FlushResults = {"ok"}
  MaxRows = 3
  MaxWire = 5
INVARIANT UniqueIndex
CHECK_DEADLOCK FALSE
