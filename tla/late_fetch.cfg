SPECIFICATION PipeSpec
CONSTANTS
  Names <- MCNames
  Units <- MCUnits
  NameLen <- MCNameLen
  UnitLen <- MCUnitLen
  HashOf <- MCHashOf
  Values <- MCValues
  IndexMod = 65536
  WordMod = 1000
  TsNull = TsNull
  NoEntry = NoEntry
  Times = {0, 3}
  SubTicks = 2
  BucketSize = 1030
  Sizes = {}
  Extends = {}
  FlushResults = {"ok"}
  MaxRows = 3
  MaxWire = 1
  FetchLists = {{"a"}}
  LateFetch = TRUE
PROPERTY FetchHonoured
CHECK_DEADLOCK FALSE
