SPECIFICATION PipeSpec
CONSTANTS
  Names <- MCNames
  Units <- MCUnits
  NameLen <- MCNameLen
  UnitLen <- MCUnitLen
  HashOf <- MCHashOf
  Values <- MCValues
  IndexMod = 65536
  WordMod = 1000
  TsNull = TsNull
  NoEntry = NoEntry
  Times = {0, 3}
  SubTicks = 2
  BucketSize = 1030
  Sizes = {1200}
  Extends = {}
  FlushResults = {"ok", "data"}
  MaxRows = 3
  MaxWire = 1
  FetchLists = {{"a"}}
  LateFetch = FALSE
INVARIANTS ReaderTypeOK NoWildRead CountAgrees ReaderFits
PROPERTIES ImplementsLog ReadsToTheEnd
CHECK_DEADLOCK FALSE
