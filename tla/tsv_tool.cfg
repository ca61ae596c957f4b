SPECIFICATION TsvSpec
CONSTANTS
  Times = {"0", "t1", "t2", "t2+", "t3"}
  Tick <- MCTick
  Shown <- MCShown
  Cut <- MCCut
  Names = {"a", "b"}
  UnitTexts = {"u", "uu"}
  Long <- MCLong
  ValueTexts <- MCValueTexts
  Reading <- MCReading
  Whole <- MCWhole
  Low <- MCLow
  Extends <- MCExtends
  Lines <- MCLines
  MaxLines = 3
  ChunkSizes = {4, 7, 8, 9, 13, 30}
INVARIANTS TsvTypeOK LinesAsRows OrderlyAgrees EqualLostNothing
PROPERTY ToolEnds
CHECK_DEADLOCK FALSE
