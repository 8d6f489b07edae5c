SPECIFICATION ProgramSpec
CONSTANTS
  Width16 = 65536
  DEFAULT_PAGE_SIZE = 4096
  PageSize = 4096
  MinFill = 125
  MaxFill = 250
  Key <- ProgramKeys
  Value <- ProgramValues
  ItemBytes <- ProgramItemBytes
  FarPage = 1000
  MaxPages = 99
  MaxDepth = 8
  MaxSessions = 2
  MaxFaults = 0
  DataSizes <- ProgramSizes
  MaxKilled = 30
INVARIANTS NothingIsFatal NothingIsLeft
PROPERTY ProgramEnds
