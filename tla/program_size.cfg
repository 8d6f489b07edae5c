SPECIFICATION ProgramSpec
CONSTANTS
  Width16 = 65536
  DEFAULT_PAGE_SIZE = 4096
  PageSize = 4096
  MinFill = 7500
  MaxFill = 7500
  Key <- ProgramKeys
  Value <- ProgramValues
  ItemBytes <- ProgramItemBytes
  FarPage = 1000
  MaxPages = 99
  MaxDepth = 8
  MaxSessions = 1
  MaxFaults = 0
  DataSizes = {241}
  MaxKilled = 0
INVARIANTS NothingIsFatal 
