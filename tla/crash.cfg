SPECIFICATION Spec
CONSTANTS
  Width16 = 65536
  DEFAULT_PAGE_SIZE = 4096
  PageSize = 4096
  MinFill = 125
  MaxFill = 250
  Key = {1, 2}
  Value = {1}
  ItemBytes <- Items46
  FarPage = 1000
  MaxPages = 4
  MaxDepth = 5
  MaxSessions = 2
  MaxFaults = 1
CHECK_DEADLOCK FALSE
INVARIANTS TypeOK IInv TreeIsOfThisSession FailedStreamOnlyErrs
PROPERTY HeaderPagesIntact
