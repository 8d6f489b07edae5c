SPECIFICATION RewriteSpec
CONSTANTS
  Width16 = 65536
  DEFAULT_PAGE_SIZE = 4096
  PageSize = 4096
  MinFill = 125
  MaxFill = 250
  Key = {1, 2}
  Value = {1, 2}
  ItemBytes <- Items24
  FarPage = 1000
  MaxPages = 6
  MaxDepth = 6
  MaxSessions = 1
  MaxFaults = 0
CHECK_DEADLOCK FALSE
INVARIANT RemovedKeyIsGone
