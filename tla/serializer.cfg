SPECIFICATION Spec
CONSTANTS
  Byte = 8
  Width16 = 64
  DEFAULT_PAGE_SIZE = 40
  PageSize = 44
  MinFill = 125
  MaxFill = 250
  Key = {1, 2, 3, 4, 5, 6}
  Value = {1, 2, 3, 4, 5, 6}
  ItemBytes <- Sizes
  KeyBytes <- Strings
  ValueBytes <- ReverseStrings
  Contents <- AllContents
CHECK_DEADLOCK FALSE
INVARIANTS IInv ReadBack OverrunOnlyWhenFull WrittenItemsStay
