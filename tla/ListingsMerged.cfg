SPECIFICATION ListingSpec
CONSTANTS
  Memo = {1}
  Leaf = {2, 3}
  ListLimit = 1
  MaxShifts = 0
  MaxListings = 1
INVARIANT MergedExactly
CHECK_DEADLOCK FALSE
