CONSTANTS
  a = a
  b = b
  First = First
  None = None
  Unlimited = Unlimited
  Cursors <- TwoCursors
  Lists <- AllLists
  Limits <- UpToThreePages
  PageBound = 5
SPECIFICATION FairSpec
INVARIANTS TypeOK NoItemTwice EveryItemOnce
PROPERTIES Ends
CHECK_DEADLOCK FALSE
