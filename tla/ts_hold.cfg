CONSTANTS
  hold = hold
  buy = buy
  again = again
  look = look
  cart = cart
  u1 = u1
  u2 = u2
  u3 = u3
  u4 = u4
  NoKey = NoKey
  NoInfo = NoInfo
  Absent = Absent
  NotGiven = NotGiven
  EmptyKey = EmptyKey
  Calls <- HoldLookAgain
  Keys <- KeysOfCarts
  KeyRequired <- OnlyAgain
  Infos <- InfosAll
  MaxCopies = 1
  NeedsAuth <- EveryCall
  HasApiKey <- HoldAndLook
  BadParams <- OnlyLook
  CallerKey <- NoCallerKey
  Generated <- KeysOfEach
  MaxRetries <- TwoRetries
  MaxRetryDelay = 2
  Timeout = 1
  TimerLimit = 5
  HonoursSignal = TRUE
  MayCrash = FALSE
SPECIFICATION FairSpec
INVARIANTS TypeOK OncePerCall OutcomeTellsTruth WaitsAsAsked
PROPERTIES SendsOnlyWhenDue EverySettles ImplementsBookingCalls
CHECK_DEADLOCK FALSE
