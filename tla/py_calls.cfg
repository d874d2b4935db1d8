CONSTANTS
  hold = hold
  buy = buy
  seat = seat
  k1 = k1
  k2 = k2
  k3 = k3
  NoKey = NoKey
  NoInfo = NoInfo
  Absent = Absent
  NotGiven = NotGiven
  EmptyKey = EmptyKey
  Calls <- HoldBuySeat
  Keys <- ThreeKeys
  KeyRequired <- BuyAndSeat
  Infos <- InfosTwo
  MaxCopies = 0
  NeedsAuth <- EveryCall
  HasApiKey <- EveryCall
  BadParams = {}
  CallerKey <- NoCallerKey
  Generated <- KeysOfEach
  MaxRetryDelay = 2
  Timeout = 1
  MayCrash = TRUE
  Unconfirmed <- OnlySeat
  MaxRetries <- OneRetry
SPECIFICATION FairSpec
INVARIANTS TypeOK WaitsAsAsked
PROPERTIES ImplementsBookingCalls EveryReturns
CHECK_DEADLOCK FALSE
