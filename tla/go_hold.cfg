CONSTANTS
  hold = hold
  buy = buy
  again = again
  seat = seat
  look = look
  cart = cart
  k1 = k1
  k2 = k2
  k3 = k3
  k4 = k4
  k5 = k5
  NoKey = NoKey
  NoInfo = NoInfo
  Absent = Absent
  NotGiven = NotGiven
  EmptyKey = EmptyKey
  Calls <- HoldSeatLook
  Keys <- AllKeys
  KeyRequired <- OnlySeat
  Infos <- InfosWait
  MaxCopies = 1
  NeedsAuth <- EveryCall
  HasApiKey <- HoldAndLook
  Unconfirmed = {}
  BadParams <- OnlyLook
  CallerKey <- NoCallerKey
  Generated <- KeysOfEach
  MaxRetries = 2
  MaxRetryDelay = 2
  Timeout = 1
  MaxDuration = 4
  MayCrash = FALSE
SPECIFICATION FairSpec
INVARIANTS TypeOK WaitsAsAsked
PROPERTIES SendsOnlyWhenDue ImplementsBookingCalls EveryReturns
CHECK_DEADLOCK FALSE
