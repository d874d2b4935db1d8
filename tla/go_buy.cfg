CONSTANTS
  hold = hold
  buy = buy
  again = again
  seat = seat
  look = look
  cart = cart
  k1 = k1
  k2 = k2
  k3 = k3
  k4 = k4
  k5 = k5
  NoKey = NoKey
  NoInfo = NoInfo
  Absent = Absent
  NotGiven = NotGiven
  EmptyKey = EmptyKey
  Calls <- OnlyBuy
  Keys <- AllKeys
  KeyRequired <- OnlyBuy
  Infos <- InfosOne
  MaxCopies = 1
  NeedsAuth <- EveryCall
  HasApiKey <- EveryCall
  Unconfirmed = {}
  BadParams = {}
  CallerKey <- NoCallerKey
  Generated <- TwoKeys
  MaxRetries = 2
  MaxRetryDelay = 2
  Timeout = 1
  MaxDuration = 4
  MayCrash = FALSE
SPECIFICATION Spec
PROPERTIES ImplementsBookingCalls
CHECK_DEADLOCK FALSE
