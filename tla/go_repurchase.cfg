CONSTANTS
  hold = hold
  buy = buy
  again = again
  seat = seat
  look = look
  cart = cart
  k1 = k1
  k2 = k2
  k3 = k3
  k4 = k4
  k5 = k5
  NoKey = NoKey
  NoInfo = NoInfo
  Absent = Absent
  NotGiven = NotGiven
  EmptyKey = EmptyKey
  Calls <- BuyAgainSeat
  Keys <- AllKeys
  KeyRequired <- BuyAgainSeat
  Infos <- InfosOne
  MaxCopies = 0
  NeedsAuth <- EveryCall
  HasApiKey <- EveryCall
  Unconfirmed <- OnlySeat
  BadParams = {}
  CallerKey <- CartKey
  Generated <- KeysOfEach
  MaxRetries = 1
  MaxRetryDelay = 2
  Timeout = 0
  MaxDuration = 4
  MayCrash = TRUE
SPECIFICATION Spec
PROPERTIES ImplementsBookingCalls
CHECK_DEADLOCK FALSE
