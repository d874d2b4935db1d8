CONSTANTS
  hold = hold
  buy = buy
  again = again
  seat = seat
  look = look
  cart = cart
  k1 = k1
  k2 = k2
  k3 = k3
  k4 = k4
  k5 = k5
  NoKey = NoKey
  NoInfo = NoInfo
  Absent = Absent
  NotGiven = NotGiven
  EmptyKey = EmptyKey
  Calls <- HoldAndBuy
  Keys <- AllKeys
  KeyRequired <- OnlyBuy
  Infos <- InfosTwo
  MaxCopies = 0
  NeedsAuth <- EveryCall
  HasApiKey <- EveryCall
  Unconfirmed = {}
  BadParams = {}
  CallerKey <- NoCallerKey
  Generated <- KeysOfEach
  MaxRetries = 0
  MaxRetryDelay = 2
  Timeout = 0
  MaxDuration = 4
  MayCrash = FALSE
SPECIFICATION Spec
INVARIANTS RateLimitIsNewest
CHECK_DEADLOCK FALSE
