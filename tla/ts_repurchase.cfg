CONSTANTS
  hold = hold
  buy = buy
  again = again
  look = look
  cart = cart
  u1 = u1
  u2 = u2
  u3 = u3
  u4 = u4
  NoKey = NoKey
  NoInfo = NoInfo
  Absent = Absent
  NotGiven = NotGiven
  EmptyKey = EmptyKey
  Calls <- BuyAndAgain
  Keys <- KeysOfCarts
  KeyRequired <- BuyAndAgain
  Infos <- InfosTwo
  MaxCopies = 0
  NeedsAuth <- EveryCall
  HasApiKey <- EveryCall
  BadParams = {}
  CallerKey <- CartKey
  Generated <- KeysOfEach
  MaxRetries <- BuyRetries
  MaxRetryDelay = 2
  Timeout = 0
  TimerLimit = 5
  HonoursSignal = TRUE
  MayCrash = TRUE
SPECIFICATION Spec
INVARIANTS OncePerPurchase
PROPERTIES ImplementsBookingCalls
CHECK_DEADLOCK FALSE
