\* Calls in a row, each with a retry: of waits, of quotas, of all bodies.
CONSTANTS
  Word <- WordOfTest
  Replies <- AllReplies
  MaxRetries = 1
  MaxRetryDelay <- FiveSeconds
SPECIFICATION Spec
INVARIANTS TypeOK NeverEarly
PROPERTIES SdksAgree ResultSurvivesHeaders NeverLater
