\* A delivery of up to three attempts, other deliveries to its endpoint, a
\* receiver that crashes up to twice.
CONSTANTS
  d1 = d1
  Deliveries = {d1}
  TicksPerSecond = 2
  Tolerance = 2
  MaxAttempts = 3
  DisableAt = 2
  Sdk = "ts"
  Bodies = {"raw", "reserialized"}
  Headers <- SentHeaders
  Offsets <- AroundTwoSeconds
  MaxCrashes = 2
SPECIFICATION Spec
INVARIANTS TypeOK VerdictsAgree AcknowledgedIsStored WorkOnce
PROPERTIES AcknowledgedIsHandled
CHECK_DEADLOCK FALSE
