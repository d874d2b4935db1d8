\* Two publications; every operation whose document changes is called.
CONSTANTS
  go = go
  python = python
  Ports = {go, python}
  SpecSecurity = {}
  Components <- ApiComponents
  Documents <- PublishedDocuments
  MaxPublications = 2
  CalledIds = {"searchEvents", "getEvent", "createTableReservation", "createTicketReservation", "updateWebhook", "getThing"}
  Options <- CallerOptions
  Samples <- ReplySchemas
  SampleValues <- ReplyValues
SYMMETRY PortSymmetry
SPECIFICATION Spec
INVARIANTS TypeOK ReleasedIsOfItsSnapshot CallsReachServer NewerParametersReach GreenIsCovered
PROPERTY DataInhabitsType
