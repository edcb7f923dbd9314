SPECIFICATION FairSpec
CONSTANTS
  m1 = m1  m2 = m2
  NoMsg = NoMsg
  Msgs = {m1, m2}
  MaxCrashes = 1
INVARIANTS AtMostOnce NotEarly RemovedIsNeverDelivered
PROPERTIES DeletedIsNotDelivered HandedOut
