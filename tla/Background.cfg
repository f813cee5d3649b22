SPECIFICATION BackgroundSpec
CONSTANTS
  Senders = {s1, s2}
  MaxRetries = 1
  MaxSignals = 2
  MaxManual = 1
  Count = 2
  MaxDeliveries = 2
  MaxRuns = 2
  Limit = 1
  MaxDeletions = 1
  Workers = {w1, w2}
  Requests = {r1, r2, r3}
  MaxAge = 1
  Horizon = 2
  Edits = 1
INVARIANTS BackgroundTypeOK DeliveriesAreCounted CompleteIsWhole
PROPERTIES CompleteIsFinal RunsAreSpaced EverythingSettles
CHECK_DEADLOCK FALSE
