\* Overlapping runs, batches of one, three faults.
SPECIFICATION FairSpec
CONSTANTS
  Logs = {"log1", "log2"}
  Listeners = {"mail", "push"}
  Outcome <- TwoOutcome
  Jobs = {"run1", "run2"}
  Limit = 1
  NoLog = "none"
  MaxNotes = 8
  MaxFaults = 3
INVARIANTS
  TypeOK
  ProcessedMeansNoted
  SentIsAudited
  OnceIfNoFault
PROPERTIES
  ImplementsDelivery
