\* A shift and a window, a worker, two requests, two attempts per job.
SPECIFICATION FairSpec
CONSTANTS
  Shifts = {"shift"}
  Windows = {"window"}
  Workers = {"w1"}
  NoRow = "none"
  MaxAttempts = 2
  MaxOps = 2
  MaxFaults = 2
INVARIANTS
  TypeOK
  EndJobNotWasted
  CompletedIsInactive
PROPERTIES
  SettledStaysSettled
  EndJobSettles
CHECK_DEADLOCK FALSE
