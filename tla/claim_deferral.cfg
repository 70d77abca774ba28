\* A shift whose start job finds the calendar closed; no requests, no faults.
SPECIFICATION Spec
CONSTANTS
  Shifts = {"shift"}
  Windows = {}
  Workers = {"w1"}
  NoRow = "none"
  MaxAttempts = 2
  MaxOps = 0
  MaxFaults = 0
INVARIANT
  DeferredStartIsQueued
CHECK_DEADLOCK FALSE
