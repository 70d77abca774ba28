\* A shift pushed behind one conflict meets another.
SPECIFICATION Spec
CONSTANTS
  Calls = {"c1", "c2", "c3"}
  TaskOf <- MCTaskOf
  Plans <- MCPlans
  Slots <- MCSlots
  OffDates <- MCOffDates
  DayLength = 6
  MaxDays = 4
INVARIANT
  NoDoubleBooking
CHECK_DEADLOCK FALSE
