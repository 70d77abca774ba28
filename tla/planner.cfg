\* Three concurrent calls, two of them for one task.
SPECIFICATION Spec
CONSTANTS
  Calls = {"c1", "c2", "c3"}
  TaskOf <- MCTaskOf
  Plans <- MCPlans
  Slots <- MCSlots
  OffDates <- MCOffDates
  DayLength = 6
  MaxDays = 4
INVARIANTS
  TypeOK
  PlacedAtFirstWorkingTick
  GivenItsWorkingTime
  ShiftsAreSerial
  DoubleBookedOnlyByPushOrRace
CHECK_DEADLOCK FALSE
