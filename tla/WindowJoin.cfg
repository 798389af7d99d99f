\* Three slots in a week of three days.
SPECIFICATION Spec
CONSTANTS
  DayLen = 2
  WeekDays = 3
  MaxSlots = 3
  EachDaySlots = TRUE
INVARIANTS NeverOutside ClosestOpenSlotMostly
CHECK_DEADLOCK FALSE
