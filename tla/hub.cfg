CONSTANTS
  c1 = c1
  c2 = c2
  Conns = {c1, c2}
  MaxVersion = 2
SPECIFICATION HourSpec
INVARIANTS NothingMissed
PROPERTIES AnsweringKiosksStay VanishedKiosksLeave
CHECK_DEADLOCK FALSE
