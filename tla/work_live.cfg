SPECIFICATION WorkSpec
CONSTANTS
  Parts = {"payments", "notify", "wakeup"}
  none = none
CHECK_DEADLOCK FALSE
PROPERTIES
  WorkIsDone
