SPECIFICATION Spec
CONSTANTS
  Budget = 3
  ParamSlots = 8
  MaxStores = 2
  MaxElem = 1
  Values = {0, 1}
  MaxPending = 1
  HasOnCan = TRUE
  Habits = {"clrline"}
PROPERTY CallsAnswered
CHECK_DEADLOCK FALSE
