CONSTANTS
  UsPerMs = 2
  RateMs = 2
  ClockSteps = {1}
  StartMs = 1
  MaxWrites = 3
SPECIFICATION Spec
PROPERTY TeamEventuallyCurrent
