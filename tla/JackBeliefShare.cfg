CONSTANTS
  UsPerMs = 2
  RateMs = 2
  ClockSteps = {2, 4}
  StartMs = 1
  MaxWrites = 3
SPECIFICATION Spec
INVARIANT TypeOK
PROPERTY TeamEventuallyCurrent
PROPERTY MemberFollowsTeam
