CONSTANTS
  UsPerMs = 2
  RateMs = 2
  ClockSteps = {0, 2}
  StartMs = 1
  MaxWrites = 3
SPECIFICATION Spec
PROPERTY MemberFollowsTeam
